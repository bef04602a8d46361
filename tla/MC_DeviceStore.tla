--------------------------- MODULE MC_DeviceStore ---------------------------
EXTENDS DeviceStore

CONSTANTS f1, f2, bad

Row(f, l) == [fp |-> f, label |-> l]

\* A device, a second one, a duplicated fingerprint (the later row wins) and
\* a row whose fingerprint is not canonical.
MCLists == { <<Row(f1, "a")>>,
             <<Row(f1, "a"), Row(f2, "b"), Row(f1, "c"), Row(bad, "d")>> }

MCCanonical == {f1, f2}
=============================================================================
