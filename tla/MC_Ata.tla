------------------------------- MODULE MC_Ata -------------------------------
(* Two-byte sectors and a two-sector master image; the guest addresses LBA *)
(* 0 and 1 and asks for one or two sectors, so transfers cross a sector    *)
(* boundary and run off the end of the image.  The slave is absent in the  *)
(* protocol run (a second image multiplies the state space by the slave's  *)
(* own task file and image) and absent or one sector long otherwise.       *)
EXTENDS Ata

MCSectorSize == 2
\* Image sizes in bytes; NoFile is a NULL FILE.
MCMasterWhole == {4}
MCSlaveAbsent == {NoFile}
MCSlaveSizes == {NoFile, 0, 3}
MCMasterSizes == {NoFile, 0, 3, 4}
MCMaxSector == 2
MCLbaValues == {0, 1}
MCNsectValues == {1, 2}
MCWidthsProtocol == {1}
MCWidthsAny == {1, 2}

\* got is what the last DATA read returned: only the step that sets it reads it.
AtaView == <<ataVars, xfer>>
=============================================================================
