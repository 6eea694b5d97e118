------------------------------- MODULE AtaBase -------------------------------
(***************************************************************************)
(* Definitions the ATA controller model (Ata) and the sector store it      *)
(* implements (AtaDisk) share: the drives, the opcodes and register flags  *)
(* of src/src/devices/ata.c, and the byte tokens.                          *)
(*                                                                         *)
(* A byte is a token naming where it came from: Img(d, k, i) is byte i of  *)
(* sector k of drive d's original image, Guest(j) the j-th byte the guest  *)
(* wrote in the current transfer, Ident(n, i) byte i of an IDENTIFY block  *)
(* reporting n sectors, Zero a byte of an unwritten sector.                *)
(***************************************************************************)
EXTENDS Integers

CONSTANTS
  SectorSize,   \* SECTOR_SIZE
  MaxSector     \* last sector index a transfer can reach in the model

ASSUME SectorSize \in Nat \ {0} /\ MaxSector \in Nat

Drives == {0, 1}
Sectors == 0 .. MaxSector
Offsets == 0 .. SectorSize - 1

Img(d, k, i) == <<d, k, i>>
Guest(j) == <<2, j, 0>>
Ident(n, i) == <<3, n, i>>
Zero == <<4, 0, 0>>

\* Command opcodes: ATA_CMD_IDENTIFY, _INITIALIZE_DEVICE_PARAMS, _READ_SECTORS,
\* _WRITE_SECTORS, and one that ata_handle_cmd does not know.
IDENTIFY == 236
INIT_PARAMS == 145
READ == 32
WRITE == 48
NOP == 0
Commands == {IDENTIFY, INIT_PARAMS, READ, WRITE, NOP}

\* The STATUS and ERROR bits the controller uses.
Flags == {"ERR", "DRQ", "SRV", "RDY"}
Errors == {"AMNF", "ABRT", "UNC"}
=============================================================================
