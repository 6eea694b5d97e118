------------------------------- MODULE AtaDisk -------------------------------
(***************************************************************************)
(* What the ATA controller promises a guest driver that follows the PIO    *)
(* protocol: each drive is a store of sectors; a command names a drive, a  *)
(* first sector and a sector count; a READ SECTORS transfer hands out the  *)
(* stored bytes from that sector on, in order, and stops with an error at  *)
(* the end of the image; a WRITE SECTORS transfer stores each sector once  *)
(* the guest has supplied all of its bytes; IDENTIFY hands out a block     *)
(* reporting the drive's capacity, which is the size of its image.         *)
(*                                                                         *)
(* No register, buffer or file position appears here: a step is a         *)
(* command, a DATA access of w bytes, or a reset.                          *)
(***************************************************************************)
EXTENDS Integers, AtaBase

VARIABLES
  present,   \* the drive has an image
  capacity,  \* the sector count IDENTIFY reports
  extent,    \* the sectors the image holds
  store,     \* store[d][k][i]: byte i of sector k of drive d
  req,       \* the command in progress: [cmd, drive, lba, count, done]
  failed,    \* the transfer in progress has stopped with an error
  out        \* the bytes the last DATA read handed out

vars == <<present, capacity, extent, store, req, failed, out>>

\* A present drive reports the size of its image.
Init ==
  /\ \A d \in Drives : present[d] => capacity[d] = extent[d]
  /\ store = [d \in Drives |-> [k \in Sectors |-> [i \in Offsets |->
                IF k < extent[d] THEN Img(d, k, i) ELSE Zero]]]
  /\ req = [cmd |-> NOP, drive |-> 0, lba |-> 0, count |-> 0, done |-> 0]
  /\ failed = FALSE /\ out = <<>>

\* The w bytes of a transfer from sector lba of drive d, from byte `from` on.
Bytes(d, lba, from, w) ==
  [j \in 1 .. w |-> LET k == from + j - 1
                    IN store[d][lba + k \div SectorSize][k % SectorSize]]

Length == req.count * SectorSize

(* A command to a present drive starts a new request; a READ from beyond  *)
(* the image fails at once.                                                *)
Issue ==
  /\ req' \in [cmd : Commands, drive : Drives, lba : Nat, count : Nat, done : {0}]
  /\ present[req'.drive]
  /\ failed' = (req'.cmd = READ /\ req'.lba >= extent[req'.drive])
  /\ UNCHANGED <<present, capacity, extent, store, out>>

\* A DATA access stays within one sector.
InSector(w) == (req.done % SectorSize) + w <= SectorSize

(* The next w bytes of a READ: when they end a sector and more are due,    *)
(* the transfer fails if the next sector is beyond the image.              *)
ReadNext(w) ==
  /\ req.cmd = READ /\ ~failed /\ req.done + w <= Length /\ InSector(w)
  /\ out' = Bytes(req.drive, req.lba, req.done, w)
  /\ req' = [req EXCEPT !.done = @ + w]
  /\ failed' = (/\ req'.done % SectorSize = 0 /\ req'.done < Length
                /\ req.lba + req'.done \div SectorSize >= extent[req.drive])
  /\ UNCHANGED <<present, capacity, extent, store>>

\* The next w bytes of the IDENTIFY block.
IdentifyNext(w) ==
  /\ req.cmd = IDENTIFY /\ req.done + w <= SectorSize
  /\ out' = [j \in 1 .. w |-> Ident(capacity[req.drive], req.done + j - 1)]
  /\ req' = [req EXCEPT !.done = @ + w]
  /\ UNCHANGED <<present, capacity, extent, store, failed>>

(* The next w bytes of a WRITE: the sector they complete is stored, and    *)
(* the image grows to hold it.                                             *)
WriteNext(w) ==
  LET d == req.drive
      k == req.lba + req.done \div SectorSize
      first == req.done - (req.done % SectorSize)
  IN
  /\ req.cmd = WRITE /\ req.done + w <= Length /\ InSector(w)
  /\ req' = [req EXCEPT !.done = @ + w]
  /\ IF req'.done % SectorSize = 0
     THEN /\ store' = [store EXCEPT ![d][k] = [i \in Offsets |-> Guest(first + i)]]
          /\ extent' = [extent EXCEPT ![d] = IF k < @ THEN @ ELSE k + 1]
     ELSE UNCHANGED <<store, extent>>
  /\ UNCHANGED <<present, capacity, failed, out>>

\* A reset abandons the request.
Abort ==
  /\ req' = [req EXCEPT !.cmd = NOP] /\ failed' = FALSE
  /\ UNCHANGED <<present, capacity, extent, store, out>>

Next ==
  \/ Issue
  \/ \E w \in 1 .. SectorSize : ReadNext(w) \/ IdentifyNext(w) \/ WriteNext(w)
  \/ Abort

Spec == Init /\ [][Next]_vars
=============================================================================
