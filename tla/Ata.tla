--------------------------------- MODULE Ata ---------------------------------
(***************************************************************************)
(* The ATA PIO controller of src/src/devices/ata.c: ata_init, the data     *)
(* register window (ata_data_mmio_handler), the control window             *)
(* (ata_ctl_mmio_handler) and the command and sector helpers they call,    *)
(* driven by a guest driver issuing MMIO accesses.                         *)
(*                                                                         *)
(* Only accesses that change state are actions: register reads other than  *)
(* DATA, FEATURES writes, DRVADDR and misaligned accesses leave the device *)
(* as it is.  hob_shift is left out: only those reads use it.              *)
(*                                                                         *)
(* Data abstraction: SECTOR_SIZE is SectorSize bytes, a byte is a token   *)
(* of AtaBase; files are whole sectors; file positions and lengths count   *)
(* sectors.                                                                *)
(***************************************************************************)
EXTENDS Integers, FiniteSets, AtaBase

CONSTANTS
  MasterSizes,  \* bytes in the master image file; NoFile: master is NULL
  SlaveSizes,   \* bytes in the slave image file; NoFile: slave is NULL
  Widths,       \* DATA access sizes the guest uses
  LbaValues,    \* bytes the guest writes to LBAL
  NsectValues,  \* bytes the guest writes to NSECT
  Protocol      \* TRUE: the guest follows the PIO protocol

NoFile == -1

ASSUME MasterSizes \cup SlaveSizes \subseteq Nat \cup {NoFile}
ASSUME Widths \subseteq 1 .. SectorSize /\ Protocol \in BOOLEAN

W16 == 65536   \* atareg_t and the uint16_t counters wrap at 2^16

VARIABLES
  fp,          \* drive[d].fp # NULL
  size,        \* drive[d].size: sectors ata_init computed
  len,         \* sectors the image file holds
  pos,         \* the file position, in sectors
  disk,        \* the image contents: disk[d][k][i]
  bytes,       \* drive[d].bytes_to_rw
  sectcount,   \* drive[d].sectcount
  lbal, lbam, lbah, \* drive[d].lbal, lbam, lbah
  drvreg,      \* drive[d].drive: the DEVICE register
  error,       \* drive[d].error, as a set of flags
  status,      \* drive[d].status, as a set of flags
  buf,         \* drive[d].buf
  curdrive,    \* ata->curdrive
  crashed,     \* the host faulted: fseek/fread/fwrite on a NULL FILE
  xfer,        \* auxiliary: the command in progress, as the guest issued it
  got          \* auxiliary: the bytes the last DATA read returned

ataVars == <<fp, size, len, pos, disk, bytes, sectcount, lbal, lbam, lbah,
             drvreg, error, status, buf, curdrive, crashed>>
vars == <<ataVars, xfer, got>>

Tokens == {Img(d, k, i) : d \in Drives, k \in Sectors, i \in Offsets}
            \cup {Guest(j) : j \in 0 .. (MaxSector + 1) * SectorSize}
            \cup {Ident(n, i) : n \in 0 .. MaxSector + 1, i \in Offsets} \cup {Zero}

TypeOK ==
  /\ fp \in [Drives -> BOOLEAN] /\ size \in [Drives -> Nat]
  /\ len \in [Drives -> Nat] /\ pos \in [Drives -> Nat]
  /\ disk \in [Drives -> [Sectors -> [Offsets -> Tokens]]]
  /\ bytes \in [Drives -> 0 .. W16 - 1] /\ sectcount \in [Drives -> 0 .. W16 - 1]
  /\ \A r \in {lbal, lbam, lbah, drvreg} : r \in [Drives -> 0 .. W16 - 1]
  /\ error \in [Drives -> SUBSET Errors] /\ status \in [Drives -> SUBSET Flags]
  /\ buf \in [Drives -> [Offsets -> Tokens]]
  /\ curdrive \in Drives /\ crashed \in BOOLEAN

(* DIV_ROUND_UP(get_img_size(fp), SECTOR_SIZE) for a file of b bytes:     *)
(* get_img_size returns 0 for an empty file (or a failed ftell, which is   *)
(* the same outcome) and the byte count otherwise.                         *)
ImgSectors(b) == (b + SectorSize - 1) \div SectorSize

(* ata_init(master, slave), master and slave of m and s bytes: assert one  *)
(* of them is non-NULL; drive[0].size from the master, a size of 0 drops   *)
(* its fp; drive[1].size from get_img_size(drive[0].fp), the master again. *)
(* get_img_size on a NULL fp faults in fseek: with no master or an empty   *)
(* one, the host crashes inside ata_init.  fread returns only whole        *)
(* sectors, so len counts the whole ones; a partial last sector reads as   *)
(* the file's bytes followed by zeros once a write has completed it.      *)
(* calloc zeroes the rest.                                                  *)
Init ==
  \E m \in MasterSizes, s \in SlaveSizes :
    LET fp0 == m # NoFile /\ ImgSectors(m) # 0
        bytesOf(d) == IF d = 0 THEN m ELSE s
    IN
    /\ m # NoFile \/ s # NoFile
    /\ crashed = ~fp0
    /\ size = [d \in Drives |-> IF fp0 THEN ImgSectors(m) ELSE 0]
    /\ fp = [d \in Drives |-> fp0 /\ bytesOf(d) # NoFile]
    /\ len = [d \in Drives |-> IF bytesOf(d) = NoFile THEN 0 ELSE bytesOf(d) \div SectorSize]
    /\ pos = [d \in Drives |-> 0]
    /\ disk = [d \in Drives |-> [k \in Sectors |-> [i \in Offsets |->
                IF k * SectorSize + i < bytesOf(d) THEN Img(d, k, i) ELSE Zero]]]
    /\ bytes = [d \in Drives |-> 0] /\ sectcount = [d \in Drives |-> 0]
    /\ lbal = [d \in Drives |-> 0] /\ lbam = [d \in Drives |-> 0]
    /\ lbah = [d \in Drives |-> 0] /\ drvreg = [d \in Drives |-> 0]
    /\ error = [d \in Drives |-> {}] /\ status = [d \in Drives |-> {}]
    /\ buf = [d \in Drives |-> [i \in Offsets |-> Zero]]
    /\ curdrive = 0
    /\ xfer = [cmd |-> NOP, drive |-> 0, lba |-> 0, count |-> 0, done |-> 0]
    /\ got = <<>>

-----------------------------------------------------------------------------
\* ata_get_lba(ata, false): the low bytes of LBAL/LBAM/LBAH and DEVICE bits 0-3.
Lba(d) == (lbal[d] % 256) + 256 * (lbam[d] % 256) + 65536 * (lbah[d] % 256)
            + 16777216 * (drvreg[d] % 16)

\* "Sector count of 0 means 256" (ata_cmd_read_sectors / write_sectors).
Count(sc) == IF sc = 0 THEN 256 ELSE sc

(* ata_read_buf at file position p with bytes_to_rw = b: fread of one    *)
(* sector fills buf and sets bytes_to_rw to SECTOR_SIZE; at the end of the *)
(* file it fails and changes nothing.                                      *)
ReadBufNoReset(d, p, b) ==
  IF p < len[d] THEN [ok |-> TRUE, buf |-> disk[d][p], bytes |-> b, pos |-> p + 1]
  ELSE [ok |-> FALSE, buf |-> buf[d], bytes |-> b, pos |-> p]

ReadBuf(d, p, b) ==
  IF p < len[d] THEN [ok |-> TRUE, buf |-> disk[d][p], bytes |-> SectorSize, pos |-> p + 1]
  ELSE [ok |-> FALSE, buf |-> buf[d], bytes |-> b, pos |-> p]

\* The guest's bookkeeping: bytes it expects to move in the current command.
Expected == xfer.count * SectorSize

(* What the guest checks before an access (the PIO protocol): a command    *)
(* or a task-file write only while the drive is ready with no DRQ; a DATA  *)
(* access only while DRQ is set without ERR, up to the requested length.   *)
MayIssue(d) == ~Protocol \/ ("RDY" \in status[d] /\ "DRQ" \notin status[d])
MayTransfer(d, cmds) ==
  ~Protocol \/ /\ "DRQ" \in status[d] /\ "ERR" \notin status[d]
               /\ xfer.cmd \in cmds /\ xfer.drive = d /\ xfer.done < Expected

-----------------------------------------------------------------------------
(* A write to STATUS is a command: clear error and the ERR bit, then       *)
(* ata_handle_cmd.  READ SECTORS and WRITE SECTORS turn a count of 0 into  *)
(* 256, set DRQ and RDY and fseek to the LBA (fseek on a NULL FILE faults);*)
(* READ then reads the first sector, WRITE arms bytes_to_rw.               *)
Command(c) ==
  LET d == curdrive
      st == status[d] \ {"ERR"}
      sc == IF c \in {READ, WRITE} THEN Count(sectcount[d]) ELSE sectcount[d]
      rb == ReadBuf(d, Lba(d), bytes[d])
  IN
  /\ ~crashed /\ MayIssue(d)
  /\ xfer' = [cmd |-> c, drive |-> d, lba |-> Lba(d), count |-> IF c = IDENTIFY THEN 1 ELSE Count(sectcount[d] % 256),
              done |-> 0]
  /\ UNCHANGED <<fp, size, len, disk, lbal, lbam, lbah, drvreg, curdrive, got>>
  /\ CASE c = IDENTIFY ->
          /\ buf' = [buf EXCEPT ![d] = [i \in Offsets |-> Ident(size[d], i)]]
          /\ bytes' = [bytes EXCEPT ![d] = SectorSize]
          /\ status' = [status EXCEPT ![d] = {"RDY", "SRV", "DRQ"}]
          /\ sectcount' = [sectcount EXCEPT ![d] = 1]
          /\ error' = [error EXCEPT ![d] = {}]
          /\ UNCHANGED <<pos, crashed>>
       [] c = INIT_PARAMS ->
          /\ status' = [status EXCEPT ![d] = st \cup {"ERR"}]
          /\ error' = [error EXCEPT ![d] = {"ABRT"}]
          /\ UNCHANGED <<pos, buf, bytes, sectcount, crashed>>
       [] c \in {READ, WRITE} /\ ~fp[d] ->
          /\ crashed' = TRUE
          /\ UNCHANGED <<pos, buf, bytes, sectcount, status, error>>
       [] c = READ ->
          /\ sectcount' = [sectcount EXCEPT ![d] = sc]
          /\ buf' = [buf EXCEPT ![d] = rb.buf]
          /\ bytes' = [bytes EXCEPT ![d] = rb.bytes]
          /\ pos' = [pos EXCEPT ![d] = rb.pos]
          /\ status' = [status EXCEPT ![d] = st \cup {"DRQ", "RDY"} \cup
                                               (IF rb.ok THEN {} ELSE {"ERR"})]
          /\ error' = [error EXCEPT ![d] = IF rb.ok THEN {} ELSE {"UNC"}]
          /\ UNCHANGED crashed
       [] c = WRITE ->
          /\ sectcount' = [sectcount EXCEPT ![d] = sc]
          /\ pos' = [pos EXCEPT ![d] = Lba(d)]
          /\ bytes' = [bytes EXCEPT ![d] = SectorSize]
          /\ status' = [status EXCEPT ![d] = st \cup {"DRQ", "RDY"}]
          /\ error' = [error EXCEPT ![d] = {}]
          /\ UNCHANGED <<buf, crashed>>
       [] OTHER ->
          /\ status' = [status EXCEPT ![d] = st]
          /\ error' = [error EXCEPT ![d] = {}]
          /\ UNCHANGED <<pos, buf, bytes, sectcount, crashed>>

-----------------------------------------------------------------------------
(* DATA write of w bytes: memcpy to buf + SECTOR_SIZE - bytes_to_rw (bytes *)
(* outside buf are not modelled), bytes_to_rw -= w; at 0 clear DRQ, and    *)
(* if --sectcount != 0 set DRQ and rearm; then ata_write_buf fwrites buf   *)
(* at the file position.  There is no check that a transfer is active.     *)
DataWrite(w) ==
  LET d == curdrive
      off == SectorSize - bytes[d]
      nbuf == [i \in Offsets |-> IF off <= i /\ i < off + w
                                 THEN Guest(xfer.done + i - off) ELSE buf[d][i]]
      b1 == (bytes[d] - w) % W16
      sc1 == (sectcount[d] - 1) % W16
  IN
  /\ ~crashed /\ MayTransfer(d, {WRITE})
  /\ buf' = [buf EXCEPT ![d] = nbuf]
  /\ xfer' = [xfer EXCEPT !.done = @ + w]
  /\ UNCHANGED <<fp, size, lbal, lbam, lbah, drvreg, curdrive, got>>
  /\ IF b1 # 0
     THEN /\ bytes' = [bytes EXCEPT ![d] = b1]
          /\ UNCHANGED <<len, pos, disk, sectcount, status, error, crashed>>
     ELSE /\ pos[d] <= MaxSector   \* bound: the model's image ends at MaxSector
          /\ sectcount' = [sectcount EXCEPT ![d] = sc1]
          /\ bytes' = [bytes EXCEPT ![d] = IF sc1 # 0 THEN SectorSize ELSE 0]
          /\ IF fp[d]
             THEN /\ disk' = [disk EXCEPT ![d][pos[d]] = nbuf]
                  /\ len' = [len EXCEPT ![d] = IF pos[d] < @ THEN @ ELSE pos[d] + 1]
                  /\ pos' = [pos EXCEPT ![d] = @ + 1]
                  /\ status' = [status EXCEPT ![d] =
                                  IF sc1 # 0 THEN @ \cup {"DRQ"} ELSE @ \ {"DRQ"}]
                  /\ UNCHANGED <<error, crashed>>
             ELSE /\ crashed' = TRUE
                  /\ UNCHANGED <<len, pos, disk, status, error>>

(* DATA read of w bytes: with bytes_to_rw = 0 the guest gets zeros;        *)
(* otherwise the bytes at buf + SECTOR_SIZE - bytes_to_rw, bytes_to_rw -=  *)
(* w, and at 0 clear DRQ and, if --sectcount != 0, set DRQ and fread the   *)
(* next sector (ERR and UNC at the end of the image).                      *)
DataRead(w) ==
  LET d == curdrive
      off == SectorSize - bytes[d]
      data == [j \in 1 .. w |-> IF off + j - 1 \in Offsets THEN buf[d][off + j - 1] ELSE Zero]
      b1 == (bytes[d] - w) % W16
      sc1 == (sectcount[d] - 1) % W16
      rb == ReadBuf(d, pos[d], 0)
  IN
  /\ ~crashed /\ MayTransfer(d, {READ, IDENTIFY})
  /\ UNCHANGED <<fp, size, len, disk, lbal, lbam, lbah, drvreg, curdrive>>
  /\ IF bytes[d] = 0
     THEN /\ got' = [j \in 1 .. w |-> Zero]
          /\ UNCHANGED <<xfer, pos, buf, bytes, sectcount, status, error, crashed>>
     ELSE /\ got' = data
          /\ xfer' = [xfer EXCEPT !.done = @ + w]
          /\ IF b1 # 0 \/ sc1 = 0
             THEN /\ bytes' = [bytes EXCEPT ![d] = b1]
                  /\ sectcount' = [sectcount EXCEPT ![d] = IF b1 # 0 THEN @ ELSE sc1]
                  /\ status' = [status EXCEPT ![d] = IF b1 # 0 THEN @ ELSE @ \ {"DRQ"}]
                  /\ UNCHANGED <<pos, buf, error, crashed>>
             ELSE /\ sectcount' = [sectcount EXCEPT ![d] = sc1]
                  /\ IF fp[d]
                     THEN /\ buf' = [buf EXCEPT ![d] = rb.buf]
                          /\ bytes' = [bytes EXCEPT ![d] = rb.bytes]
                          /\ pos' = [pos EXCEPT ![d] = rb.pos]
                          /\ status' = [status EXCEPT ![d] =
                                          @ \cup {"DRQ"} \cup (IF rb.ok THEN {} ELSE {"ERR"})]
                          /\ error' = [error EXCEPT ![d] = IF rb.ok THEN @ ELSE @ \cup {"UNC"}]
                          /\ UNCHANGED crashed
                     ELSE /\ crashed' = TRUE
                          /\ UNCHANGED <<pos, buf, bytes, status, error>>

\* Shift one byte into a 16-bit task-file register: r <<= 8; r |= v.
Shift(r, v) == (r * 256 + v) % W16

(* Writes to NSECT, LBAL, LBAM and LBAH shift the byte into the register   *)
(* of the current drive.                                                   *)
WriteNsect(v) ==
  /\ ~crashed /\ MayIssue(curdrive)
  /\ sectcount' = [sectcount EXCEPT ![curdrive] = Shift(@, v)]
  /\ UNCHANGED <<fp, size, len, pos, disk, bytes, lbal, lbam, lbah, drvreg, error,
                 status, buf, curdrive, crashed, xfer, got>>

WriteLba(reg, v) ==
  /\ ~crashed /\ MayIssue(curdrive)
  /\ lbal' = IF reg = "lbal" THEN [lbal EXCEPT ![curdrive] = Shift(@, v)] ELSE lbal
  /\ lbam' = IF reg = "lbam" THEN [lbam EXCEPT ![curdrive] = Shift(@, v)] ELSE lbam
  /\ lbah' = IF reg = "lbah" THEN [lbah EXCEPT ![curdrive] = Shift(@, v)] ELSE lbah
  /\ UNCHANGED <<fp, size, len, pos, disk, bytes, sectcount, drvreg, error,
                 status, buf, curdrive, crashed, xfer, got>>

(* DEVICE write: bit 4 selects the drive, whose DEVICE register takes the  *)
(* value.                                                                  *)
WriteDevice(v) ==
  LET d == (v \div 16) % 2 IN
  /\ ~crashed /\ MayIssue(curdrive)
  /\ curdrive' = d
  /\ drvreg' = [drvreg EXCEPT ![d] = v]
  /\ UNCHANGED <<fp, size, len, pos, disk, bytes, sectcount, lbal, lbam, lbah,
                 error, status, buf, crashed, xfer, got>>

(* Device control with SRST (bit 2): reset the current drive's transfer    *)
(* and task file; a drive with a file reports RDY|SRV and AMNF ("means OK  *)
(* here"), one without reports 0.                                          *)
SoftReset ==
  LET d == curdrive IN
  /\ ~crashed
  /\ bytes' = [bytes EXCEPT ![d] = 0]
  /\ lbal' = [lbal EXCEPT ![d] = 1]
  /\ lbah' = [lbah EXCEPT ![d] = 0]
  /\ lbam' = [lbam EXCEPT ![d] = 0]
  /\ sectcount' = [sectcount EXCEPT ![d] = 1]
  /\ drvreg' = [drvreg EXCEPT ![d] = 0]
  /\ error' = [error EXCEPT ![d] = IF fp[d] THEN {"AMNF"} ELSE {}]
  /\ status' = [status EXCEPT ![d] = IF fp[d] THEN {"RDY", "SRV"} ELSE {}]
  /\ xfer' = [xfer EXCEPT !.cmd = NOP]
  /\ UNCHANGED <<fp, size, len, pos, disk, buf, curdrive, crashed, got>>

Next ==
  \/ \E c \in Commands : Command(c)
  \/ \E w \in Widths : DataWrite(w) \/ DataRead(w)
  \/ \E v \in NsectValues : WriteNsect(v)
  \/ \E v \in LbaValues : WriteLba("lbal", v)
  \/ WriteLba("lbam", 0) \/ WriteLba("lbah", 0)
  \/ \E v \in {224, 240} : WriteDevice(v)
  \/ SoftReset

Spec == Init /\ [][Next]_vars

-----------------------------------------------------------------------------
(* The sector store the controller implements for a protocol guest.  The *)
(* image, its length and the IDENTIFY size are the drive's; the request is *)
(* the command the guest issued; a transfer has failed when ERR is set     *)
(* before the guest has moved all it asked for.                            *)
TransferFailed ==
  /\ xfer.cmd \in {READ, WRITE} /\ "ERR" \in status[xfer.drive]
  /\ xfer.done < Expected

AD == INSTANCE AtaDisk WITH present <- fp, capacity <- size, extent <- len,
        store <- disk, req <- xfer, failed <- TransferFailed, out <- got

(* A guest following the PIO protocol sees a sector store: every command,  *)
(* DATA access and reset is a step of AtaDisk or leaves it unchanged.  It  *)
(* covers fseek to the LBA, the sequential fread/fwrite positions, the     *)
(* bytes_to_rw and sectcount bookkeeping of the data handler, the errors   *)
(* at the end of the image and the IDENTIFY size that ata_init computed.   *)
ImplementsDisk == AD!Spec

(* READ SECTORS and WRITE SECTORS are 28-bit commands: the count is the    *)
(* byte last written to NSECT, 0 meaning 256 ("Sector count of 0 means     *)
(* 256").  Once the guest has moved that many sectors without an error,    *)
(* DRQ is clear.                                                           *)
TransferLength ==
  (/\ xfer.cmd \in {READ, WRITE} /\ xfer.done = Expected
   /\ "ERR" \notin status[xfer.drive])
    => "DRQ" \notin status[xfer.drive]

(* Every DATA access stays inside drive[d].buf: a write, and a read with   *)
(* bytes_to_rw != 0, touches buf + SECTOR_SIZE - bytes_to_rw .. + size - 1.*)
BufferInBounds ==
  [][ \A w \in Widths :
        (DataWrite(w) \/ (DataRead(w) /\ bytes[curdrive] # 0))
          => w <= bytes[curdrive] /\ bytes[curdrive] <= SectorSize ]_vars
====
