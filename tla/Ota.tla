-------------------------------- MODULE Ota ---------------------------------
(***************************************************************************)
(* Firmware updates (src/ota.rs): one authorised POST /ota from its lock to *)
(* the restart, in steps as long as one read, decode or write, with the two *)
(* application slots and what ESP-IDF's OTA calls and its bootloader do to *)
(* them. Every step can fail, the client can stop sending, and the power   *)
(* can go at any moment.                                                   *)
(*                                                                         *)
(* An upload is its bytes and the firmware in it: one that works, one that  *)
(* crashes before it is confirmed, or junk.                                *)
(***************************************************************************)
EXTENDS GzipFormat

CONSTANTS Upload, OTA_READ_BUF

ASSUME OtaAssumption ==
  /\ OTA_READ_BUF \in Nat \ {0}
  /\ \A u \in Upload : u.bytes \in Seq(0 .. 255)

VARIABLES
  pc,          \* where handle_ota is
  upload,      \* what the client sends
  totalIn,     \* bytes of it read
  chunk,       \* bytes read but not decoded
  gz,          \* the decoder
  flash,       \* open handle: [open, written, ready], ready to be written
  otaLock,     \* OTA_IN_PROGRESS
  slot,        \* per slot: [firmware, whole, state]
  boot,        \* the slot the boot data select
  running      \* the slot of the running firmware

handlerVars == <<upload, totalIn, chunk, gz>>
bootVars == <<slot, boot, running>>
otaVars == <<pc, handlerVars, flash, otaLock, bootVars>>

Closed == [open |-> FALSE, written |-> 0, ready |-> 0]
NoUpload == [bytes |-> <<>>, firmware |-> "none"]

Other(s) == 1 - s
IsGzip == IsGzipStream(upload.bytes)
ImageMagic == 233

OtaInit ==
  /\ pc = "idle" /\ upload = NoUpload /\ totalIn = 0 /\ chunk = <<>> /\ gz = New
  /\ flash = Closed /\ otaLock = FALSE
  /\ slot = [s \in 0 .. 1 |-> [firmware |-> IF s = 0 THEN "works" ELSE "none",
                               whole |-> s = 0, state |-> IF s = 0 THEN "valid" ELSE "none"]]
  /\ boot = 0 /\ running = 0

-----------------------------------------------------------------------------
\* Every return of handle_ota drops the lock's guard.
Return ==
  /\ pc' = "idle" /\ otaLock' = FALSE
  /\ upload' = NoUpload /\ totalIn' = 0 /\ chunk' = <<>> /\ gz' = New

\* The streaming functions abort the handle before they return an error.
Abort == Return /\ flash' = Closed /\ UNCHANGED bootVars

Post(u) ==
  /\ pc = "idle" /\ ~otaLock
  /\ pc' = "magic" /\ otaLock' = TRUE /\ upload' = u
  /\ UNCHANGED <<totalIn, chunk, gz, flash, bootVars>>

\* The body ends or fails within the two magic bytes, they are of neither format, or
\* esp_ota_begin fails.
Refuse == pc = "magic" /\ Return /\ UNCHANGED <<flash, bootVars>>

\* esp_ota_begin: not while the running firmware waits to be confirmed. From here on
\* the other slot holds no image.
Begin ==
  /\ pc = "magic" /\ Len(upload.bytes) >= 2
  /\ IsGzip \/ upload.bytes[1] = ImageMagic
  /\ slot[running].state # "pending"
  /\ totalIn' = 2
  /\ IF IsGzip THEN pc' = "feed" /\ chunk' = GzipMagic /\ flash' = [Closed EXCEPT !.open = TRUE]
     ELSE pc' = "write" /\ chunk' = <<>> /\ flash' = [Closed EXCEPT !.open = TRUE, !.ready = 2]
  /\ slot' = [slot EXCEPT ![Other(running)] =
                [firmware |-> upload.firmware, whole |-> FALSE, state |-> "none"]]
  /\ UNCHANGED <<upload, gz, otaLock, boot, running>>

\* An iteration of feed's loop.
FeedStep ==
  /\ pc = "feed" /\ chunk # <<>>
  /\ IF gz.phase = "failed" THEN Abort
     ELSE LET r == Consume(gz, chunk)
              rest == IF gz.phase = "done" THEN <<>> ELSE SubSeq(chunk, r.n + 1, Len(chunk))
          IN IF r.gz.phase = "failed" /\ gz.phase \in {"deflate", "trailer"} THEN Abort
             ELSE /\ gz' = r.gz /\ chunk' = rest
                  /\ flash' = [flash EXCEPT !.ready = @ + r.gz.out - gz.out]
                  /\ UNCHANGED <<pc, upload, totalIn, otaLock, bootVars>>

FeedEnds ==
  /\ pc = "feed" /\ chunk = <<>>
  /\ pc' = "write"
  /\ UNCHANGED <<handlerVars, flash, otaLock, bootVars>>

\* write_decompressed.
WriteStep ==
  /\ pc = "write"
  /\ \/ /\ pc' = "read"
        /\ flash' = [flash EXCEPT !.written = @ + flash.ready, !.ready = 0]
        /\ UNCHANGED <<handlerVars, otaLock, bootVars>>
     \/ flash.ready > 0 /\ Abort

\* Mutant: stream_gzip_ota returns without asking the decoder to finish.
FinishUnasked == pc' = "end" /\ UNCHANGED <<handlerVars, flash, otaLock, bootVars>>

\* All of the body is read, or its sender stops before: a compressed one has to be done.
Finish ==
  IF IsGzip /\ ~Finished(gz) THEN Abort
  ELSE pc' = "end" /\ UNCHANGED <<handlerVars, flash, otaLock, bootVars>>

ReadChunk ==
  \E n \in 1 .. OTA_READ_BUF :
    /\ totalIn + n <= Len(upload.bytes)
    /\ totalIn' = totalIn + n
    /\ LET read == SubSeq(upload.bytes, totalIn + 1, totalIn + n)
       IN IF IsGzip THEN pc' = "feed" /\ chunk' = read /\ UNCHANGED flash
          ELSE pc' = "write" /\ flash' = [flash EXCEPT !.ready = n] /\ UNCHANGED chunk
    /\ UNCHANGED <<upload, gz, otaLock, bootVars>>

\* Mutant: a read error or a timeout returns without esp_ota_abort.
ReadFailsOpen ==
  totalIn < Len(upload.bytes) /\ Return /\ UNCHANGED <<flash, bootVars>>

ReadFails == totalIn < Len(upload.bytes) /\ Abort

ReadStep == pc = "read" /\ (ReadChunk \/ ReadFails \/ Finish)

ImageSize(u) == IF IsGzipStream(u.bytes) THEN DecodedSize(u.bytes) ELSE Len(u.bytes)

\* esp_ota_end closes the handle whatever it finds.
ImageIsValid == upload.firmware # "junk" /\ flash.written = ImageSize(upload)

\* Mutant: the boot slot is chosen before the image is validated.
EndStepUnchecked ==
  /\ pc = "end"
  /\ flash' = Closed
  /\ slot' = [slot EXCEPT ![Other(running)].whole = ImageIsValid]
  /\ pc' = "setBoot" /\ UNCHANGED <<handlerVars, otaLock, boot, running>>

EndStep ==
  /\ pc = "end"
  /\ flash' = Closed
  /\ \/ /\ ImageIsValid
        /\ slot' = [slot EXCEPT ![Other(running)].whole = TRUE]
        /\ pc' = "setBoot" /\ UNCHANGED <<handlerVars, otaLock, boot, running>>
     \/ Return /\ UNCHANGED bootVars

SetBoot ==
  /\ pc = "setBoot"
  /\ \/ /\ boot' = Other(running) /\ slot' = [slot EXCEPT ![Other(running)].state = "new"]
        /\ pc' = "restart" /\ UNCHANGED <<handlerVars, flash, otaLock, running>>
     \/ Return /\ UNCHANGED <<flash, bootVars>>

-----------------------------------------------------------------------------
(* Restarts, after an update or by a loss of power or a crash. The          *)
(* bootloader gives a new firmware one start to confirm itself.             *)

BootSlot == IF slot[boot].state = "pending" THEN Other(boot) ELSE boot

Reboot ==
  /\ running' = BootSlot /\ boot' = BootSlot
  /\ slot' = [s \in 0 .. 1 |->
                IF s # BootSlot THEN
                  [slot[s] EXCEPT !.state = IF @ = "pending" THEN "aborted" ELSE @]
                ELSE [slot[s] EXCEPT !.state = IF @ = "new" THEN "pending" ELSE @]]
  /\ Return /\ flash' = Closed

\* main, once the server runs.
MarkValid ==
  /\ slot[running].state = "pending" /\ slot[running].firmware = "works"
  /\ slot' = [slot EXCEPT ![running].state = "valid"]
  /\ UNCHANGED <<pc, handlerVars, flash, otaLock, boot, running>>

OtaStep ==
  \/ Refuse \/ Begin \/ FeedStep \/ FeedEnds \/ WriteStep \/ ReadStep \/ EndStep \/ SetBoot

-----------------------------------------------------------------------------
\* However the network cuts a stream into chunks, within a field, between two or
\* across several, the decoder is after each of them in the field the last byte
\* belongs to and has decoded what came so far; it fails on no stream that is sound,
\* neither before this chunk nor within it (feed and its phases).
GzipInStep ==
  IsGzip =>
    /\ pc = "read" /\ gz.phase # "failed" =>
         /\ gz.out + gz.waiting = Inflated(upload.bytes, totalIn)
         /\ IF gz.ended /\ gz.waiting > 0 THEN gz.phase = "deflate"
            ELSE gz.phase = PhaseAt(upload.bytes, totalIn)
    /\ pc \in {"feed", "write", "read"} /\ Sound(upload.bytes) =>
         /\ gz.phase # "failed"
         /\ chunk # <<>> => Consume(gz, chunk).gz.phase # "failed"

\* esp_ota_end is asked to accept exactly what was sent: of a compressed upload only a
\* sound stream gets there, with all it decodes to in the flash; of a raw one all that
\* was read (finish, write_decompressed and the loops around them).
FlashIsUpload ==
  pc = "end" =>
    IF IsGzip THEN Sound(upload.bytes) /\ flash.written = DecodedSize(upload.bytes)
    ELSE flash.written = totalIn

\* Whenever the power goes, the slot the bootloader starts next holds a whole image;
\* as long as that image has not confirmed itself, the other slot holds one that has
\* (esp_ota_end, esp_ota_set_boot_partition and the rollback main cancels).
NeverBricked ==
  LET s == BootSlot
  IN /\ slot[s].whole
     /\ \/ slot[s].state = "valid" /\ slot[s].firmware = "works"
        \/ /\ slot[Other(s)].whole /\ slot[Other(s)].firmware = "works"
           /\ slot[Other(s)].state = "valid"

\* A handler that has answered holds neither the lock nor an open handle, on whichever
\* of its error paths it left (OtaLockGuard, abort_ota).
IdleIsClean == pc = "idle" => ~otaLock /\ flash = Closed
=============================================================================
