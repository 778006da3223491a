---------------------------- MODULE BootTrailer ----------------------------
(***************************************************************************)
(* The hand-over of a downloaded image to MCUboot on the 20829: what the   *)
(* agent writes at the end of the slots (cy_ota_storage.c), what the       *)
(* library of MCUboot makes of it (bootutil_public.c, swap_status_misc.c)  *)
(* and keeps in the status partition (SwapStatus), and the boot loader as  *)
(* far as it calls that library.  The program runs alone, but the power    *)
(* may fail at any of its accesses to the flash; it then starts with the   *)
(* boot loader and what the flash holds.                                   *)
(*                                                                         *)
(* A function is a sequence of accesses to the flash, in todo: what is     *)
(* left of the function that runs.  Its branches are taken when it starts, *)
(* from what it reads, since nobody else writes.                           *)
(***************************************************************************)
EXTENDS SwapStatus, Sequences

CONSTANTS
  MaxDownloads,     \* bound of the model: images downloaded
  MaxCalls,         \* bound of the model: calls of the application
  MaxCuts           \* bound of the model: failures of the power

VARIABLES
  slot,       \* [Areas -> the trailer at the end of the slot: magic, image_ok]
  image,      \* [Areas -> the image in the slot, NoImage if it is not a whole one]
  todo,
  mode,       \* "reset", "boot" (the loader decided), "app", "panic"
  bounds,     \* what is left of the bounds
  asked,      \* history: the swap asked for, "none", "TEST" or "PERM"
  trial,      \* history: the image that runs was installed to be tested
  confirmed,  \* history: the image that runs was confirmed, or installed for good
  harm        \* history: what the status partition went through

flash   == <<slot, image>>
history == <<asked, trial, confirmed, harm>>
vars    == <<copies, writing, flash, todo, mode, bounds, history>>

Primary == "PRIMARY"
Secondary == "SECONDARY"
\* The row of the status bytes of the swap and the row of the trailer of a slot.
SwapRow == "swap"
Trailer(a) == IF a = Primary THEN "primary" ELSE "secondary"

ASSUME TrailerAssumption ==
  /\ MaxDownloads \in Nat /\ MaxCalls \in Nat /\ MaxCuts \in Nat
  /\ Areas = {Primary, Secondary}
  /\ {SwapRow, Trailer(Primary), Trailer(Secondary)} \subseteq Records
  /\ {"status", "swap_size", "swap_info", "copy_done", "image_ok", "magic"} \subseteq Cells
  /\ {"set", "TEST", "PERM"} \subseteq Values \ {Erased}

\* The layout of the partition (swap_status_init_offset()): the area of the primary
\* slot begins it, with the status bytes, and the rows of a slot are in its area.
ASSUME LayoutAssumption ==
  /\ First = SwapRow /\ AreaOf[SwapRow] = Primary
  /\ \A a \in Areas : AreaOf[Trailer(a)] = a
  /\ Garbled # "set"

NoImage == 0
Images  == 0..(1 + MaxDownloads)

Field(a, cell) == ReadPayload(Trailer(a))[cell]
ErasedSlot == [magic |-> "unset", image_ok |-> FALSE]

(* One access to the flash: op, the record or the slot it is made to, the field
   and its value, and what the access completes (for Completed).             *)
Access(op, at, cell, value, completes) ==
  [op |-> op, at |-> at, cell |-> cell, value |-> value, completes |-> completes]
Completions == {"-", "TEST", "PERM", "exchange", "revert", "confirm"}
StatusAccess ==
  [op : {"status"}, at : Records, cell : Cells, value : Values, completes : Completions]
SlotAccess ==
  [op : {"erase_area", "slot", "erase_trailer", "erase_slot", "fill_slot", "copy_trailer"},
   at : Areas, cell : {"magic", "image_ok", "-"}, value : {"set", "-"}, completes : Completions]

StatusUpdate(r, cell, value, completes) == Access("status", r, cell, value, completes)
SlotWrite(a, cell, completes)    == Access("slot", a, cell, "set", completes)
EraseTrailer(a)                  == Access("erase_trailer", a, "-", "-", "-")
EraseStatus(a)                   == Access("erase_area", a, "-", "-", "-")

When(condition, steps) == IF condition THEN steps ELSE <<>>

---------------------------------------------------------------------------
(* boot_read_swap_state() *)

\* The magic of the secondary slot is moved from the end of the slot to the
\* status partition by whoever reads the state first.
MagicInSlot(a) == a = Secondary /\ Field(a, "magic") = Erased /\ slot[a].magic # "unset"
CopyDone(a)    == Field(a, "copy_done") # Erased
\* Mutant of OkInSlot: image_ok is looked for in the partition only.
OkInSlotNowhere(a) == FALSE

\* image_ok is looked for in the slot of a finished swap, or of the next image.
OkInSlot(a) ==
  /\ Field(a, "image_ok") = Erased
  /\ a = Primary => CopyDone(a)
  /\ slot[a].image_ok

SwapState(a) ==
  [magic     |-> CASE Field(a, "magic") # Erased -> "good"
                   [] MagicInSlot(a) -> slot[a].magic
                   [] OTHER -> "unset",
   copy_done |-> CopyDone(a),
   image_ok  |-> Field(a, "image_ok") # Erased \/ OkInSlot(a)]

\* Mutant of ReadSwapState: the end of the slot is erased before its magic is kept.
ReadSwapStateErasesFirst(a) ==
     When(MagicInSlot(a) /\ ~OkInSlot(a), <<EraseTrailer(a)>>)
  \o When(MagicInSlot(a) /\ slot[a].magic = "good",
          <<StatusUpdate(Trailer(a), "magic", "set", "-")>>)
  \o When(OkInSlot(a), <<StatusUpdate(Trailer(a), "image_ok", "set", "-")>>)

\* What reading the state writes: the magic and image_ok of the slot go to the
\* partition; then the end of the slot is erased, unless image_ok was there.
ReadSwapState(a) ==
     When(MagicInSlot(a) /\ slot[a].magic = "good",
          <<StatusUpdate(Trailer(a), "magic", "set", "-")>>)
  \o When(OkInSlot(a), <<StatusUpdate(Trailer(a), "image_ok", "set", "-")>>)
  \o When(MagicInSlot(a) /\ ~OkInSlot(a), <<EraseTrailer(a)>>)

\* Mutant of SwapType: the entry of the table for a swap on trial is missing.
SwapTypeForgetsTrial ==
  LET s == SwapState(Secondary)
  IN  CASE s.magic = "good" /\ ~s.image_ok -> "TEST"
        [] s.magic = "good" /\ s.image_ok  -> "PERM"
        [] OTHER -> "NONE"

\* boot_swap_type_multi() and boot_swap_tables, when both trailers can be read.
SwapType ==
  LET p == SwapState(Primary)
      s == SwapState(Secondary)
  IN  CASE s.magic = "good" /\ ~s.image_ok -> "TEST"
        [] s.magic = "good" /\ s.image_ok  -> "PERM"
        [] s.magic = "unset" /\ p.magic = "good" /\ ~p.image_ok /\ p.copy_done -> "REVERT"
        [] OTHER -> "NONE"

---------------------------------------------------------------------------
(* Writing the trailer of a swap *)

\* swap_erase_trailer_sectors()
EraseTrailerSectors(a) == <<EraseStatus(a), EraseTrailer(a)>>

\* Mutant of StatusInitSteps: the magic comes first.
StatusInitStepsMagicFirst(type, image_ok) ==
     <<StatusUpdate(Trailer(Primary), "magic", "set", "-"),
       StatusUpdate(Trailer(Primary), "swap_info", type, "-")>>
  \o When(image_ok, <<StatusUpdate(Trailer(Primary), "image_ok", "set", "-")>>)
  \o <<StatusUpdate(Trailer(Primary), "swap_size", "set", "-")>>

\* swap_status_init() of the primary slot: the magic comes last.
StatusInitSteps(type, image_ok) ==
     <<StatusUpdate(Trailer(Primary), "swap_info", type, "-")>>
  \o When(image_ok, <<StatusUpdate(Trailer(Primary), "image_ok", "set", "-")>>)
  \o <<StatusUpdate(Trailer(Primary), "swap_size", "set", "-"),
       StatusUpdate(Trailer(Primary), "magic", "set", "-")>>

\* Mutant of Exchange: the progress of the swap is not written.
ExchangeUnmarked == <<StatusUpdate(SwapRow, "swap_size", "set", "exchange")>>

\* boot_write_status() of the last sector: the loader exchanged the images.
Exchange == <<StatusUpdate(SwapRow, "status", "set", "exchange")>>

\* boot_write_copy_done(): boot_write_trailer() first copies the trailer of the
\* partition to the primary slot, with swap_status_to_image_trailer().
CopyDoneSteps ==
  <<EraseTrailer(Primary),
    Access("copy_trailer", Primary, "-", "-", "-"),
    StatusUpdate(Trailer(Primary), "copy_done", "set", "-")>>

FinishSwap == EraseTrailerSectors(Secondary) \o CopyDoneSteps

---------------------------------------------------------------------------
(* The boot loader, as far as the library shows it (external). *)

\* swap_read_status(): a swap that was started and not finished.
Interrupted == Field(Primary, "magic") # Erased /\ ~CopyDone(Primary)
Exchanged   == ReadPayload(SwapRow)["status"] = "set"

\* What the loader does with the flash as it is.
Decision ==
  CASE Unreadable(Trailer(Primary)) -> "PANIC"
    [] Readable(Trailer(Primary)) /\ Interrupted -> "RESUME"
    [] Readable(Trailer(Primary)) /\ ~Interrupted ->
         IF Readable(Trailer(Secondary)) THEN SwapType ELSE "PANIC"

ReadBoth == ReadSwapState(Primary) \o ReadSwapState(Secondary)

LoaderSteps ==
  CASE Decision = "RESUME" -> When(~Exchanged, Exchange) \o FinishSwap
    \* An image that is not a whole one has no valid signature; the request is removed.
    [] Decision \in {"TEST", "PERM", "REVERT"} /\ image[Secondary] = NoImage ->
         ReadBoth \o EraseTrailerSectors(Secondary)
    [] Decision \in {"TEST", "PERM"} /\ image[Secondary] # NoImage ->
         ReadBoth \o EraseTrailerSectors(Primary)
           \o StatusInitSteps(Decision, SwapState(Secondary).image_ok)
           \o Exchange \o FinishSwap
    [] Decision = "REVERT" /\ image[Secondary] # NoImage ->
         ReadBoth \o <<StatusUpdate(Trailer(Primary), "image_ok", "set", "revert")>>
    [] OTHER -> ReadBoth

Boot ==
  /\ mode = "reset"
  /\ mode' = IF Decision = "PANIC" THEN "panic" ELSE "boot"
  /\ todo' = IF Decision = "PANIC" THEN <<>> ELSE LoaderSteps
  /\ UNCHANGED <<copies, writing, flash, bounds, history>>

StartApp ==
  /\ mode = "boot" /\ todo = <<>>
  /\ mode' = "app"
  /\ UNCHANGED <<copies, writing, flash, todo, bounds, history>>

---------------------------------------------------------------------------
(* The application *)

Idle == mode = "app" /\ todo = <<>>

Call(steps) ==
  /\ todo' = steps
  /\ UNCHANGED <<copies, writing, flash, mode>>

UseBound(b) == bounds[b] > 0 /\ bounds' = [bounds EXCEPT ![b] = @ - 1]

\* A session of the agent: cy_ota_storage_open() erases the secondary slot, the
\* writes fill it, cy_ota_storage_verify() writes the magic at its end.
Download ==
  /\ Idle
  /\ UseBound("downloads")
  /\ Call(<<Access("erase_slot", Secondary, "-", "-", "-"),
            Access("fill_slot", Secondary, "-", "-", "-"),
            SlotWrite(Secondary, "magic", "TEST")>>)
  /\ harm' = [harm EXCEPT !.stale = @ \/ Field(Secondary, "magic") # Erased]
  /\ UNCHANGED <<asked, trial, confirmed>>

\* The magic and then image_ok at the end of the primary slot, for the next
\* reader of its state to find.
cy_ota_storage_validated ==
  /\ Idle
  /\ UseBound("calls")
  /\ Call(<<SlotWrite(Primary, "magic", "-"), SlotWrite(Primary, "image_ok", "confirm")>>)
  /\ UNCHANGED history

boot_set_pending(permanent) ==
  /\ Idle
  /\ UseBound("calls")
  /\ Readable(Trailer(Secondary))
  /\ Call(ReadSwapState(Secondary) \o
       CASE SwapState(Secondary).magic = "good"  -> <<>>
         [] SwapState(Secondary).magic = "unset" ->
                 <<StatusUpdate(Trailer(Secondary), "magic", "set", "TEST")>>
              \o When(permanent, <<StatusUpdate(Trailer(Secondary), "image_ok", "set", "PERM")>>)
              \o <<StatusUpdate(Trailer(Secondary), "swap_info",
                                IF permanent THEN "PERM" ELSE "TEST", "-")>>
         [] SwapState(Secondary).magic = "bad"   ->
                 <<Access("erase_slot", Secondary, "-", "-", "-")>>)
  /\ UNCHANGED history

boot_set_confirmed ==
  /\ Idle
  /\ UseBound("calls")
  /\ Readable(Trailer(Primary))
  /\ LET p == SwapState(Primary)
     IN  Call(ReadSwapState(Primary) \o
              When(p.magic = "good" /\ p.copy_done /\ ~p.image_ok,
                   <<StatusUpdate(Trailer(Primary), "image_ok", "set", "confirm")>>))
  /\ UNCHANGED history

\* The restart after an update, or one the application asks for.
Restart ==
  /\ Idle
  /\ mode' = "reset"
  /\ UNCHANGED <<copies, writing, flash, todo, bounds, history>>

---------------------------------------------------------------------------
(* The accesses to the flash *)

Running(op) == mode \in {"boot", "app"} /\ todo # <<>> /\ Head(todo).op = op

\* What an access means when it is complete.
Completed(completes) ==
  /\ image' = IF completes \in {"exchange", "revert"}
              THEN [image EXCEPT ![Primary] = image[Secondary], ![Secondary] = image[Primary]]
              ELSE image
  /\ asked' = CASE completes \in {"TEST", "PERM"} -> completes
                [] completes = "exchange" -> "none"
                [] OTHER -> asked
  /\ trial' = CASE completes = "exchange" -> asked = "TEST"
                [] completes \in {"revert", "confirm"} -> FALSE
                [] OTHER -> trial
  /\ confirmed' = CASE completes = "exchange" -> asked = "PERM"
                    [] completes \in {"revert", "confirm"} -> TRUE
                    [] OTHER -> confirmed
  /\ UNCHANGED harm

UpdateBegins ==
  /\ Running("status")
  /\ BeginUpdate(Head(todo).at, Head(todo).cell, Head(todo).value)
  /\ UNCHANGED <<flash, todo, mode, bounds, history>>

UpdateEnds ==
  /\ Running("status")
  /\ EndUpdate
  /\ todo' = Tail(todo)
  /\ Completed(Head(todo).completes)
  /\ UNCHANGED <<slot, mode, bounds>>

\* Mutant of UpdateFails: the failed update is tried again.
UpdateFailsAgain ==
  /\ Running("status")
  /\ writing = NoRow
  /\ Unreadable(Head(todo).at)
  /\ UNCHANGED vars

\* The record cannot be read: swap_status_update() fails and so do its callers.
UpdateFails ==
  /\ Running("status")
  /\ writing = NoRow
  /\ Unreadable(Head(todo).at)
  /\ todo' = <<>>
  /\ mode' = IF mode = "boot" THEN "panic" ELSE mode
  /\ UNCHANGED <<copies, writing, flash, bounds, history>>

AreaErased ==
  /\ Running("erase_area")
  /\ EraseArea(Head(todo).at)
  /\ todo' = Tail(todo)
  /\ UNCHANGED <<flash, mode, bounds, history>>

SlotTrailer(trailer) ==
  /\ slot' = [slot EXCEPT ![Head(todo).at] = trailer]
  /\ todo' = Tail(todo)
  /\ UNCHANGED <<copies, writing, mode, bounds>>

SlotWritten ==
  /\ Running("slot")
  /\ SlotTrailer([slot[Head(todo).at] EXCEPT
                    !.magic    = IF Head(todo).cell = "magic" THEN "good" ELSE @,
                    !.image_ok = @ \/ Head(todo).cell = "image_ok"])
  /\ Completed(Head(todo).completes)

\* ota_smif_erase() erases whole sectors: magic and image_ok are in the same one.
TrailerErased ==
  /\ Running("erase_trailer")
  /\ SlotTrailer(ErasedSlot)
  /\ UNCHANGED <<image, history>>

TrailerCopied ==
  /\ Running("copy_trailer")
  /\ SlotTrailer([magic |-> "good", image_ok |-> Field(Primary, "image_ok") # Erased])
  /\ UNCHANGED <<image, history>>

SlotErased ==
  /\ Running("erase_slot")
  /\ SlotTrailer(ErasedSlot)
  /\ image' = [image EXCEPT ![Secondary] = NoImage]
  /\ asked' = "none"
  /\ UNCHANGED <<trial, confirmed, harm>>

SlotFilled ==
  /\ Running("fill_slot")
  /\ SlotTrailer(slot[Secondary])
  /\ image' = [image EXCEPT ![Secondary] = 1 + MaxDownloads - bounds["downloads"]]
  /\ UNCHANGED history

---------------------------------------------------------------------------
(* The power fails *)

PowerFails ==
  /\ mode # "panic"
  /\ UseBound("cuts")
  /\ mode' = "reset"
  /\ todo' = <<>>
  /\ UNCHANGED <<trial, confirmed>>

\* Between two accesses, or before an access changed anything.
PowerFailsBetween ==
  /\ PowerFails
  /\ mode # "reset"
  /\ CutBetween
  /\ UNCHANGED <<flash, asked, harm>>

\* In the erase of the copy a record is about to be written to.
PowerFailsInUpdate ==
  /\ Running("status")
  /\ PowerFails
  /\ CutErase(Head(todo).at)
  /\ UNCHANGED <<flash, asked, harm>>

\* In the write of the copy; a record that had no content has none now.
PowerFailsInWrite ==
  /\ Running("status")
  /\ PowerFails
  /\ CutWrite
  /\ harm' = [harm EXCEPT !.first = IF HasValid(Head(todo).at) THEN @ ELSE @ \cup {Head(todo).at}]
  /\ UNCHANGED <<flash, asked>>

PowerFailsInErase ==
  /\ Running("erase_area")
  /\ PowerFails
  /\ CutArea(Head(todo).at)
  /\ harm' = [harm EXCEPT !.area = TRUE]
  /\ UNCHANGED <<flash, asked>>

\* In the write of the magic at the end of a slot.
PowerFailsInMagic ==
  /\ Running("slot") /\ Head(todo).cell = "magic"
  /\ PowerFails
  /\ CutBetween
  /\ slot' = [slot EXCEPT ![Head(todo).at].magic = "bad"]
  /\ UNCHANGED <<image, asked, harm>>

\* In the erase of the slot: its end, with the magic, is erased last.
PowerFailsInSlot ==
  /\ Running("erase_slot")
  /\ PowerFails
  /\ CutBetween
  /\ image' = [image EXCEPT ![Secondary] = NoImage]
  /\ asked' = "none"
  /\ UNCHANGED <<slot, harm>>

---------------------------------------------------------------------------

Init ==
  /\ StatusInit
  /\ slot = [a \in Areas |-> ErasedSlot]
  /\ image = [a \in Areas |-> IF a = Primary THEN 1 ELSE NoImage]
  /\ todo = <<>>
  /\ mode = "reset"
  /\ bounds = [downloads |-> MaxDownloads, calls |-> MaxCalls, cuts |-> MaxCuts]
  /\ asked = "none" /\ trial = FALSE /\ confirmed = TRUE
  /\ harm = [first |-> {}, area |-> FALSE, stale |-> FALSE]

Accesses ==
  \/ UpdateBegins \/ UpdateEnds \/ UpdateFails
  \/ AreaErased
  \/ SlotWritten \/ TrailerErased \/ TrailerCopied
  \/ SlotErased \/ SlotFilled

Application ==
  \/ Download
  \/ cy_ota_storage_validated
  \/ \E permanent \in BOOLEAN : boot_set_pending(permanent)
  \/ boot_set_confirmed
  \/ Restart

PowerFailure ==
  \/ PowerFailsBetween \/ PowerFailsInUpdate \/ PowerFailsInWrite
  \/ PowerFailsInErase \/ PowerFailsInMagic \/ PowerFailsInSlot

Next == Boot \/ StartApp \/ Accesses \/ Application \/ PowerFailure

Spec == Init /\ [][Next]_vars

\* The processor runs while it has power.
FairSpec == Spec /\ WF_vars(Boot \/ StartApp \/ Accesses)

---------------------------------------------------------------------------

TypeOK ==
  /\ StatusTypeOK
  /\ slot \in [Areas -> [magic : {"unset", "good", "bad"}, image_ok : BOOLEAN]]
  /\ image \in [Areas -> Images]
  /\ todo \in Seq(StatusAccess \cup SlotAccess)
  /\ mode \in {"reset", "boot", "app", "panic"}
  /\ bounds \in [downloads : 0..MaxDownloads, calls : 0..MaxCalls, cuts : 0..MaxCuts]
  /\ harm \in [first : SUBSET Records, area : BOOLEAN, stale : BOOLEAN]
  /\ asked \in {"none", "TEST", "PERM"}
  /\ trial \in BOOLEAN /\ confirmed \in BOOLEAN

\* A whole image that was handed over stays handed over, whenever the power
\* fails and whoever reads the trailers and moves them to the partition.
RequestNotLost ==
  asked # "none" /\ image[Secondary] # NoImage /\ ~harm.area
    => Decision \in {"TEST", "PERM", "RESUME", "PANIC"}

\* "It is assumed that if magic is valid then other metadata is too, because
\* magic is always written in the last step" (boot_find_status()).
MagicIsLast ==
  Field(Primary, "magic") # Erased =>
    Field(Primary, "swap_info") # Erased /\ Field(Primary, "swap_size") # Erased

\* The magic of an unfinished swap is that of the swap that runs: its images were
\* exchanged if, and only if, the request is served.
ResumesThisSwap == Decision = "RESUME" /\ ~harm.stale => (Exchanged <=> asked = "none")
ResumesOwnSwap  == ~harm.area => ResumesThisSwap

\* An image that was confirmed, by either call, or installed for good is not
\* taken back by a later boot.
ConfirmedStays == confirmed => Decision # "REVERT"

\* An image on trial is taken back at the next boot, unless a newer one takes
\* its place; a magic that was cut puts it off by a boot.
TrialEnds ==
  trial => \/ Decision \in {"REVERT", "RESUME", "TEST", "PERM", "PANIC"}
           \/ MagicInSlot(Secondary) /\ slot[Secondary].magic = "bad"
TrialReverts == ~harm.area /\ ~harm.stale => TrialEnds

\* The partition cannot be read any more only after the power failed in the
\* first write of a record, or in the erase of an area.
NoPanic == harm.first = {} /\ ~harm.area => mode # "panic" /\ Decision # "PANIC"

\* The loader comes to an end and starts the application.
BootEnds == (mode = "reset") ~> (mode = "app" \/ mode = "panic")
=============================================================================
