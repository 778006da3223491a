-------------------------- MODULE StatusPartition --------------------------
(***************************************************************************)
(* What the swap status partition promises to the code above it: the       *)
(* fields of a record that was written once change one update at a time,   *)
(* each update happens as a whole or not at all, whenever the power fails, *)
(* and only an erase of its area makes a record lose its content.  An      *)
(* erase that was cut may leave anything in the records of its area.       *)
(***************************************************************************)
CONSTANTS Areas, Records, AreaOf, Cells, Values

VARIABLES
  live,     \* the records that have a content
  content,  \* [Records -> Payloads], of interest for the live ones
  update    \* the update that runs: a record and its next content, or NoUpdate

Payloads == [Cells -> Values]
Contents == [Records -> Payloads]
NoUpdate == [record |-> "none"]

Init == live = {} /\ content \in Contents /\ update = NoUpdate

Begin(r, cell, value) ==
  /\ update = NoUpdate
  /\ update'.record = r
  /\ update' = [record |-> r, payload |-> update'.payload]
  /\ update'.payload \in Payloads
  /\ update'.payload[cell] = value
  /\ r \in live => \A c \in Cells \ {cell} : update'.payload[c] = content[r][c]
  /\ UNCHANGED <<live, content>>

End ==
  /\ update # NoUpdate
  /\ live' = live \cup {update.record}
  /\ content' = [content EXCEPT ![update.record] = update.payload]
  /\ update' = NoUpdate

\* The power fails.
Cut == update' = NoUpdate /\ UNCHANGED <<live, content>>

\* An erase of an area, complete or cut.
Erase(a) ==
  LET rs == {r \in Records : AreaOf[r] = a}
  IN  /\ update = NoUpdate /\ update' = NoUpdate
      /\ live' \subseteq live
      /\ live \ live' \subseteq rs
      /\ content' \in Contents
      /\ \A r \in Records \ rs : content'[r] = content[r]

Next ==
  \/ \E r \in Records, cell \in Cells, value \in Values : Begin(r, cell, value)
  \/ End
  \/ Cut
  \/ \E a \in Areas : Erase(a)

Spec == Init /\ [][Next]_<<live, content, update>>
=============================================================================
