--------------------------- MODULE PresenceContract ---------------------------
(***************************************************************************)
(* What the eventizer promises a reader of its events, with no mention of  *)
(* observations, anchors or candidates: sections 6 to 10 of                *)
(* docs/MOBILITY-EVENTIZER-V1.2.md as the loop of Eventize realises them.  *)
(*                                                                         *)
(* At any time there is at most one claim about the entity: it is present  *)
(* somewhere, or it is known to have departed from somewhere.  A presence  *)
(* is named by an increasing number.  Only a known departure can become an *)
(* arrival, and a continuity break or the end of the data drops the claim. *)
(***************************************************************************)
EXTENDS Naturals, Sequences

CONSTANT PresenceIds   \* the numbers a presence may be given

VARIABLES
  claim,    \* the claim now open
  latest,   \* the latest presence asserted, 0 before the first
  journal   \* the statements made so far, <<what, presence>>

contractVars == <<claim, latest, journal>>

Nothing        == [kind |-> "nothing",  id |-> 0]
PresentAt(id)  == [kind |-> "present",  id |-> id]
DepartedAt(id) == [kind |-> "departed", id |-> id]

Say(statements) == journal' = journal \o statements

\* The statement that closes a presence, if one is open.
Closing == IF claim.kind = "present" THEN <<<<"INTERVAL", claim.id>>>> ELSE <<>>

Begin ==
  /\ claim = Nothing /\ latest = 0
  /\ journal = <<<<"START", 0>>>>

\* A presence nobody saw begin is asserted in silence.
Assert(id) ==
  /\ claim = Nothing /\ id > latest
  /\ claim' = PresentAt(id) /\ latest' = id
  /\ UNCHANGED journal

\* A departure completes at a new presence.
Arrive(id) ==
  /\ claim.kind = "departed" /\ id > latest
  /\ claim' = PresentAt(id) /\ latest' = id
  /\ Say(<<<<"ENTER", id>>>>)

Leave ==
  /\ claim.kind = "present"
  /\ claim' = DepartedAt(claim.id)
  /\ Say(Closing \o <<<<"LEAVE", claim.id>>>>)
  /\ UNCHANGED latest

\* A gap, a discontinuity or both.
Break ==
  /\ claim' = Nothing
  /\ \E breaks \in {<<<<"BREAK", 0>>>>, <<<<"BREAK", 0>>, <<"BREAK", 0>>>>} :
       Say(Closing \o breaks)
  /\ UNCHANGED latest

End ==
  /\ claim' = Nothing
  /\ Say(Closing \o <<<<"END", 0>>>>)
  /\ UNCHANGED latest

ContractNext ==
  \/ \E id \in PresenceIds : Assert(id) \/ Arrive(id)
  \/ Leave
  \/ Break
  \/ End

ContractSpec == Begin /\ [][ContractNext]_contractVars
=============================================================================
