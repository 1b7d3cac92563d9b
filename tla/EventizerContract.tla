-------------------------- MODULE EventizerContract --------------------------
(***************************************************************************)
(* The eventizer implements PresenceContract.  The open claim is read off  *)
(* the phase and the pending transition; the journal is the emitted events *)
(* with the places where they differ for the reader alone left out.        *)
(***************************************************************************)
EXTENDS Eventizer

OpenClaim ==
  IF Finished THEN [kind |-> "nothing", id |-> 0]
  ELSE IF Present THEN [kind |-> "present", id |-> state.anchorIdx]
  ELSE IF pending # NoPending THEN [kind |-> "departed", id |-> pending.origin]
  ELSE [kind |-> "nothing", id |-> 0]

LatestPresence ==
  IF ~Finished /\ Present THEN state.anchorIdx
  ELSE IF presence # <<>> THEN presence[Len(presence)].start
  ELSE 0

Statement(e) ==
  IF e.source \in {"STAY", "DWELL"} THEN <<"INTERVAL", e.presence>>
  ELSE IF e.source \in {"GAP", "DISCONTINUITY"} THEN <<"BREAK", 0>>
  ELSE <<e.source, e.presence>>

Journal == [k \in DOMAIN events |-> Statement(events[k])]

Contract == INSTANCE PresenceContract WITH
  PresenceIds <- 1 .. MaxObs,
  claim <- OpenClaim, latest <- LatestPresence, journal <- Journal

\* Every step of the eventizer is a step of the contract or invisible to it:
\* an ENTER comes only from a known departure, a LEAVE only from an asserted
\* presence it closes, no break or end leaves a claim behind, and a presence
\* is never claimed twice.
ImplementsContract == Contract!ContractSpec
=============================================================================
