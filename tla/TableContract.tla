---------------------------- MODULE TableContract -----------------------------
(***************************************************************************)
(* What the writers promise a run: the tables that are published hold      *)
(* exactly the rows they were given, in that order; a run that fails       *)
(* publishes nothing.  How rows are buffered and batched does not show.    *)
(***************************************************************************)
EXTENDS Naturals, Sequences

CONSTANT Table

VARIABLES
  given,     \* the rows given for each table
  published, \* the tables as a success leaves them
  outcome    \* "open", "published" or "failed"

contractVars == <<given, published, outcome>>

Nothing == [t \in Table |-> <<>>]

ContractInit == given = Nothing /\ published = Nothing /\ outcome = "open"

Give ==
  /\ outcome = "open"
  /\ \E t \in Table :
       /\ Len(given'[t]) = Len(given[t]) + 1
       /\ given' = [given EXCEPT ![t] = Append(@, given'[t][Len(given[t]) + 1])]
  /\ UNCHANGED <<published, outcome>>

Publish ==
  /\ outcome = "open"
  /\ outcome' = "published" /\ published' = given
  /\ UNCHANGED given

Fail ==
  /\ outcome = "open"
  /\ outcome' = "failed"
  /\ UNCHANGED <<given, published>>

ContractNext == Give \/ Publish \/ Fail
ContractSpec == ContractInit /\ [][ContractNext]_contractVars
=============================================================================
