--------------------------- MODULE CredentialStore ---------------------------
(***************************************************************************)
(* What ctap2/storage.go promises to its callers: a list of discoverable   *)
(* credentials that is changed in memory and committed as a whole.  There  *)
(* is no file here and nothing is ever torn: a crash keeps what was        *)
(* committed, and a power loss keeps one of the lists committed since the  *)
(* disk last settled.  CredentialStorage.tla implements it.                *)
(***************************************************************************)
EXTENDS Integers

CONSTANTS RPs, Users, Ids

Credential == [id : Ids, rp : RPs, user : Users]

VARIABLES
  running,   \* a process has loaded the list
  list,      \* the list its lookups see
  committed, \* the list the next process loads
  possible   \* the lists it may load after a power loss

vars == <<running, list, committed, possible>>

Init ==
  /\ running = FALSE
  /\ list = {}
  /\ committed = {}
  /\ possible = {{}}

\* A credential takes the place of its account's old one.
Put(c) ==
  /\ running
  /\ list' = {d \in list : ~(d.rp = c.rp /\ d.user = c.user)} \cup {c}
  /\ UNCHANGED <<running, committed, possible>>

Remove(c) ==
  /\ running
  /\ list' = {d \in list : d.id # c.id}
  /\ UNCHANGED <<running, committed, possible>>

\* The whole list is committed, in one step, with every change made so far.
Commit ==
  /\ running
  /\ committed' = list
  /\ possible' = possible \cup {list}
  /\ UNCHANGED <<running, list>>

\* A process starts; one that cannot read the list starts with none.
Load ==
  /\ ~running
  /\ running' = TRUE
  /\ list' \in {committed, {}}
  /\ UNCHANGED <<committed, possible>>

Stop ==
  /\ running
  /\ running' = FALSE
  /\ list' = {}
  /\ UNCHANGED <<committed, possible>>

PowerLoss ==
  /\ running' = FALSE
  /\ list' = {}
  /\ committed' \in possible
  /\ possible' = {committed'}

Settle ==
  /\ possible' = {committed}
  /\ UNCHANGED <<running, list, committed>>

Next ==
  \/ \E c \in Credential : Put(c) \/ Remove(c)
  \/ Commit \/ Load \/ Stop \/ PowerLoss \/ Settle

Spec == Init /\ [][Next]_vars

=============================================================================
