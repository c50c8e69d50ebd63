---------------------------- MODULE UpdateChecks ----------------------------
(***************************************************************************)
(* CheckAll of update/check.go: one goroutine per container asks its       *)
(* registry whether there is a newer image, Concurrency of them at a time, *)
(* and all of them share the credentials of runtime/registry.go.  What     *)
(* docker login left on the host is known from the start; Komodo, the      *)
(* fallback, is asked for its accounts when a registry has refused the     *)
(* rest, and once in the life of the process.                              *)
(*                                                                         *)
(* A registry is the set of credentials it takes for a container's image:  *)
(* "own" stands for the anonymous attempt and the host's login, which are  *)
(* at hand at any time, "account" for Komodo's account with it.            *)
(***************************************************************************)
EXTENDS Naturals, FiniteSets

CONSTANTS
  Cand,         \* the containers
  Domain,       \* the domains of registries
  DomainOf,     \* DomainOf[c]: the one c's image comes from
  Registries,   \* what registries there may be: a set of functions to credentials
  Concurrency   \* how many checks run at once (TOWER_CONCURRENCY)

Credentials == {"own", "account"}

ASSUME DomainAssumption == DomainOf \in [Cand -> Domain]
ASSUME RegistriesAssumption == Registries \subseteq [Cand -> SUBSET Credentials]
ASSUME ConcurrencyAssumption == Concurrency \in Nat \ {0}

VARIABLES
  takes,      \* takes[c]: the credentials that c's registry takes for its image
  auth,       \* RegistryAuth
  check,      \* check[c]: the check of c in this CheckAll, or the last
  cancelled   \* the command's context is

checkVars == <<takes, auth, check, cancelled>>

\* An account without a secret is what a redacted answer of Komodo's holds.
Account == [domain : Domain, usable : BOOLEAN]

AuthState ==
  [once : {"none", "unused", "asking", "adding", "used"},  \* "none": no Komodo
   accounts : SUBSET Account,   \* fetched and not added yet
   added : BOOLEAN,             \* one was added
   loaded : SUBSET Domain,      \* the domains with a usable account
   asked : Nat,                 \* history: how often Komodo was
   settled : BOOLEAN]           \* history: it had been before this CheckAll

CheckState ==
  [pc : {"done", "queue", "inspect", "read", "ask", "refused", "loading"},
   creds : SUBSET Credentials,  \* the attempts read from RegistryAuth
   again : BOOLEAN,             \* after a load of its own
   result : {"none", "nothing", "denied", "available"}]
                                \* "nothing": up to date, skipped or failed

NoCheck == [pc |-> "done", creds |-> {}, again |-> FALSE, result |-> "none"]

ChecksTypeOK ==
  /\ takes \in [Cand -> SUBSET Credentials]
  /\ auth \in AuthState
  /\ check \in [Cand -> CheckState]
  /\ cancelled \in BOOLEAN

ChecksInit ==
  /\ takes \in Registries
  /\ \E once \in {"none", "unused"} :
       auth = [once |-> once, accounts |-> {}, added |-> FALSE, loaded |-> {},
               asked |-> 0, settled |-> once = "none"]
  /\ check = [c \in Cand |-> NoCheck]
  /\ cancelled = FALSE

At(c, pc) == check[c].pc = pc
Go(c, pc) == check' = [check EXCEPT ![c].pc = pc]
\* The result is entered in the map, and the slot of the semaphore is given
\* back.  What a check was denied with is kept for the properties.
Ends(c, result) ==
  check' = [check EXCEPT ![c] = IF result = "denied" THEN [@ EXCEPT !.pc = "done", !.result = result]
                                ELSE [NoCheck EXCEPT !.result = result]]

Running == {c \in Cand : check[c].pc \notin {"done", "queue"}}
AllEnded == \A c \in Cand : At(c, "done")

-----------------------------------------------------------------------------

CheckAll(S) ==
  /\ AllEnded
  /\ check' = [c \in Cand |-> IF c \in S THEN [NoCheck EXCEPT !.pc = "queue"] ELSE NoCheck]
  /\ auth' = [auth EXCEPT !.settled = @ \/ auth.once = "used"]
  /\ UNCHANGED <<takes, cancelled>>

\* A goroutine gets a slot, or is told that nobody wants to know any more: then
\* there is no entry for its container.
Enter(c) ==
  /\ At(c, "queue")
  /\ \/ Cardinality(Running) < Concurrency /\ Go(c, "inspect")
     \/ cancelled /\ check' = [check EXCEPT ![c] = NoCheck]
  /\ UNCHANGED <<takes, auth, cancelled>>

\* No registry behind the image, no digest to compare, or pinned to one: there
\* is nothing to ask.  The running image may also fail to be inspected.
Inspect(c) ==
  /\ At(c, "inspect")
  /\ \/ Ends(c, "nothing")
     \/ ~cancelled /\ Go(c, "read")
  /\ UNCHANGED <<takes, auth, cancelled>>

Attempts(c) == {"own"} \cup (IF DomainOf[c] \in auth.loaded THEN {"account"} ELSE {})

Read(c) ==
  /\ At(c, "read")
  /\ check' = [check EXCEPT ![c].pc = "ask", ![c].creds = Attempts(c)]
  /\ UNCHANGED <<takes, auth, cancelled>>

\* tryCredentials: one after the other, until one is taken or the registry
\* fails to answer.
Ask(c) ==
  /\ At(c, "ask")
  /\ \/ /\ ~cancelled /\ check[c].creds \cap takes[c] # {}
        /\ \E result \in {"nothing", "available"} : Ends(c, result)
     \/ /\ ~cancelled /\ check[c].creds \cap takes[c] = {}
        /\ IF check[c].again THEN Ends(c, "denied") ELSE Go(c, "refused")
     \/ Ends(c, "nothing")
  /\ UNCHANGED <<takes, auth, cancelled>>

\* Mutant: Komodo is asked again for each check that is refused.
LoadEachTime(c) ==
  /\ At(c, "refused")
  /\ \/ /\ auth.once \in {"unused", "used"}
        /\ auth' = [auth EXCEPT !.once = "asking", !.asked = @ + 1]
        /\ Go(c, "loading")
     \/ auth.once = "none" /\ Ends(c, "denied") /\ UNCHANGED auth
  /\ UNCHANGED <<takes, cancelled>>

\* LoadFallback.  The first to get there makes the call; whoever comes while it
\* is being made waits for it, and is told, as is all who come later, that
\* nothing was added.
LoadFallback(c) ==
  /\ At(c, "refused")
  /\ \/ /\ auth.once = "unused"
        /\ auth' = [auth EXCEPT !.once = "asking", !.asked = @ + 1]
        /\ Go(c, "loading")
     \/ /\ auth.once \in {"none", "used"}
        /\ Ends(c, "denied")
        /\ UNCHANGED auth
  /\ UNCHANGED <<takes, cancelled>>

\* Mutant: a load that fails does not let go of the ones that wait for it.
FetchedOrStuck(c) ==
  /\ At(c, "loading") /\ auth.once = "asking"
  /\ \/ Ends(c, "denied") /\ UNCHANGED auth
     \/ /\ ~cancelled /\ UNCHANGED check
        /\ \E accounts \in SUBSET Account :
             auth' = [auth EXCEPT !.once = "adding", !.accounts = accounts]
  /\ UNCHANGED <<takes, cancelled>>

\* Komodo answers, or does not; that it did not is for good.
Fetched(c) ==
  /\ At(c, "loading") /\ auth.once = "asking"
  /\ \/ Ends(c, "denied") /\ auth' = [auth EXCEPT !.once = "used"]
     \/ /\ ~cancelled /\ UNCHANGED check
        /\ \E accounts \in SUBSET Account :
             auth' = [auth EXCEPT !.once = "adding", !.accounts = accounts]
  /\ UNCHANGED <<takes, cancelled>>

\* AddCredentials: one account at a time, in view of the checks that read them.
AddCredentials(c) ==
  /\ At(c, "loading") /\ auth.once = "adding"
  /\ \E a \in auth.accounts :
       auth' = [auth EXCEPT !.accounts = @ \ {a}, !.added = TRUE,
                            !.loaded = IF a.usable THEN @ \cup {a.domain} ELSE @]
  /\ UNCHANGED <<takes, check, cancelled>>

\* Mutant: the second attempt is made with the credentials of the first.
LoadedUnread(c) ==
  /\ At(c, "loading") /\ auth.once = "adding" /\ auth.accounts = {}
  /\ auth' = [auth EXCEPT !.once = "used"]
  /\ IF auth.added THEN check' = [check EXCEPT ![c].pc = "ask", ![c].again = TRUE]
                   ELSE Ends(c, "denied")
  /\ UNCHANGED <<takes, cancelled>>

Loaded(c) ==
  /\ At(c, "loading") /\ auth.once = "adding" /\ auth.accounts = {}
  /\ auth' = [auth EXCEPT !.once = "used"]
  /\ IF auth.added THEN check' = [check EXCEPT ![c].pc = "read", ![c].again = TRUE]
                   ELSE Ends(c, "denied")
  /\ UNCHANGED <<takes, cancelled>>

CheckStep(c) ==
  \/ Enter(c) \/ Inspect(c) \/ Read(c) \/ Ask(c)
  \/ LoadFallback(c) \/ Fetched(c) \/ AddCredentials(c) \/ Loaded(c)

Cancel == ~cancelled /\ cancelled' = TRUE /\ UNCHANGED <<takes, auth, check>>

ChecksNext == (\E S \in SUBSET Cand : CheckAll(S)) \/ (\E c \in Cand : CheckStep(c)) \/ Cancel

ChecksSpec == ChecksInit /\ [][ChecksNext]_checkVars

-----------------------------------------------------------------------------
(* Properties *)

\* "A host whose images are public or covered by its own docker login
\* therefore never contacts it at all, and one that needs it contacts it once"
\* (check.go:127-130): however many checks are refused at the same time.
FallbackSparing ==
  /\ auth.asked <= 1
  /\ auth.asked = 1 => \E c \in Cand : "own" \notin takes[c]

\* A check that is denied although Komodo's account would have been taken met
\* the load of another check (registry.go:90-109): it is never the one that
\* made the load, and never one of a CheckAll that began after it.
DeniedForCause ==
  \A c \in Cand :
    check[c].result = "denied" /\ "account" \in takes[c] /\ DomainOf[c] \in auth.loaded =>
      ~check[c].again /\ ~auth.settled

\* The inductive invariant behind the two: the one call to Komodo follows a
\* refusal, one check at most makes the load, and what is read after the load
\* is complete.
OnceInv ==
  /\ auth.asked = IF auth.once \in {"none", "unused"} THEN 0 ELSE 1
  /\ auth.settled => auth.once \in {"none", "used"}
  /\ auth.asked = 1 => \E c \in Cand : "own" \notin takes[c]

OneLoader == \A c, d \in Cand : At(c, "loading") /\ At(d, "loading") => c = d

\* From its first attempts on c has been refused whatever the host has.
Refused(c) == check[c].pc \in {"refused", "loading"} \/ check[c].result = "denied"

CheckInv(c) ==
  /\ At(c, "loading") => auth.once \in {"asking", "adding"}
  /\ check[c].again => auth.once = "used"
  /\ check[c].result = "denied" => At(c, "done")
  /\ At(c, "ask") => "own" \in check[c].creds
  /\ Refused(c) => "own" \in check[c].creds /\ check[c].creds \cap takes[c] = {}
  /\ /\ At(c, "ask") \/ Refused(c)
     /\ check[c].again \/ auth.settled
     /\ DomainOf[c] \in auth.loaded
     => "account" \in check[c].creds

ChecksInv == OnceInv /\ OneLoader /\ \A c \in Cand : CheckInv(c)
=============================================================================
