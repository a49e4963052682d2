--------------------------- MODULE Authentication ---------------------------
(***************************************************************************)
(* require_principal in gateway/auth: who a caller is, by the shape of the *)
(* credential.  A JWT is verified on the event loop; an API key in one of  *)
(* Limit worker threads, behind a limiter whose queue has no bound, against *)
(* the key store that the process reads once, at its first request.  Beside *)
(* the gateway runs what may change under it: the operator, who mints or   *)
(* revokes the key by rewriting the file in place, and the clock that      *)
(* passes the key's expires_at.                                            *)
(*                                                                         *)
(* The file holds at most one key.  Callers come back after each answer.   *)
(* anyio's CapacityLimiter and threads are external: a token goes to the   *)
(* longest waiter, and is held until the coroutine that borrowed it goes   *)
(* on.  A caller that leaves changes nothing here, since nothing cancels   *)
(* the handler of a caller that has left.                                  *)
(***************************************************************************)
EXTENDS Naturals, Sequences, FiniteSets

CONSTANTS
    Caller,   \* bound: the callers that have a request in the gateway at a time
    Limit,    \* settings.AUTH_VERIFY_CONCURRENCY
    Credential, \* bound: what they may present
    None      \* no store yet

\* Nothing, a JWT, something split_key refuses, a key id that is in no store, the
\* key's id with another secret, or the key.
OnTheLoop == {"nothing", "jwt", "bad jwt"}
KeyShaped == {"malformed", "unknown", "wrong", "key"}

ASSUME AuthAssumption == /\ IsFiniteSet(Caller)
                         /\ Limit \in Nat \ {0}
                         /\ Credential \subseteq OnTheLoop \cup KeyShaped

ASSUME NoneAssumption == None \notin {"no key", "live key", "revoked key"}

VARIABLES
    file,     \* what the key file holds
    writing,  \* write_text has truncated the file and not filled it yet
    store,    \* _key_store: what the process has read of the file
    expired,  \* the clock is past the key's expires_at
    call,     \* each caller's request
    waiting,  \* the limiter's queue
    borrowed, \* the requests that hold one of its tokens
    barred,   \* history: the key was revoked when this process started
    overdue   \* history: requests let in by the key after it had expired

operatorVars == <<file, writing>>
limiterVars == <<waiting, borrowed>>
historyVars == <<barred, overdue>>
vars == <<operatorVars, store, expired, call, limiterVars, historyVars>>

Content == {"no key", "live key", "revoked key"}

\* Where a request is: the get_key_store dependency, its construction of a store,
\* require_principal, the limiter's queue, and a thread, which after its look at
\* the record can only accept the request or only refuse it.
Borrowing == {"looking", "accepting", "refusing"}

Call == [pc : {"idle", "dependency", "building", "presenting", "waiting"} \cup Borrowing,
         credential : Credential \cup {None},
         read       : Content \cup {None}]

Idle == [pc |-> "idle", credential |-> None, read |-> None]

TypeOK == /\ file \in Content
          /\ store \in Content \cup {None}
          /\ {writing, expired, barred} \subseteq BOOLEAN
          /\ call \in [Caller -> Call]
          /\ waiting \in Seq(Caller)
          /\ borrowed \subseteq Caller
          /\ overdue \in Nat

Init == /\ file = "no key"
        /\ writing = FALSE
        /\ store = None
        /\ expired = FALSE
        /\ call = [c \in Caller |-> Idle]
        /\ waiting = <<>>
        /\ borrowed = {}
        /\ barred = FALSE
        /\ overdue = 0

-----------------------------------------------------------------------------
Move(c, pc) == call' = [call EXCEPT ![c].pc = pc]

\* The request is answered, and the caller may send another.
Answer(c) == call' = [call EXCEPT ![c] = Idle]

(***************************************************************************)
(* get_key_store, a plain function and so run in a thread of the server's: *)
(* look, read the file, assign, and return whatever the global then is.    *)
(***************************************************************************)
Arrive(c, credential) ==
    /\ call[c].pc = "idle"
    /\ call' = [call EXCEPT ![c].pc = "dependency", ![c].credential = credential]
    /\ UNCHANGED <<operatorVars, store, expired, limiterVars, historyVars>>

\* Fault: from_json does not read the flag back.
ReadFileFlagless(c) ==
    /\ call[c].pc = "dependency"
    /\ store = None
    /\ call' = [call EXCEPT ![c].pc = "building",
                            ![c].read = IF writing \/ file = "no key" THEN "no key" ELSE "live key"]
    /\ UNCHANGED <<operatorVars, store, expired, limiterVars, historyVars>>

\* A file caught between truncation and content reads as no keys at all.
ReadFile(c) ==
    /\ call[c].pc = "dependency"
    /\ store = None
    /\ call' = [call EXCEPT ![c].pc = "building",
                            ![c].read = IF writing THEN "no key" ELSE file]
    /\ UNCHANGED <<operatorVars, store, expired, limiterVars, historyVars>>

\* A file caught half written does not parse: a 500, and the next request tries again.
ReadFails(c) ==
    /\ call[c].pc = "dependency"
    /\ store = None
    /\ writing
    /\ Answer(c)
    /\ UNCHANGED <<operatorVars, store, expired, limiterVars, historyVars>>

\* The assignment does not look again: the last of several builders prevails.
InstallStore(c) ==
    /\ call[c].pc = "building"
    /\ store' = call[c].read
    /\ call' = [call EXCEPT ![c].pc = "dependency", ![c].read = None]
    /\ UNCHANGED <<operatorVars, expired, limiterVars, historyVars>>

TakeStore(c) ==
    /\ call[c].pc = "dependency"
    /\ store # None
    /\ call' = [call EXCEPT ![c].pc = "presenting", ![c].read = store]
    /\ UNCHANGED <<operatorVars, store, expired, limiterVars, historyVars>>

-----------------------------------------------------------------------------
(***************************************************************************)
(* require_principal.                                                      *)
(***************************************************************************)
\* No credential or a bad JWT is a 401, a good JWT a principal; neither waits.
DecideOnTheLoop(c) ==
    /\ call[c].pc = "presenting"
    /\ call[c].credential \in OnTheLoop
    /\ Answer(c)
    /\ UNCHANGED <<operatorVars, store, expired, limiterVars, historyVars>>

\* Fault: to_thread.run_sync is called without the limiter.
DispatchUnbounded(c) ==
    /\ call[c].pc = "presenting"
    /\ call[c].credential \notin OnTheLoop
    /\ Move(c, "looking")
    /\ borrowed' = borrowed \cup {c}
    /\ UNCHANGED <<operatorVars, store, expired, waiting, historyVars>>

\* Fault: the queue is a stack.
DispatchLastFirst(c) ==
    /\ call[c].pc = "presenting"
    /\ call[c].credential \notin OnTheLoop
    /\ IF waiting = <<>> /\ Cardinality(borrowed) < Limit
       THEN /\ Move(c, "looking")
            /\ borrowed' = borrowed \cup {c}
            /\ UNCHANGED waiting
       ELSE /\ Move(c, "waiting")
            /\ waiting' = <<c>> \o waiting
            /\ UNCHANGED borrowed
    /\ UNCHANGED <<operatorVars, store, expired, historyVars>>

\* Everything that is not a JWT goes to a thread, a malformed key too.
Dispatch(c) ==
    /\ call[c].pc = "presenting"
    /\ call[c].credential \notin OnTheLoop
    /\ IF waiting = <<>> /\ Cardinality(borrowed) < Limit
       THEN /\ Move(c, "looking")
            /\ borrowed' = borrowed \cup {c}
            /\ UNCHANGED waiting
       ELSE /\ Move(c, "waiting")
            /\ waiting' = Append(waiting, c)
            /\ UNCHANGED borrowed
    /\ UNCHANGED <<operatorVars, store, expired, historyVars>>

\* KeyStore.verify: the record's flags are read before the hash, tens of
\* milliseconds long, and not again after it.
Verifies(c) == /\ call[c].credential = "key"
               /\ call[c].read = "live key"
               /\ ~expired

Look(c) ==
    /\ call[c].pc = "looking"
    /\ call' = [call EXCEPT ![c] = [Idle EXCEPT !.pc = IF Verifies(c) THEN "accepting"
                                                                     ELSE "refusing"]]
    /\ UNCHANGED <<operatorVars, store, expired, limiterVars, historyVars>>

LetIn(c) == overdue' = overdue + (IF expired /\ call[c].pc = "accepting" THEN 1 ELSE 0)

\* Fault: the longest waiter is not told that a token is free.
ResumeWithoutWake(c) ==
    /\ call[c].pc \in {"accepting", "refusing"}
    /\ LetIn(c)
    /\ borrowed' = borrowed \ {c}
    /\ Answer(c)
    /\ UNCHANGED <<operatorVars, store, expired, waiting, barred>>

\* The thread has ended and the coroutine goes on, with a principal or a 401; its
\* token passes to the longest waiter.
Resume(c) ==
    /\ call[c].pc \in {"accepting", "refusing"}
    /\ LetIn(c)
    /\ IF waiting = <<>>
       THEN /\ borrowed' = borrowed \ {c}
            /\ Answer(c)
            /\ UNCHANGED waiting
       ELSE /\ borrowed' = (borrowed \ {c}) \cup {Head(waiting)}
            /\ waiting' = Tail(waiting)
            /\ call' = [call EXCEPT ![c] = Idle, ![Head(waiting)].pc = "looking"]
    /\ UNCHANGED <<operatorVars, store, expired, barred>>

-----------------------------------------------------------------------------
(***************************************************************************)
(* What happens beside it.                                                 *)
(***************************************************************************)
\* dev_key.sh: load the store, add a record, save.
Mint ==
    /\ file = "no key"
    /\ file' = "live key"
    /\ writing' = TRUE
    /\ UNCHANGED <<store, expired, call, limiterVars, historyVars>>

\* revoke() and save(), in a process of the operator's.
Revoke ==
    /\ file = "live key"
    /\ ~writing
    /\ file' = "revoked key"
    /\ writing' = TRUE
    /\ UNCHANGED <<store, expired, call, limiterVars, historyVars>>

FinishWrite ==
    /\ writing
    /\ writing' = FALSE
    /\ UNCHANGED <<file, store, expired, call, limiterVars, historyVars>>

Expire ==
    /\ ~expired
    /\ expired' = TRUE
    /\ UNCHANGED <<operatorVars, store, call, limiterVars, historyVars>>

\* The process is replaced: its requests, its limiter and its store are gone.
Restart ==
    /\ store' = None
    /\ call' = [c \in Caller |-> Idle]
    /\ waiting' = <<>>
    /\ borrowed' = {}
    /\ barred' = (file = "revoked key")
    /\ UNCHANGED <<operatorVars, expired, overdue>>

Operator == Mint \/ Revoke \/ FinishWrite

GetKeyStore(c) == ReadFile(c) \/ ReadFails(c) \/ InstallStore(c) \/ TakeStore(c)

RequirePrincipal(c) == DecideOnTheLoop(c) \/ Dispatch(c) \/ Look(c) \/ Resume(c)

Next == \/ \E c \in Caller : \/ \E credential \in Credential : Arrive(c, credential)
                             \/ GetKeyStore(c)
                             \/ RequirePrincipal(c)
        \/ Operator \/ Expire \/ Restart

Spec == Init /\ [][Next]_vars

\* Threads run and the loop resumes what is ready.  Nobody owes the gateway a
\* request, and the operator owes it nothing.
FairSpec == /\ Spec
            /\ \A c \in Caller : WF_vars(GetKeyStore(c)) /\ WF_vars(RequirePrincipal(c))

-----------------------------------------------------------------------------
(***************************************************************************)
(* Properties.                                                             *)
(***************************************************************************)
\* "Off the event loop and bounded" (auth/__init__.py:182) and "correct
\* back-pressure at no CPU cost" (line 66): never more than Limit threads verify, a
\* stranger's key and a malformed one included; nobody waits while a token is free;
\* and a request is in at most one of the two places.
BoundedAndBusy ==
    /\ Cardinality(borrowed) <= Limit
    /\ waiting # <<>> => Cardinality(borrowed) = Limit
    /\ \A c \in Caller : /\ c \in borrowed <=> call[c].pc \in Borrowing
                         /\ Cardinality({i \in DOMAIN waiting : waiting[i] = c})
                                = (IF call[c].pc = "waiting" THEN 1 ELSE 0)

\* The expiry is read before the hash (keys.py:206-210), and the answer is given
\* after it: a key lets callers in after its expires_at only on the hashes that were
\* under way at that instant, and however long the queue was, those are at most Limit.
ExpiryOvershootBounded == overdue <= Limit

\* "Revocation needs a restart" (docs/SECURITY.md:59), and a restart is enough: no
\* process that starts after the revocation, even while the file is being written,
\* lets the key in, whichever of several racing builders installs its store.
RevocationHolds == barred => \A c \in Caller : call[c].pc # "accepting"

\* Whoever presents a credential is answered: the queue is first in first out, so
\* that the callers that come back do not keep out the one that waits.
EveryCallerAnswered == \A c \in Caller : call[c].pc # "idle" ~> call[c].pc = "idle"
=============================================================================
