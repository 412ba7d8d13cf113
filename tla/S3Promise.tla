------------------------------ MODULE S3Promise ------------------------------
(***************************************************************************)
(* What the S3 client promises its callers, without requests, retries,     *)
(* parts or partial files.  A call that changes the bucket takes effect    *)
(* perhaps more than once and perhaps without its caller learning of it;   *)
(* it reports success only if it took effect, or the bucket said so of     *)
(* what it had not done.  An object that is uploaded is complete and has   *)
(* each chunk of some content the uploaded thing had during the call: it   *)
(* is that thing where nobody writes it meanwhile.  A download that        *)
(* reports success leaves one object behind, and one that fails leaves the *)
(* file as it was.  S3Client implements this.                              *)
(***************************************************************************)
EXTENDS Naturals, Sequences

CONSTANTS
  Keys,    \* object names
  Objects, \* the contents others give an object
  Nothing, \* no object, no file
  Calls,   \* put, delete, get and the calls that only read
  Idle     \* no call in progress

VARIABLES
  store,   \* the bucket
  target,  \* the file downloads go to
  call,    \* the call in progress
  ok,      \* the last call returned, and reported success
  done,    \* the call has taken effect
  steady,  \* the object it fetches is as the caller was told, and nothing was left over
  had,     \* the contents that what it uploads had since the call began
  misled   \* the bucket reported as done what it had not done

vars == <<store, target, call, ok, done, steady, had, misled>>

Changes(c) == c.kind \in {"put", "bytes", "delete"}

Pieced(object) ==
  /\ \E content \in had : Len(object) = Len(content)
  /\ \A i \in 1 .. Len(object) :
       \E content \in had : i <= Len(content) /\ object[i] = content[i]

Init ==
  /\ store \in [Keys -> Objects \union {Nothing}]
  /\ target = Nothing
  /\ call = Idle /\ ~ok
  /\ ~done /\ ~steady /\ ~misled

Begins ==
  /\ call = Idle /\ call' \in Calls
  /\ ~ok' /\ ~done' /\ ~misled'
  /\ call'.kind \in {"put", "bytes"} => had' = {call'.body}
  /\ target' = Nothing \* the path of the next download
  /\ UNCHANGED store

\* What is being uploaded is written meanwhile.
Writes == had \subseteq had' /\ UNCHANGED <<store, target, call, ok, done, steady, misled>>

Effect ==
  LET object == store'[call.key]
  IN /\ store' = [store EXCEPT ![call.key] = object]
     /\ IF call.kind = "delete" THEN object = Nothing ELSE Pieced(object)

TakesEffect ==
  /\ Changes(call) /\ Effect /\ done'
  /\ UNCHANGED <<target, call, ok, steady, had, misled>>

Succeeds ==
  IF call.kind = "get"
  THEN /\ call.hash => target' = call.body
       /\ steady => target' = store[call.key]
       /\ UNCHANGED store
  ELSE /\ \/ Changes(call) /\ Effect
          \/ (Changes(call) => done \/ misled') /\ UNCHANGED store
       /\ UNCHANGED target

Fails ==
  /\ (Changes(call) /\ Effect) \/ UNCHANGED store
  /\ UNCHANGED target

Ends ==
  /\ call # Idle /\ call' = Idle
  /\ (ok' /\ Succeeds) \/ (~ok' /\ Fails)
  /\ ~done' /\ ~steady'

Others ==
  /\ DOMAIN store' = Keys
  /\ \A k \in Keys : store'[k] \in Objects \union {Nothing, store[k]}
  /\ steady' => steady
  /\ UNCHANGED <<target, call, ok, done, had, misled>>

\* The container is started again: nothing remembers the last call.
Forgets == ~ok' /\ UNCHANGED <<store, target, call, done, steady, had, misled>>

Next == Begins \/ Writes \/ TakesEffect \/ Ends \/ Others \/ Forgets

Spec == Init /\ [][Next]_vars
=============================================================================
