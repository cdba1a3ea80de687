-------------------------- MODULE CacheProgClient --------------------------
(***************************************************************************)
(* The client of a GOCACHEPROG helper (internal/cache/gocacheprog) and the   *)
(* backend over it (gocacheprog_backend.go): the handshake, requests         *)
(* multiplexed by ID over one pair of pipes, lookups of one key that share a *)
(* round trip, the read loop that fails what is in flight when it ends, and  *)
(* Close.  The helper is external: it answers in any order or with an error, *)
(* loses and damages files, writes a line that is no response, dies.         *)
(*                                                                          *)
(* The body that is put under a key is named by the key.                     *)
(***************************************************************************)
EXTENDS Integers, FiniteSets

CONSTANTS
    Callers, Keys, Nobody,
    Declared,   \* the sets of commands a helper may declare
    MaxCalls    \* bound on the requests of a client

IDs == 1..MaxCalls
Shared == {"get", "stat"}

VARIABLES
    client,     \* "starting", "ready" or "failed"
    known,      \* the commands the helper has declared
    readLoop,   \* the read loop runs
    nextID,
    inFlight,   \* whose channel is registered under an ID
    flight,     \* the leader of a shared lookup (singleflight.Group)
    call,       \* what a caller is at
    closing,
    closer,     \* where the goroutine that calls Close is
    stdin,      \* our end of the helper's stdin is open
    helper,     \* the helper runs
    garbled,    \* it has written a line that is no response
    wire,       \* requests whose response the read loop has not decoded
    intact,     \* the keys whose file is there, as it was put
    published   \* history: the bodies that were put, by key

mux == <<nextID, inFlight, flight>>
close == <<closing, closer, stdin>>
process == <<helper, garbled>>
files == <<intact, published>>
progVars == <<client, known, readLoop, mux, call, close, process, wire, files>>

Idle == [pc |-> "idle", op |-> "get", key |-> Nobody, id |-> 0, chan |-> "empty",
         path |-> Nobody, body |-> Nobody]

At(c, l) == call[c].pc = l
Goto(c, l) == call' = [call EXCEPT ![c].pc = l]
Lookup(c) == <<call[c].op, call[c].key>>
Leads(c) == call[c].op \in Shared /\ ~At(c, "idle") /\ flight[Lookup(c)] = c

Init ==
    /\ client = "starting" /\ known = {} /\ readLoop = TRUE
    /\ nextID = 0 /\ inFlight = [i \in IDs |-> Nobody]
    /\ flight = [l \in Shared \X Keys |-> Nobody]
    /\ call = [c \in Callers |-> Idle]
    /\ closing = FALSE /\ closer = "open" /\ stdin = TRUE
    /\ helper = TRUE /\ garbled = FALSE /\ wire = {}
    /\ intact = Keys /\ published = {<<k, k>> : k \in Keys}

----------------------------------------------------------------------------
(* newOverPipes *)

\* The response with ID 0 names the commands; none at all is an error.
Handshake ==
    /\ client = "starting" /\ helper /\ readLoop
    /\ known' \in Declared
    /\ client' = IF known' = {} THEN "failed" ELSE "ready"
    /\ UNCHANGED <<readLoop, mux, call, close, process, wire, files>>

\* None within ten seconds, or the read loop has ended.
HandshakeFails ==
    /\ client = "starting"
    /\ client' = "failed"
    /\ UNCHANGED <<known, readLoop, mux, call, close, process, wire, files>>

----------------------------------------------------------------------------
(* Get, Stat and Put *)

Needs(o) == IF o = "stat" THEN "get" ELSE o

Unsent == {c \in Callers : At(c, "register")}

\* A lookup under way is joined. A command the helper has not declared is an
\* error at once, and so is every request of a client that is closing.
Call(c, o, k) ==
    /\ client = "ready" /\ At(c, "idle")
    /\ Needs(o) \in known
    /\ nextID + Cardinality(Unsent) < MaxCalls
    /\ \/ /\ o \in Shared /\ flight[<<o, k>>] # Nobody
          /\ call' = [call EXCEPT ![c] = [Idle EXCEPT !.pc = "join", !.op = o, !.key = k]]
          /\ UNCHANGED flight
       \/ /\ o \in Shared => flight[<<o, k>>] = Nobody
          /\ ~closing
          /\ call' = [call EXCEPT ![c] = [Idle EXCEPT !.pc = "register", !.op = o, !.key = k]]
          /\ flight' = IF o \in Shared THEN [flight EXCEPT ![<<o, k>>] = c] ELSE flight
    /\ UNCHANGED <<client, known, readLoop, nextID, inFlight, close, process, wire, files>>

RegisterStale(c) ==
    /\ At(c, "register")
    /\ nextID' = IF nextID = 0 THEN 1 ELSE nextID
    /\ call' = [call EXCEPT ![c].pc = "write", ![c].id = nextID']
    /\ inFlight' = [inFlight EXCEPT ![nextID'] = c]
    /\ UNCHANGED <<client, known, readLoop, flight, close, process, wire, files>>

\* send registers its channel, whether or not the read loop still runs (the map
\* is never nil), ...
Register(c) ==
    /\ At(c, "register")
    /\ nextID' = nextID + 1
    /\ call' = [call EXCEPT ![c].pc = "write", ![c].id = nextID']
    /\ inFlight' = [inFlight EXCEPT ![nextID'] = c]
    /\ UNCHANGED <<client, known, readLoop, flight, close, process, wire, files>>

\* A caller has its result, and so has everybody who shares its lookup.
Group(c) == {c} \cup {d \in Callers : Leads(c) /\ At(d, "join") /\ Lookup(d) = Lookup(c)}

EndsAlone(c, result) ==
    /\ call' = [d \in Callers |-> IF d \in Group(c) THEN result ELSE call[d]]
    /\ UNCHANGED flight

Ends(c, result) ==
    /\ call' = [d \in Callers |-> IF d \in Group(c) THEN result ELSE call[d]]
    /\ flight' = IF Leads(c) THEN [flight EXCEPT ![Lookup(c)] = Nobody] ELSE flight

\* ... and writes the request. A broken pipe takes the registration back.
WriteRequest(c) ==
    /\ At(c, "write")
    /\ IF stdin /\ helper
         THEN /\ wire' = IF garbled THEN wire ELSE
                         wire \cup {[id |-> call[c].id, cmd |-> Needs(call[c].op), key |-> call[c].key]}
              /\ Goto(c, "await")
              /\ UNCHANGED <<inFlight, flight>>
         ELSE /\ inFlight' = [inFlight EXCEPT ![call[c].id] = Nobody]
              /\ Ends(c, Idle)
              /\ UNCHANGED wire
    /\ UNCHANGED <<client, known, readLoop, nextID, close, process, files>>

\* The channel has the response, or failPending closed it.
Receive(c) ==
    /\ At(c, "await") /\ call[c].chan # "empty"
    /\ Ends(c, IF call[c].op = "get" /\ call[c].chan = "hit"
                 THEN [Idle EXCEPT !.pc = "open", !.key = call[c].key, !.path = call[c].path]
                 ELSE Idle)
    /\ UNCHANGED <<client, known, readLoop, nextID, inFlight, close, process, wire, files>>

\* validGocacheprogBody: the OutputID is the hash of what was put.
Valid(c) == call[c].path \in intact

\* Every Get opens the DiskPath for itself. The file may be gone by now, which
\* is an error; a body with another hash is a miss.
OpenBody(c) ==
    /\ At(c, "open")
    /\ call' = [call EXCEPT ![c] = IF ~Valid(c) THEN Idle ELSE
                  [@ EXCEPT !.pc = "hit", !.body = IF call[c].path \in intact THEN call[c].path ELSE Nobody]]
    /\ UNCHANGED <<client, known, readLoop, mux, close, process, wire, files>>

Use(c) ==
    /\ At(c, "hit")
    /\ call' = [call EXCEPT ![c] = Idle]
    /\ UNCHANGED <<client, known, readLoop, mux, close, process, wire, files>>

----------------------------------------------------------------------------
(* The read loop *)

\* What the helper may answer, in any order, and what it does for it.
Response(q, kind) ==
    \/ kind = "error" /\ UNCHANGED files
    \/ q.cmd = "get" /\ kind = "miss" /\ UNCHANGED files
    \/ q.cmd = "get" /\ kind = "hit" /\ UNCHANGED files
    \/ /\ q.cmd = "put" /\ kind = "ok"
       /\ intact' = intact \cup {q.key}
       /\ published' = published \cup {<<q.key, q.key>>}

\* A response goes to the channel registered under its ID, which has room for
\* it; one without a registration is dropped.
Deliver(q) ==
    /\ readLoop /\ q \in wire
    /\ wire' = wire \ {q}
    /\ inFlight' = [inFlight EXCEPT ![q.id] = Nobody]
    /\ \E kind \in {"error", "hit", "miss", "ok"} :
         /\ Response(q, kind)
         /\ call' = IF inFlight[q.id] = Nobody THEN call ELSE
                      [call EXCEPT ![inFlight[q.id]].chan = kind,
                                  ![inFlight[q.id]].path = IF kind = "hit" THEN q.key ELSE Nobody]
    /\ UNCHANGED <<client, known, readLoop, nextID, flight, close, process>>

OutputEnds == garbled \/ (~helper /\ wire = {})

ReadLoopQuits ==
    /\ readLoop /\ OutputEnds
    /\ readLoop' = FALSE
    /\ UNCHANGED <<client, known, mux, call, close, process, wire, files>>

\* Decode fails at the end of the output or on a line that is no response:
\* failPending closes every registered channel.
ReadLoopEnds ==
    /\ readLoop /\ OutputEnds
    /\ readLoop' = FALSE
    /\ inFlight' = [i \in IDs |-> Nobody]
    /\ call' = [c \in Callers |-> IF \E i \in IDs : inFlight[i] = c
                                  THEN [call[c] EXCEPT !.chan = "closed"] ELSE call[c]]
    /\ UNCHANGED <<client, known, nextID, flight, close, process, wire, files>>

----------------------------------------------------------------------------
(* Close *)

closeRest == <<client, known, readLoop, mux, call, process, wire, files>>

\* The close request goes out before the flag refuses it, ...
CloseStart ==
    /\ client = "ready" /\ closer = "open"
    /\ closer' = IF "close" \in known THEN "asking" ELSE "shut"
    /\ UNCHANGED <<closing, stdin, closeRest>>

\* ... and is answered, fails, or is given up after five seconds.
CloseAsked ==
    /\ closer = "asking"
    /\ closer' = "shut"
    /\ UNCHANGED <<closing, stdin, closeRest>>

SetClosing ==
    /\ closer = "shut"
    /\ closing' = TRUE /\ closer' = "hangup"
    /\ UNCHANGED <<stdin, closeRest>>

HangUp ==
    /\ closer = "hangup"
    /\ stdin' = FALSE /\ closer' = "drain"
    /\ UNCHANGED <<closing, closeRest>>

\* The read loop has ended, and the helper is waited for.
Reap ==
    /\ closer = "drain" /\ ~readLoop /\ ~helper
    /\ closer' = "closed"
    /\ UNCHANGED <<closing, stdin, closeRest>>

----------------------------------------------------------------------------
(* The helper *)

\* Bound: the helper commits one fault at a time.
Sound == intact = Keys /\ ~garbled /\ helper

Lose(k) ==
    /\ Sound
    /\ intact' = intact \ {k}
    /\ UNCHANGED <<client, known, readLoop, mux, call, close, process, wire, published>>

\* A line that is no response: nothing the helper does is heard any more.
Garble ==
    /\ Sound
    /\ garbled' = TRUE /\ wire' = {}
    /\ UNCHANGED <<client, known, readLoop, mux, call, close, helper, files>>

\* Some of the requests were answered before.
Exit ==
    /\ helper
    /\ helper' = FALSE /\ wire' \in SUBSET wire
    /\ UNCHANGED <<client, known, readLoop, mux, call, close, garbled, files>>

Die == Sound /\ Exit

\* End of input.
HelperExits == ~stdin /\ Exit

----------------------------------------------------------------------------
Step(c) == Register(c) \/ WriteRequest(c) \/ Receive(c) \/ OpenBody(c) \/ Use(c)
Closes == CloseAsked \/ SetClosing \/ HangUp \/ Reap
ReadLoop == ReadLoopEnds \/ \E q \in wire : Deliver(q)

Next ==
    \/ Handshake \/ HandshakeFails \/ CloseStart \/ Closes \/ ReadLoop
    \/ \E c \in Callers, o \in {"get", "stat", "put"}, k \in Keys : Call(c, o, k)
    \/ \E c \in Callers : Step(c)
    \/ \E k \in Keys : Lose(k)
    \/ Garble \/ Die \/ HelperExits

\* Runnable goroutines run, and a helper answers and exits at the end of its
\* input unless it breaks the protocol. With a bound on the calls no step can
\* recur forever, so that some step is taken is all that need be said.
Progress == (\E c \in Callers : Step(c)) \/ Closes \/ ReadLoop \/ HelperExits
Fairness == WF_progVars(Progress)

Spec == Init /\ [][Next]_progVars
FairSpec == Spec /\ Fairness
----------------------------------------------------------------------------
\* Types of the client, its callers and the helper; a shared lookup has a leader
\* that is at work on it.
TypeOK ==
    /\ client \in {"starting", "ready", "failed"} /\ known \in Declared \cup {{}}
    /\ nextID \in 0..MaxCalls /\ inFlight \in [IDs -> Callers \cup {Nobody}]
    /\ flight \in [Shared \X Keys -> Callers \cup {Nobody}]
    /\ \A l \in Shared \X Keys : flight[l] # Nobody => Lookup(flight[l]) = l /\ Leads(flight[l])
    /\ call \in [Callers -> [
         pc : {"idle", "join", "register", "write", "await", "open", "hit"},
         op : {"get", "stat", "put"}, key : Keys \cup {Nobody}, id : 0..MaxCalls,
         chan : {"empty", "closed", "error", "hit", "miss", "ok"},
         path : Keys \cup {Nobody}, body : Keys \cup {Nobody}]]
    /\ closer \in {"open", "asking", "shut", "hangup", "drain", "closed"}
    /\ intact \subseteq Keys

\* What a Get of the caller has returned.
ProgAnswer(c) == IF At(c, "hit") THEN <<call[c].key, call[c].body>> ELSE Nobody

\* The calls of a client return whatever the helper does, short of writing a
\* line that is no response and living on: answered, failed by failPending when
\* the read loop ends, refused by a broken pipe when they register after that, or
\* with the lookup they share. (The number of calls is bounded.)
Returned == \A c \in Callers : At(c, "idle")
CallsReturn == ~Returned ~> (Returned \/ garbled)

\* Close comes to an end, with the helper reaped, whatever the callers and the
\* helper were at, a helper that answers nothing included.
CloseReturns == closer # "open" ~> closer = "closed"
============================================================================
