----------------------------- MODULE HttpServer -----------------------------
(***************************************************************************)
(* The HTTP server (http_server.h, http_server.cpp, request_handler.h,     *)
(* logging_request_handler.h), the ticker (ticker.h) and the event loop    *)
(* that main.cpp runs on many threads.                                     *)
(*                                                                         *)
(* A connection is a chain of asynchronous operations: a read, the         *)
(* handling of the request, the write of the response, the next read.  API *)
(* requests and ticks are handled one at a time on the API strand, files   *)
(* by the handler of the read itself.  An action is one completion handler *)
(* of the event loop; those on the strand begin and end in two actions, so *)
(* that other connections go on meanwhile.                                 *)
(***************************************************************************)
EXTENDS Integers, Sequences, FiniteSets

CONSTANTS
    Clients,       \* the connections that clients may open
    MaxRequests,   \* bound: the requests that each client sends
    Kinds,         \* what clients ask for, a subset of {"api", "file"}
    SelfUpdate,    \* -t is not 0: the ticker moves the world
    Faults         \* what may go wrong, a subset of FaultKinds

FaultKinds == {"accept", "reset", "signal", "target"}

ASSUME HttpAssumption ==
    /\ "ticker" \notin Clients
    /\ MaxRequests \in [Clients -> Nat]
    /\ Kinds \subseteq {"api", "file"}
    /\ SelfUpdate \in BOOLEAN
    /\ Faults \subseteq FaultKinds

VARIABLES
    server,     \* "running"; "stopped" by ioc.stop(); "dead" by an exception
    main,       \* the main thread runs the event loop, as the workers do
    accepting,  \* an accept is outstanding
    socket,     \* per connection: "none", "open" or "closed"
    sent,       \* per connection: the requests that are not yet read
    fin,        \* the connections whose client sends no more
    reading,    \* the connections with a read outstanding
    expired,    \* the connections past their deadline (expires_after)
    strand,     \* the handlers that wait for the API strand, oldest first
    current,    \* the handler that runs on it: at most one
    writing,    \* the responses that are being written
    timer,      \* the timer of the ticker is armed
    asked,      \* history: per connection, the number of requests read
    answered    \* history: per connection, the requests answered, in order

clientVars  == <<sent, fin>>
strandVars  == <<strand, current>>
historyVars == <<asked, answered>>
vars == <<server, main, accepting, socket, clientVars, reading, expired, strandVars,
          writing, timer, historyVars>>

-----------------------------------------------------------------------------
Request == [kind : Kinds, close : BOOLEAN]

Tick == [conn |-> "ticker"]

Job(c, n, r) == [conn |-> c, n |-> n, close |-> r.close]

Running == server = "running"

(* Read(): a new deadline, for the read and for the write that follows. *)
Read(c) == reading' = reading \cup {c} /\ expired' = expired \ {c}

(* The last reference to the session goes, and the socket with it. *)
EndSession(c) ==
    /\ socket' = [socket EXCEPT ![c] = "closed"]
    /\ expired' = expired \ {c}

(* An exception that nothing catches leaves ioc.run() of its thread.  On a
   worker, and on the main thread when there are no workers, it ends the
   process: nothing runs any more, and every socket is closed. *)
Dies ==
    /\ server' = "dead" /\ main' = FALSE
    /\ accepting' = FALSE /\ timer' = FALSE
    /\ socket' = [c \in Clients |-> IF socket[c] = "none" THEN "none" ELSE "closed"]
    /\ sent' = [c \in Clients |-> << >>] /\ fin' = {}
    /\ reading' = {} /\ expired' = {} /\ writing' = {}
    /\ strand' = << >> /\ current' = << >>

(* The main thread waits for its workers, which go on: all that is lost is what
   the handler held. *)
MainLeaves ==
    /\ main /\ main' = FALSE
    /\ UNCHANGED <<server, timer, strandVars>>

-----------------------------------------------------------------------------
(* Clients: they may send the next request before the answer to the last, and
   go away at any time. *)

Send(c, r) ==
    /\ Running
    /\ socket[c] = "open" /\ c \notin fin
    /\ asked[c] + Len(sent[c]) < MaxRequests[c]
    /\ sent' = [sent EXCEPT ![c] = Append(@, r)]
    /\ UNCHANGED <<server, main, accepting, socket, fin, reading, expired, strandVars,
                   writing, timer, historyVars>>

Leave(c) ==
    /\ Running
    /\ socket[c] = "open" /\ c \notin fin
    /\ fin' = fin \cup {c}
    /\ UNCHANGED <<server, main, accepting, socket, sent, reading, expired, strandVars,
                   writing, timer, historyVars>>

(* The 30 seconds since the last Read() are over. *)
Expire(c) ==
    /\ Running
    /\ socket[c] = "open" /\ c \notin expired
    /\ expired' = expired \cup {c}
    /\ UNCHANGED <<server, main, accepting, socket, clientVars, reading, strandVars,
                   writing, timer, historyVars>>

-----------------------------------------------------------------------------
(* Listener. *)

OnAccept(c) ==
    /\ Running /\ accepting
    /\ socket[c] = "none"
    /\ socket' = [socket EXCEPT ![c] = "open"]
    /\ Read(c)
    /\ UNCHANGED <<server, main, accepting, clientVars, strandVars, writing, timer,
                   historyVars>>

(* No DoAccept() after an error. *)
OnAcceptError ==
    /\ "accept" \in Faults
    /\ Running /\ accepting
    /\ accepting' = FALSE
    /\ UNCHANGED <<server, main, socket, clientVars, reading, expired, strandVars,
                   writing, timer, historyVars>>

(* The peer is gone before remote_endpoint(), which throws in OnAccept. *)
OnAcceptThrows(c) ==
    /\ "reset" \in Faults
    /\ Running /\ accepting
    /\ socket[c] = "none"
    /\ \/ Dies
       \/ /\ MainLeaves
          /\ accepting' = FALSE
          /\ EndSession(c)
          /\ UNCHANGED <<clientVars, reading, writing>>
    /\ UNCHANGED historyVars

-----------------------------------------------------------------------------
(* Session. *)

Respond(c, n, close) ==
    writing' = writing \cup {[conn |-> c, n |-> n, close |-> close]}

(* Mutant: the session reads on while the request is handled. *)
ReadOn(c) == Read(c)
ReadDone(c) == reading' = reading \ {c} /\ UNCHANGED expired

(* A file is answered at once.  One that cannot be opened any more is answered
   without a length, which closes the connection. *)
HandleRequest(c, n, r) ==
    \/ /\ r.kind = "api"
       /\ strand' = Append(strand, Job(c, n, r))
       /\ UNCHANGED writing
    \/ /\ r.kind = "file"
       /\ \E close \in {r.close, TRUE} : Respond(c, n, close)
       /\ UNCHANGED strand

OnRead(c) ==
    /\ Running
    /\ c \in reading
    /\ sent[c] # << >>
    /\ asked' = [asked EXCEPT ![c] = @ + 1]
    /\ HandleRequest(c, asked[c] + 1, Head(sent[c]))
    /\ sent' = [sent EXCEPT ![c] = Tail(@)]
    /\ ReadDone(c)
    /\ UNCHANGED <<server, main, accepting, socket, fin, current, timer, answered>>

(* A target that cannot be decoded (a cut % or a + at its end) and a path that
   the file system refuses throw before the request gets to the strand. *)
OnReadThrows(c) ==
    /\ "target" \in Faults
    /\ Running
    /\ c \in reading
    /\ sent[c] # << >>
    /\ asked' = [asked EXCEPT ![c] = @ + 1]
    /\ \/ Dies
       \/ /\ MainLeaves
          /\ sent' = [sent EXCEPT ![c] = Tail(@)]
          /\ reading' = reading \ {c}
          /\ EndSession(c)
          /\ UNCHANGED <<accepting, fin, writing>>
    /\ UNCHANGED answered

(* Mutant: the read has no deadline. *)
OnReadEndsOnlyByClient(c) ==
    /\ Running
    /\ c \in reading
    /\ c \in fin /\ sent[c] = << >>
    /\ reading' = reading \ {c}
    /\ EndSession(c)
    /\ UNCHANGED <<server, main, accepting, clientVars, strandVars, writing, timer,
                   historyVars>>

(* end_of_stream: Close(); any other error, a timeout too: return. *)
OnReadEnds(c) ==
    /\ Running
    /\ c \in reading
    /\ c \in expired \/ (c \in fin /\ sent[c] = << >>)
    /\ reading' = reading \ {c}
    /\ EndSession(c)
    /\ UNCHANGED <<server, main, accepting, clientVars, strandVars, writing, timer,
                   historyVars>>

Gone(c) == c \in expired \cup fin

(* OnWrite: Close() when the response ends with the connection, else Read(). *)
OnWrite(w) ==
    /\ Running
    /\ w \in writing
    /\ writing' = writing \ {w}
    /\ answered' = [answered EXCEPT ![w.conn] = Append(@, w.n)]
    /\ IF w.close
       THEN EndSession(w.conn) /\ UNCHANGED reading
       ELSE Read(w.conn) /\ UNCHANGED socket
    /\ UNCHANGED <<server, main, accepting, clientVars, strandVars, timer, asked>>

OnWriteFails(w) ==
    /\ Running
    /\ w \in writing
    /\ Gone(w.conn)
    /\ writing' = writing \ {w}
    /\ EndSession(w.conn)
    /\ UNCHANGED <<server, main, accepting, clientVars, reading, strandVars, timer,
                   historyVars>>

(* shutdown() throws in Close() when the client has reset the connection: after
   the last read, *)
CloseThrows(c) ==
    /\ "reset" \in Faults
    /\ Running
    /\ c \in reading
    /\ c \in fin /\ sent[c] = << >>
    /\ \/ Dies
       \/ /\ MainLeaves
          /\ reading' = reading \ {c}
          /\ EndSession(c)
          /\ UNCHANGED <<accepting, clientVars, writing>>
    /\ UNCHANGED historyVars

(* and after the last write. *)
OnWriteThrows(w) ==
    /\ "reset" \in Faults
    /\ Running
    /\ w \in writing
    /\ w.close /\ w.conn \in fin
    /\ answered' = [answered EXCEPT ![w.conn] = Append(@, w.n)]
    /\ \/ Dies
       \/ /\ MainLeaves
          /\ writing' = writing \ {w}
          /\ EndSession(w.conn)
          /\ UNCHANGED <<accepting, clientVars, reading>>
    /\ UNCHANGED asked

-----------------------------------------------------------------------------
(* The API strand. *)

(* Mutant: no strand, a handler begins while another one runs. *)
BeginAtOnce ==
    /\ Running
    /\ strand # << >>
    /\ current' = Append(current, Head(strand))
    /\ strand' = Tail(strand)
    /\ UNCHANGED <<server, main, accepting, socket, clientVars, reading, expired,
                   writing, timer, historyVars>>

Begin ==
    /\ Running
    /\ current = << >> /\ strand # << >>
    /\ current' = <<Head(strand)>>
    /\ strand' = Tail(strand)
    /\ UNCHANGED <<server, main, accepting, socket, clientVars, reading, expired,
                   writing, timer, historyVars>>

(* A handler that has begun ends also after ioc.stop(). *)
Ends(job) == server \in {"running", "stopped"} /\ current = <<job>> /\ current' = << >>

SendAnswer(job) == Respond(job.conn, job.n, job.close)

(* Mutant: the exception is logged and nothing is sent. *)
SendNothing(job) == UNCHANGED writing
SendErrorResponse(job) == Respond(job.conn, job.n, job.close)

(* GetApiResponse returns, or throws and the client gets 400. *)
GetApiResponse(job) ==
    /\ job # Tick
    /\ Ends(job)
    /\ SendAnswer(job) \/ SendErrorResponse(job)
    /\ UNCHANGED <<server, main, accepting, socket, clientVars, reading, expired, strand,
                   timer, historyVars>>

(* Mutant: a tick that throws is the last one. *)
OnTickNoCatch ==
    /\ Ends(Tick)
    /\ timer' \in BOOLEAN
    /\ UNCHANGED <<server, main, accepting, socket, clientVars, reading, expired, strand,
                   writing, historyVars>>

(* The handler returns or throws; ScheduleTick() follows in both cases. *)
OnTick ==
    /\ Ends(Tick)
    /\ timer' = TRUE
    /\ UNCHANGED <<server, main, accepting, socket, clientVars, reading, expired, strand,
                   writing, historyVars>>

(* Mutant: a periodic timer. *)
TimerGoesOn == UNCHANGED timer
TimerDone == timer' = FALSE

(* The timer queues OnTick on its executor, the API strand.  Bound: the strand
   holds no more handlers than there are connections when it does. *)
TimerExpires ==
    /\ Running
    /\ timer
    /\ Len(strand) <= Cardinality(Clients)
    /\ TimerDone
    /\ strand' = Append(strand, Tick)
    /\ UNCHANGED <<server, main, accepting, socket, clientVars, reading, expired, current,
                   writing, historyVars>>

(* The signal handler: ioc.stop(), so that no handler begins any more. *)
Stop ==
    /\ "signal" \in Faults
    /\ Running
    /\ server' = "stopped"
    /\ UNCHANGED <<main, accepting, socket, clientVars, reading, expired, strandVars,
                   writing, timer, historyVars>>

-----------------------------------------------------------------------------
Init ==
    /\ server = "running" /\ main = TRUE /\ accepting = TRUE
    /\ socket = [c \in Clients |-> "none"]
    /\ sent = [c \in Clients |-> << >>] /\ fin = {}
    /\ reading = {} /\ expired = {}
    /\ strand = << >> /\ current = << >> /\ writing = {}
    /\ timer = SelfUpdate
    /\ asked = [c \in Clients |-> 0]
    /\ answered = [c \in Clients |-> << >>]

Client(c) == (\E r \in Request : Send(c, r)) \/ Leave(c) \/ Expire(c)

Listener(c) == OnAccept(c) \/ OnAcceptError \/ OnAcceptThrows(c)

Session(c) == OnRead(c) \/ OnReadThrows(c) \/ OnReadEnds(c) \/ CloseThrows(c)

Writer(w) == OnWrite(w) \/ OnWriteFails(w) \/ OnWriteThrows(w)

Strand ==
    \/ Begin
    \/ OnTick
    \/ \E job \in {current[i] : i \in DOMAIN current} : GetApiResponse(job)

Next ==
    \/ \E c \in Clients : Client(c) \/ Listener(c) \/ Session(c)
    \/ \E w \in writing : Writer(w)
    \/ Strand
    \/ TimerExpires
    \/ Stop

Spec == Init /\ [][Next]_vars

(* The event loop runs what is ready, and every deadline comes.  Nothing makes
   a client take its response: OnWrite is not fair. *)
LiveSpec ==
    /\ Spec
    /\ WF_vars(Strand) /\ WF_vars(TimerExpires)
    /\ \A c \in Clients :
          /\ WF_vars(Expire(c))
          /\ WF_vars(OnRead(c) \/ OnReadEnds(c))
          /\ WF_vars(\E w \in writing : w.conn = c /\ OnWriteFails(w))
-----------------------------------------------------------------------------
Jobs == {current[i] : i \in DOMAIN current} \cup {strand[i] : i \in DOMAIN strand}

(* Every variable has its type. *)
TypeOK ==
    /\ server \in {"running", "stopped", "dead"}
    /\ main \in BOOLEAN /\ accepting \in BOOLEAN /\ timer \in BOOLEAN
    /\ socket \in [Clients -> {"none", "open", "closed"}]
    /\ sent \in [Clients -> Seq(Request)]
    /\ fin \subseteq Clients /\ reading \subseteq Clients /\ expired \subseteq Clients
    /\ Len(current) <= 1
    /\ \A job \in Jobs : job = Tick \/ job \in [conn : Clients, n : Nat, close : BOOLEAN]
    /\ writing \subseteq [conn : Clients, n : Nat, close : BOOLEAN]
    /\ \A c \in Clients : asked[c] \in 0 .. MaxRequests[c]
    /\ \A c \in Clients : answered[c] \in Seq(Nat)

(* How many operations of connection c are under way. *)
Pending(c) ==
    Cardinality({i \in DOMAIN strand : strand[i].conn = c})
    + Cardinality({i \in DOMAIN current : current[i].conn = c})
    + Cardinality({w \in writing : w.conn = c})
    + Cardinality(reading \cap {c})

(* An open connection has exactly one operation under way: with none its
   session would be destroyed, with two they would share the stream, its buffer
   and the request.  A closed one has none. *)
OneAtATime ==
    \A c \in Clients : Pending(c) = IF socket[c] = "open" THEN 1 ELSE 0

(* There is one tick at a time, armed, waiting or running, however long the
   strand is busy and whatever a tick throws. *)
OneTick ==
    Cardinality({i \in DOMAIN strand : strand[i] = Tick})
    + Cardinality({i \in DOMAIN current : current[i] = Tick})
    + (IF timer THEN 1 ELSE 0) <= 1

(* Whatever is posted, thrown or closed, no chain of asynchronous operations
   breaks off or forks: neither that of a connection nor that of the ticker. *)
OneUnderWay == OneAtATime /\ OneTick

(* The server as its clients see it. *)
Talk == INSTANCE Conversation WITH open <- {c \in Clients : socket[c] = "open"}

(* The server implements Conversation: requests are answered in order, one at
   a time and once, though files are served by any thread and API requests by
   the strand. *)
Converses == Talk!Spec

(* A request that was read is answered, or its connection is closed, or the
   server ends: also when the client does not take the response.  A handler
   that throws on the strand is answered; one that throws before it, for its
   target, never is, and its connection must not stay open for that. *)
AskedIsAnswered ==
    \A c \in Clients :
        asked[c] > Len(answered[c])
            ~> (asked[c] = Len(answered[c]) \/ socket[c] # "open" \/ ~Running)

(* A client that neither asks nor leaves is hung up. *)
IdleIsClosed ==
    \A c \in Clients :
        c \in reading ~> (c \notin reading \/ ~Running)

(* The ticks go on, whatever clients do and whatever ticks throw. *)
TicksGoOn == SelfUpdate => []<>(current = <<Tick>> \/ ~Running)

(* A client that goes away does not take the server with it. *)
ServerSurvives == server # "dead"

(* While the server runs it takes new connections. *)
KeepsAccepting == Running => accepting

-----------------------------------------------------------------------------
(* Why OneUnderWay and Converses hold: the inductive invariant of the proofs.
   It tells where the operation of each connection is, and its number. *)

ApiJob == [conn : Clients, n : Nat, close : BOOLEAN]

OnStrand == {job.conn : job \in Jobs}
Written == {w.conn : w \in writing}

Shaped ==
    /\ strand \in Seq(ApiJob \cup {Tick}) /\ current \in Seq(ApiJob \cup {Tick})
    /\ writing \subseteq ApiJob
    /\ asked \in [Clients -> Nat] /\ answered \in [Clients -> Seq(Nat)]
    /\ \A c \in Clients : asked[c] + Len(sent[c]) <= MaxRequests[c]

(* No connection is in two places, or twice in one, nor is the ticker. *)
Apart ==
    /\ \A i, j \in DOMAIN strand : strand[i].conn = strand[j].conn => i = j
    /\ \A i \in DOMAIN strand, j \in DOMAIN current : strand[i].conn # current[j].conn
    /\ \A v, w \in writing : v.conn = w.conn => v = w
    /\ Written \cap OnStrand = {} /\ Written \cap reading = {} /\ reading \cap OnStrand = {}
    /\ timer => "ticker" \notin OnStrand

(* The open connections are those with an operation under way. *)
OpenUnderWay ==
    \A c \in Clients : socket[c] = "open" <=> c \in OnStrand \cup Written \cup reading

(* What is under way is the last request that was read, and it alone has not
   been answered. *)
Unanswered(op) == op.n = asked[op.conn] /\ op.n = Len(answered[op.conn]) + 1
InTurn ==
    /\ \A c \in Clients : socket[c] = "none" => asked[c] = 0 /\ answered[c] = << >>
    /\ \A c \in reading : Len(answered[c]) = asked[c]
    /\ \A op \in (Jobs \ {Tick}) \cup writing : Unanswered(op)

HttpInv == TypeOK /\ Shaped /\ Apart /\ OpenUnderWay /\ InTurn
=============================================================================
