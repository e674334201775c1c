-------------------------- MODULE HttpServerProofs --------------------------
(***************************************************************************)
(* No chain of asynchronous operations breaks off or forks, and clients    *)
(* are served as Conversation says, for every number of connections and    *)
(* requests, with ticks, resets, failing accepts and a stop.               *)
(***************************************************************************)
EXTENDS HttpServer, FiniteSetTheorems, TLAPS

-----------------------------------------------------------------------------
(* Queues of handlers. *)

Elements(s) == {s[i] : i \in DOMAIN s}
Distinct(s) == \A i, j \in DOMAIN s : s[i].conn = s[j].conn => i = j

(* A handler is posted: it is the last one. *)
LEMMA Pushed ==
    ASSUME NEW S, NEW s \in Seq(S), NEW e \in S
    PROVE  /\ Append(s, e) \in Seq(S)
           /\ Elements(Append(s, e)) = Elements(s) \cup {e}
           /\ (Distinct(s) /\ \A d \in Elements(s) : d.conn # e.conn)
                => Distinct(Append(s, e))
<1> DEFINE t == Append(s, e)
<1>1. /\ t \in Seq(S) /\ Len(s) \in Nat
      /\ DOMAIN s = 1 .. Len(s) /\ DOMAIN t = 1 .. Len(s) + 1
      /\ \A i \in DOMAIN s : i \in DOMAIN t /\ i # Len(s) + 1 /\ t[i] = s[i]
      /\ t[Len(s) + 1] = e
      /\ \A i \in DOMAIN t : i \in DOMAIN s \/ i = Len(s) + 1
  OBVIOUS
<1> HIDE DEF t
<1>2. Len(s) + 1 \in DOMAIN t
  BY <1>1
<1>3. Elements(t) = Elements(s) \cup {e}
  BY <1>1, <1>2 DEF Elements
<1>4. ASSUME Distinct(s), \A d \in Elements(s) : d.conn # e.conn
      PROVE  Distinct(t)
  BY <1>1, <1>4 DEF Distinct, Elements
<1> QED BY <1>1, <1>3, <1>4 DEF t

(* A handler is taken: it was the first one. *)
LEMMA Popped ==
    ASSUME NEW S, NEW s \in Seq(S), s # << >>
    PROVE  /\ Tail(s) \in Seq(S) /\ Head(s) \in Elements(s)
           /\ Elements(s) = Elements(Tail(s)) \cup {Head(s)}
           /\ Distinct(s) => /\ Distinct(Tail(s))
                             /\ \A d \in Elements(Tail(s)) : d.conn # Head(s).conn
<1> DEFINE t == Tail(s)
<1>1. /\ t \in Seq(S) /\ Len(s) \in Nat /\ Len(s) # 0 /\ Head(s) = s[1]
      /\ DOMAIN s = 1 .. Len(s) /\ DOMAIN t = 1 .. Len(s) - 1
      /\ \A i \in DOMAIN t : t[i] = s[i + 1]
  OBVIOUS
<1> HIDE DEF t
<1>2. /\ 1 \in DOMAIN s
      /\ \A i \in DOMAIN t : i + 1 \in DOMAIN s /\ i + 1 # 1 /\ i \in Int
      /\ \A i \in DOMAIN s : i = 1 \/ (i - 1 \in DOMAIN t /\ t[i - 1] = s[i])
  BY <1>1
<1>3. Elements(s) = Elements(t) \cup {Head(s)}
  <2>1. ASSUME NEW i \in DOMAIN s PROVE s[i] \in Elements(t) \cup {Head(s)}
    <3>1. CASE i = 1
      BY <1>1, <3>1
    <3>2. CASE i - 1 \in DOMAIN t /\ t[i - 1] = s[i]
      BY <3>2 DEF Elements
    <3> QED BY <1>2, <3>1, <3>2
  <2>2. \A i \in DOMAIN t : t[i] \in Elements(s)
    BY <1>1, <1>2 DEF Elements
  <2>3. Head(s) \in Elements(s)
    BY <1>1, <1>2 DEF Elements
  <2> QED BY <2>1, <2>2, <2>3 DEF Elements
<1>4. ASSUME Distinct(s)
      PROVE  Distinct(t) /\ \A d \in Elements(t) : d.conn # Head(s).conn
  <2>1. \A i, j \in DOMAIN s : s[i].conn = s[j].conn => i = j
    BY <1>4 DEF Distinct
  <2>2. ASSUME NEW i \in DOMAIN t PROVE t[i].conn # Head(s).conn
    <3>1. t[i] = s[i + 1] /\ Head(s) = s[1]
      BY <1>1
    <3>2. i + 1 \in DOMAIN s /\ 1 \in DOMAIN s /\ i + 1 # 1
      BY <1>2
    <3>3. s[i + 1].conn # s[1].conn
      BY <2>1, <3>2
    <3> QED BY <3>1, <3>3
  <2>3. ASSUME NEW i \in DOMAIN t, NEW j \in DOMAIN t, t[i].conn = t[j].conn
        PROVE  i = j
    <3>1. i + 1 = j + 1
      BY <1>1, <1>2, <2>1, <2>3
    <3> QED BY <1>2, <3>1
  <2> QED BY <2>2, <2>3 DEF Distinct, Elements
<1> QED BY <1>1, <1>3, <1>4 DEF t, Elements

(* What runs is nothing or one handler. *)
LEMMA Lone ==
    ASSUME NEW e PROVE Elements(<<e>>) = {e} /\ Elements(<< >>) = {}
BY DEF Elements

-----------------------------------------------------------------------------
(* The invariant, in terms of the sets of handlers. *)

Waiting == Elements(strand)
Begun == Elements(current)

LEMMA JobsAreElements == Jobs = Waiting \cup Begun
BY DEF Jobs, Waiting, Begun, Elements

LEMMA ApartAsSets ==
    Apart <=> /\ Distinct(strand)
              /\ \A v \in Waiting, w \in Begun : v.conn # w.conn
              /\ \A v, w \in writing : v.conn = w.conn => v = w
              /\ Written \cap OnStrand = {} /\ Written \cap reading = {}
              /\ reading \cap OnStrand = {}
              /\ timer => "ticker" \notin OnStrand
BY DEF Apart, Distinct, Waiting, Begun, Elements

(* What the invariant says of the handlers. *)
LEMMA JobTypes ==
    ASSUME Shaped
    PROVE  /\ \A job \in Jobs : job \in ApiJob \/ job = Tick
           /\ \A job \in Jobs : job.conn = "ticker" <=> job = Tick
           /\ \A job \in Jobs : job # Tick => job.conn \in Clients
           /\ Written \subseteq Clients
<1>1. \A job \in Jobs : job \in ApiJob \/ job = Tick
  BY DEF Shaped, Jobs
<1>2. Tick.conn = "ticker" /\ \A op \in ApiJob : op.conn \in Clients /\ op.conn # "ticker"
  BY HttpAssumption DEF Tick, ApiJob
<1> QED BY <1>1, <1>2 DEF Shaped, Written

(* One handler runs, or none does. *)
LEMMA AtMostOneBegun ==
    ASSUME TypeOK, Shaped
    PROVE  current = << >> \/ \E job \in Begun : current = <<job>> /\ Begun = {job}
<1>1. current \in Seq(ApiJob \cup {Tick}) /\ Len(current) <= 1 /\ Len(current) \in Nat
  BY DEF TypeOK, Shaped
<1>2. CASE Len(current) = 0
  BY <1>1, <1>2
<1>3. CASE Len(current) = 1
  <2>1. current = <<current[1]>>
    BY <1>1, <1>3
  <2> QED BY <2>1, Lone DEF Begun
<1>4. Len(current) = 0 \/ Len(current) = 1
  <2> DEFINE n == Len(current)
  <2>1. n \in Nat /\ n <= 1
    BY <1>1
  <2> HIDE DEF n
  <2>2. n = 0 \/ n = 1
    BY <2>1
  <2> QED BY <2>2 DEF n
<1> QED BY <1>2, <1>3, <1>4

(* The types that are left to prove of a step. *)
Kept ==
    /\ Shaped
    /\ server \in {"running", "stopped", "dead"}
    /\ main \in BOOLEAN /\ accepting \in BOOLEAN /\ timer \in BOOLEAN
    /\ socket \in [Clients -> {"none", "open", "closed"}]
    /\ sent \in [Clients -> Seq(Request)]
    /\ fin \subseteq Clients /\ reading \subseteq Clients /\ expired \subseteq Clients
    /\ Len(current) <= 1

LEMMA TypesOfShape == Kept => TypeOK
<1> SUFFICES ASSUME Kept PROVE TypeOK
  OBVIOUS
<1>1. \A job \in Jobs : job = Tick \/ job \in [conn : Clients, n : Nat, close : BOOLEAN]
  BY JobTypes DEF ApiJob, Kept
<1>2. \A c \in Clients : asked[c] \in 0 .. MaxRequests[c]
  <2> TAKE c \in Clients
  <2>1. /\ asked[c] \in Nat /\ MaxRequests[c] \in Nat /\ Len(sent[c]) \in Nat
        /\ asked[c] + Len(sent[c]) <= MaxRequests[c]
    BY HttpAssumption DEF Shaped, Kept
  <2> QED BY <2>1
<1> QED BY <1>1, <1>2 DEF TypeOK, Shaped, ApiJob, Kept

(* The same of the next state. *)
LEMMA NextViews ==
    /\ Kept' => TypeOK'
    /\ Jobs' = Waiting' \cup Begun'
    /\ Apart' <=> /\ Distinct(strand')
                  /\ \A v \in Waiting', w \in Begun' : v.conn # w.conn
                  /\ \A v, w \in writing' : v.conn = w.conn => v = w
                  /\ Written' \cap OnStrand' = {} /\ Written' \cap reading' = {}
                  /\ reading' \cap OnStrand' = {}
                  /\ timer' => "ticker" \notin OnStrand'
<1>1. (Kept => TypeOK)'
  BY TypesOfShape, PTL
<1>2. Jobs' = Waiting' \cup Begun'
  BY DEF Jobs, Waiting, Begun, Elements
<1> QED BY <1>1, <1>2 DEF Apart, Distinct, Waiting, Begun, Elements

-----------------------------------------------------------------------------
(* Every step keeps the invariant. *)

LEMMA InitHttpInv == Init => HttpInv
<1> SUFFICES ASSUME Init PROVE HttpInv
  OBVIOUS
<1>1. Jobs = {} /\ OnStrand = {} /\ Written = {}
  BY DEF Init, Jobs, OnStrand, Written
<1>2. Shaped
  BY HttpAssumption DEF Init, Shaped
<1>3. TypeOK
  BY <1>2, TypesOfShape, HttpAssumption DEF Init, Kept
<1>4. Apart
  BY <1>1 DEF Init, Apart
<1>5. OpenUnderWay /\ InTurn
  BY <1>1 DEF Init, OpenUnderWay, InTurn
<1> QED BY <1>2, <1>3, <1>4, <1>5 DEF HttpInv

(* Steps that leave the operations alone. *)
LEMMA RestHttpInv ==
    ASSUME HttpInv, TypeOK',
           UNCHANGED <<strandVars, writing, reading, socket, historyVars, timer>>,
           \A c \in Clients : asked[c] + Len(sent'[c]) <= MaxRequests[c]
    PROVE  HttpInv'
<1>1. Jobs' = Jobs /\ OnStrand' = OnStrand /\ Written' = Written
  BY DEF Jobs, OnStrand, Written, strandVars
<1>2. Shaped'
  BY DEF HttpInv, Shaped, strandVars, historyVars
<1>3. Apart'
  BY <1>1 DEF HttpInv, Apart, strandVars
<1>4. OpenUnderWay' /\ InTurn'
  BY <1>1 DEF HttpInv, OpenUnderWay, InTurn, Unanswered, historyVars
<1> QED BY <1>2, <1>3, <1>4 DEF HttpInv

LEMMA SendHttpInv ==
    ASSUME HttpInv, NEW c \in Clients, NEW r \in Request, Send(c, r)
    PROVE  HttpInv'
<1>1. sent' = [sent EXCEPT ![c] = Append(sent[c], r)] /\ sent[c] \in Seq(Request)
  BY DEF Send, HttpInv, TypeOK
<1>2. Len(Append(sent[c], r)) = Len(sent[c]) + 1 /\ Append(sent[c], r) \in Seq(Request)
  BY <1>1
<1>3. sent' \in [Clients -> Seq(Request)]
  BY <1>1, <1>2 DEF HttpInv, TypeOK
<1>4. ASSUME NEW d \in Clients PROVE asked[d] + Len(sent'[d]) <= MaxRequests[d]
  <2>1. CASE d = c
    <3>1. sent'[c] = Append(sent[c], r) /\ asked[c] + Len(sent[c]) < MaxRequests[c]
      BY <1>1 DEF HttpInv, TypeOK, Send
    <3>2. asked[c] \in Nat /\ Len(sent[c]) \in Nat /\ MaxRequests[c] \in Nat
      BY <1>1, HttpAssumption DEF HttpInv, Shaped
    <3> QED BY <1>2, <2>1, <3>1, <3>2
  <2>2. CASE d # c
    BY <1>1, <2>2 DEF HttpInv, TypeOK, Shaped
  <2> QED BY <2>1, <2>2
<1>5. TypeOK'
  BY <1>3 DEF HttpInv, TypeOK, Send, Jobs, strandVars, historyVars
<1> QED BY <1>4, <1>5, RestHttpInv DEF Send

(* Clients that leave, deadlines, an error of accept and the signal. *)
LEMMA OutsideHttpInv ==
    ASSUME HttpInv,
           \/ \E c \in Clients : Leave(c) \/ Expire(c)
           \/ OnAcceptError \/ Stop
    PROVE  HttpInv'
<1>1. /\ UNCHANGED <<strandVars, writing, reading, socket, historyVars, timer, sent>>
      /\ server' \in {"running", "stopped", "dead"}
      /\ main' \in BOOLEAN /\ accepting' \in BOOLEAN
      /\ fin' \subseteq Clients /\ expired' \subseteq Clients
  BY DEF HttpInv, TypeOK, Leave, Expire, OnAcceptError, Stop, clientVars, strandVars,
         historyVars
<1>2. TypeOK'
  BY <1>1 DEF HttpInv, TypeOK, Jobs, strandVars, historyVars
<1> QED BY <1>1, <1>2, RestHttpInv DEF HttpInv, Shaped

(* What a step tells of the requests that were read and answered. *)
Counts ==
    /\ asked \in [Clients -> Nat] /\ answered \in [Clients -> Seq(Nat)]
    /\ \A d \in Clients : asked[d] + Len(sent[d]) <= MaxRequests[d]

LEMMA DiesHttpInv ==
    ASSUME HttpInv, Dies, Counts',
           \A c \in Clients : socket[c] = "none" =>
                asked'[c] = asked[c] /\ answered'[c] = answered[c]
    PROVE  HttpInv'
<1>1. Jobs' = {} /\ OnStrand' = {} /\ Written' = {} /\ reading' = {}
  BY DEF Dies, Jobs, OnStrand, Written
<1>2. /\ socket' \in [Clients -> {"none", "closed"}]
      /\ \A c \in Clients : socket'[c] = "none" <=> socket[c] = "none"
  BY DEF Dies
<1>3. Shaped'
  BY DEF Dies, Counts, Shaped
<1>4. TypeOK'
  <2>1. Len(current') <= 1
    BY DEF Dies
  <2>2. sent' \in [Clients -> Seq(Request)]
    BY DEF Dies
  <2>3. socket' \in [Clients -> {"none", "open", "closed"}]
    BY <1>2
  <2> QED BY <1>3, <2>1, <2>2, <2>3, NextViews DEF Dies, Kept
<1>5. Apart'
  BY <1>1 DEF Dies, Apart
<1>6. OpenUnderWay'
  BY <1>1, <1>2 DEF OpenUnderWay
<1>7. InTurn'
  BY <1>1, <1>2 DEF Dies, HttpInv, InTurn
<1> QED BY <1>3, <1>4, <1>5, <1>6, <1>7 DEF HttpInv

-----------------------------------------------------------------------------
(* The API strand. *)

StrandApart ==
    /\ Distinct(strand)
    /\ \A v \in Waiting, w \in Begun : v.conn # w.conn

StrandShaped ==
    /\ strand \in Seq(ApiJob \cup {Tick})
    /\ current \in Seq(ApiJob \cup {Tick})
    /\ Len(current) <= 1

(* A handler of someone who has none there is posted. *)
LEMMA PostedApart ==
    ASSUME HttpInv, NEW job \in ApiJob \cup {Tick}, job.conn \notin OnStrand,
           strand' = Append(strand, job), current' = current
    PROVE  /\ StrandShaped' /\ StrandApart'
           /\ Jobs' = Jobs \cup {job}
           /\ OnStrand' = OnStrand \cup {job.conn}
<1>1. /\ strand \in Seq(ApiJob \cup {Tick}) /\ current \in Seq(ApiJob \cup {Tick})
      /\ Len(current) <= 1
      /\ Distinct(strand) /\ \A v \in Waiting, w \in Begun : v.conn # w.conn
      /\ \A d \in Waiting \cup Begun : d.conn # job.conn
  BY ApartAsSets, JobsAreElements DEF HttpInv, Shaped, TypeOK, OnStrand
<1>2. /\ strand' \in Seq(ApiJob \cup {Tick}) /\ Distinct(strand')
      /\ Waiting' = Waiting \cup {job} /\ Begun' = Begun
  BY <1>1, Pushed DEF Waiting, Begun
<1>3. Jobs' = Jobs \cup {job}
  BY <1>2, JobsAreElements, NextViews
<1> QED BY <1>1, <1>2, <1>3 DEF StrandShaped, StrandApart, OnStrand

(* The next one begins. *)
LEMMA BeginApart ==
    ASSUME HttpInv, Begin
    PROVE  /\ StrandShaped' /\ StrandApart'
           /\ Jobs' = Jobs /\ OnStrand' = OnStrand
<1>1. strand \in Seq(ApiJob \cup {Tick}) /\ Distinct(strand)
  BY ApartAsSets DEF HttpInv, Shaped
<1>2. /\ current = << >> /\ strand # << >>
      /\ current' = <<Head(strand)>> /\ strand' = Tail(strand)
  BY DEF Begin
<1>3. /\ strand' \in Seq(ApiJob \cup {Tick}) /\ Distinct(strand')
      /\ Waiting = Waiting' \cup {Head(strand)} /\ Head(strand) \in Waiting
      /\ \A d \in Waiting' : d.conn # Head(strand).conn
  BY <1>1, <1>2, Popped DEF Waiting
<1>4. Begun = {} /\ Begun' = {Head(strand)}
  BY <1>2, Lone DEF Begun
<1>5. Jobs' = Jobs
  BY <1>3, <1>4, JobsAreElements, NextViews
<1>6. Len(current') <= 1 /\ current' \in Seq(ApiJob \cup {Tick})
  <2>1. Head(strand) \in ApiJob \cup {Tick}
    BY <1>1, <1>2
  <2> HIDE DEF ApiJob
  <2> QED BY <1>2, <2>1
<1> QED BY <1>3, <1>4, <1>5, <1>6 DEF StrandShaped, StrandApart, OnStrand

(* The one that runs ends. *)
LEMMA EndsApart ==
    ASSUME HttpInv, NEW job, Ends(job), strand' = strand
    PROVE  /\ StrandShaped' /\ StrandApart'
           /\ job \in Jobs /\ Jobs' = Jobs \ {job}
           /\ OnStrand' = OnStrand \ {job.conn} /\ job.conn \in OnStrand
<1>1. /\ strand \in Seq(ApiJob \cup {Tick}) /\ Distinct(strand)
      /\ \A v \in Waiting, w \in Begun : v.conn # w.conn
  BY ApartAsSets DEF HttpInv, Shaped
<1>2. /\ Begun = {job} /\ Begun' = {} /\ Waiting' = Waiting
      /\ current' = << >>
  BY Lone DEF Ends, Begun, Waiting
<1>3. Jobs = Waiting \cup {job} /\ Jobs' = Waiting
  BY <1>2, JobsAreElements, NextViews
<1>4. \A v \in Waiting : v.conn # job.conn
  BY <1>1, <1>2
<1>5. current' \in Seq(ApiJob \cup {Tick}) /\ Len(current') <= 1
  BY <1>2
<1> QED BY <1>1, <1>2, <1>3, <1>4, <1>5 DEF StrandShaped, StrandApart, OnStrand

LEMMA RestsApart ==
    ASSUME HttpInv, UNCHANGED strandVars
    PROVE  /\ StrandShaped' /\ StrandApart'
           /\ Jobs' = Jobs /\ OnStrand' = OnStrand
BY ApartAsSets DEF HttpInv, Shaped, TypeOK, StrandShaped, StrandApart, strandVars,
                   Jobs, OnStrand, Waiting, Begun

(* Steps of the strand and the ticker that concern no connection. *)
LEMMA StrandHttpInv ==
    ASSUME HttpInv, StrandShaped', StrandApart',
           UNCHANGED <<server, main, accepting, socket, clientVars, reading, expired, writing,
                       historyVars>>,
           Jobs' \ {Tick} = Jobs \ {Tick},
           OnStrand' \ {"ticker"} = OnStrand \ {"ticker"},
           timer' \in BOOLEAN, timer' => "ticker" \notin OnStrand'
    PROVE  HttpInv'
<1>1. Written' = Written /\ reading' = reading
  BY DEF Written
<1>2. "ticker" \notin Clients /\ Written \subseteq Clients /\ reading \subseteq Clients
  BY JobTypes, HttpAssumption DEF HttpInv, TypeOK
<1>3. Shaped'
  BY DEF HttpInv, Shaped, StrandShaped, clientVars, historyVars
<1>4. TypeOK'
  BY <1>3, NextViews DEF Kept, HttpInv, TypeOK, StrandShaped, clientVars
<1>5. Apart'
  BY <1>1, <1>2, NextViews, ApartAsSets DEF HttpInv, StrandApart
<1>6. OpenUnderWay'
  BY <1>1, <1>2 DEF HttpInv, OpenUnderWay
<1>7. InTurn'
  BY DEF HttpInv, InTurn, Unanswered, historyVars
<1> QED BY <1>3, <1>4, <1>5, <1>6, <1>7 DEF HttpInv

LEMMA BeginHttpInv ==
    ASSUME HttpInv, Begin
    PROVE  HttpInv'
<1>1. Jobs' = Jobs /\ OnStrand' = OnStrand /\ StrandShaped' /\ StrandApart'
  BY BeginApart
<1>2. timer' \in BOOLEAN /\ (timer' => "ticker" \notin OnStrand')
  BY <1>1 DEF Begin, HttpInv, TypeOK, Apart
<1> QED BY <1>1, <1>2, StrandHttpInv DEF Begin

LEMMA OnTickHttpInv ==
    ASSUME HttpInv, OnTick
    PROVE  HttpInv'
<1>1. Ends(Tick) /\ strand' = strand /\ timer' = TRUE /\ Tick.conn = "ticker"
  BY DEF OnTick, Tick
<1>2. /\ StrandShaped' /\ StrandApart'
      /\ Jobs' = Jobs \ {Tick} /\ OnStrand' = OnStrand \ {"ticker"}
  BY <1>1, EndsApart
<1> QED BY <1>1, <1>2, StrandHttpInv DEF OnTick

LEMMA TimerExpiresHttpInv ==
    ASSUME HttpInv, TimerExpires
    PROVE  HttpInv'
<1>1. /\ strand' = Append(strand, Tick) /\ current' = current /\ timer' = FALSE
      /\ Tick \in ApiJob \cup {Tick} /\ Tick.conn = "ticker"
      /\ "ticker" \notin OnStrand
  BY DEF TimerExpires, TimerDone, Tick, HttpInv, Apart
<1>2. /\ StrandShaped' /\ StrandApart'
      /\ Jobs' = Jobs \cup {Tick} /\ OnStrand' = OnStrand \cup {"ticker"}
  BY <1>1, PostedApart
<1> QED BY <1>1, <1>2, StrandHttpInv DEF TimerExpires

-----------------------------------------------------------------------------
(* Connections. *)

(* The operation of one connection is replaced by the next one, or by none
   when it is closed. *)
LEMMA MovedApart ==
    ASSUME HttpInv, NEW c \in Clients, StrandShaped', StrandApart', timer' = timer,
           OnStrand' \ {c} = OnStrand \ {c},
           Written' \ {c} = Written \ {c},
           reading' \ {c} = reading \ {c},
           ~ (c \in OnStrand' /\ c \in Written'),
           ~ (c \in Written' /\ c \in reading'),
           ~ (c \in reading' /\ c \in OnStrand'),
           \A v, w \in writing' : v.conn = w.conn => v = w,
           socket'[c] = "open" <=> c \in OnStrand' \cup Written' \cup reading',
           \A d \in Clients \ {c} : socket'[d] = socket[d]
    PROVE  Apart' /\ OpenUnderWay'
<1>1. c # "ticker"
  BY HttpAssumption
<1>2. Apart'
  BY <1>1, NextViews, ApartAsSets DEF HttpInv, StrandApart
<1>3. ASSUME NEW d \in Clients
      PROVE  socket'[d] = "open" <=> d \in OnStrand' \cup Written' \cup reading'
  <2>1. CASE d = c
    BY <2>1
  <2>2. CASE d # c
    BY <2>2 DEF HttpInv, OpenUnderWay
  <2> QED BY <2>1, <2>2
<1> QED BY <1>2, <1>3 DEF OpenUnderWay

LEMMA OnAcceptHttpInv ==
    ASSUME HttpInv, NEW c \in Clients, OnAccept(c)
    PROVE  HttpInv'
<1>1. /\ StrandShaped' /\ StrandApart' /\ Jobs' = Jobs /\ OnStrand' = OnStrand
      /\ Written' = Written /\ reading' = reading \cup {c}
      /\ c \notin OnStrand \cup Written \cup reading
  <2>1. UNCHANGED strandVars /\ UNCHANGED writing
    BY DEF OnAccept
  <2>2. socket[c] = "none" /\ reading' = reading \cup {c}
    BY DEF OnAccept, Read
  <2> QED BY <2>1, <2>2, RestsApart DEF HttpInv, OpenUnderWay, Written
<1>2. /\ socket' = [socket EXCEPT ![c] = "open"]
      /\ socket' \in [Clients -> {"none", "open", "closed"}]
      /\ socket'[c] = "open" /\ \A d \in Clients \ {c} : socket'[d] = socket[d]
  BY DEF OnAccept, HttpInv, TypeOK
<1>3. Shaped'
  BY <1>1 DEF OnAccept, HttpInv, Shaped, StrandShaped, clientVars, historyVars
<1>4. TypeOK'
  BY <1>1, <1>2, <1>3, NextViews
  DEF Kept, OnAccept, Read, HttpInv, TypeOK, StrandShaped, clientVars
<1>5. Apart' /\ OpenUnderWay'
  <2>1. \A v, w \in writing' : v.conn = w.conn => v = w
    BY DEF OnAccept, HttpInv, Apart
  <2>2. timer' = timer
    BY DEF OnAccept
  <2> QED BY <1>1, <1>2, <2>1, <2>2, MovedApart
<1>6. InTurn'
  <2>1. UNCHANGED <<asked, answered, writing>> /\ Len(answered[c]) = asked[c]
    BY DEF OnAccept, HttpInv, InTurn, historyVars
  <2> QED BY <1>1, <1>2, <2>1 DEF HttpInv, InTurn, Unanswered
<1> QED BY <1>3, <1>4, <1>5, <1>6 DEF HttpInv

(* A connection is closed, and with it what it had under way. *)
LEMMA ClosesHttpInv ==
    ASSUME HttpInv, NEW c \in Clients, c \notin OnStrand,
           EndSession(c), UNCHANGED strandVars, timer' = timer,
           writing' \subseteq writing, Written' = Written \ {c}, reading' = reading \ {c},
           server' \in {"running", "stopped", "dead"}, main' \in BOOLEAN,
           accepting' \in BOOLEAN, fin' \subseteq Clients,
           sent' \in [Clients -> Seq(Request)], Counts',
           \A d \in Clients \ {c} : asked'[d] = asked[d] /\ answered'[d] = answered[d]
    PROVE  HttpInv'
<1>1. StrandShaped' /\ StrandApart' /\ Jobs' = Jobs /\ OnStrand' = OnStrand
  BY RestsApart
<1>2. /\ socket' = [socket EXCEPT ![c] = "closed"]
      /\ socket' \in [Clients -> {"none", "open", "closed"}]
      /\ socket'[c] = "closed" /\ \A d \in Clients \ {c} : socket'[d] = socket[d]
      /\ expired' \subseteq Clients /\ reading' \subseteq Clients
  BY DEF EndSession, HttpInv, TypeOK
<1>3. Shaped'
  BY <1>1 DEF HttpInv, Counts, Shaped, StrandShaped
<1>4. TypeOK'
  BY <1>1, <1>2, <1>3, NextViews DEF Kept, HttpInv, TypeOK, StrandShaped
<1>5. Apart' /\ OpenUnderWay'
  <2>1. \A v, w \in writing' : v.conn = w.conn => v = w
    BY DEF HttpInv, Apart
  <2> QED BY <1>1, <1>2, <2>1, MovedApart
<1>6. InTurn'
  <2>1. ASSUME NEW op \in (Jobs \ {Tick}) \cup writing' PROVE Unanswered(op)'
    <3>1. op.conn # c /\ op.conn \in Clients
      BY <2>1, JobTypes DEF HttpInv, OnStrand, Written
    <3>2. Unanswered(op)
      BY <2>1 DEF HttpInv, InTurn
    <3> QED BY <3>1, <3>2 DEF Unanswered
  <2>2. \A d \in reading' : Len(answered'[d]) = asked'[d]
    BY <1>2 DEF HttpInv, InTurn
  <2>3. \A d \in Clients : socket'[d] = "none" => asked'[d] = 0 /\ answered'[d] = << >>
    BY <1>2 DEF HttpInv, InTurn
  <2> QED BY <1>1, <2>1, <2>2, <2>3 DEF InTurn
<1> QED BY <1>3, <1>4, <1>5, <1>6 DEF HttpInv

(* What the closing of a connection takes from its read. *)
LEMMA ReadIsAlone ==
    ASSUME HttpInv, NEW c \in reading
    PROVE  c \in Clients /\ c \notin OnStrand /\ Written = Written \ {c}
BY DEF HttpInv, TypeOK, Apart

LEMMA CountsOfInv == HttpInv => Counts
BY DEF HttpInv, Shaped, Counts

LEMMA CountsKept ==
    HttpInv /\ UNCHANGED historyVars /\ (UNCHANGED sent \/ Dies) => Counts'
<1> SUFFICES ASSUME HttpInv, UNCHANGED historyVars, UNCHANGED sent \/ Dies PROVE Counts'
  OBVIOUS
<1>1. Counts /\ UNCHANGED <<asked, answered>>
  BY CountsOfInv DEF historyVars
<1>2. CASE UNCHANGED sent
  BY <1>1, <1>2 DEF Counts
<1>3. CASE Dies
  <2>1. ASSUME NEW d \in Clients PROVE asked[d] + Len(sent'[d]) <= MaxRequests[d]
    <3>1. Len(sent'[d]) = 0 /\ Len(sent[d]) \in Nat
      BY <1>3 DEF Dies, HttpInv, TypeOK
    <3>2. asked[d] \in Nat /\ MaxRequests[d] \in Nat
          /\ asked[d] + Len(sent[d]) <= MaxRequests[d]
      BY <1>1, HttpAssumption DEF Counts
    <3> QED BY <3>1, <3>2
  <2> QED BY <1>1, <2>1 DEF Counts
<1> QED BY <1>2, <1>3

LEMMA OnAcceptThrowsHttpInv ==
    ASSUME HttpInv, NEW c \in Clients, OnAcceptThrows(c)
    PROVE  HttpInv'
<1>1. CASE Dies
  BY <1>1, CountsKept, DiesHttpInv DEF OnAcceptThrows, historyVars
<1>2. CASE MainLeaves /\ ~Dies
  <2>1. /\ accepting' = FALSE /\ EndSession(c) /\ socket[c] = "none"
        /\ UNCHANGED <<server, timer, strandVars, clientVars, reading, writing, historyVars>>
        /\ main' = FALSE
    BY <1>2 DEF OnAcceptThrows, MainLeaves
  <2>2. c \notin OnStrand /\ c \notin Written /\ c \notin reading
    BY <2>1 DEF HttpInv, OpenUnderWay
  <2>3. Counts' /\ Written' = Written
    BY <2>1, CountsKept DEF clientVars, Written
  <2> QED BY <2>1, <2>2, <2>3, ClosesHttpInv DEF clientVars, historyVars, HttpInv, TypeOK
<1> QED BY <1>1, <1>2 DEF OnAcceptThrows

(* A session that ends after its last read, with or without an exception. *)
LEMMA OnReadEndsHttpInv ==
    ASSUME HttpInv, NEW c \in Clients, OnReadEnds(c) \/ CloseThrows(c)
    PROVE  HttpInv'
<1>1. CASE Dies
  <2>1. UNCHANGED historyVars
    BY DEF OnReadEnds, CloseThrows
  <2> QED BY <1>1, <2>1, CountsKept, DiesHttpInv DEF historyVars
<1>2. CASE ~Dies
  <2>1. /\ c \in reading /\ reading' = reading \ {c} /\ EndSession(c)
        /\ UNCHANGED <<server, timer, accepting, strandVars, clientVars, writing, historyVars>>
        /\ main' \in BOOLEAN
    BY <1>2 DEF OnReadEnds, CloseThrows, MainLeaves, HttpInv, TypeOK
  <2>2. c \notin OnStrand /\ Written = Written \ {c}
    BY <2>1, ReadIsAlone
  <2>3. Counts' /\ Written' = Written
    BY <2>1, CountsKept DEF clientVars, Written
  <2> QED BY <2>1, <2>2, <2>3, ClosesHttpInv DEF clientVars, historyVars, HttpInv, TypeOK
<1> QED BY <1>1, <1>2

(* A response is not being written any more. *)
LEMMA WrittenOff ==
    ASSUME HttpInv, NEW w \in writing, writing' = writing \ {w}
    PROVE  /\ Written' = Written \ {w.conn} /\ w.conn \in Clients
           /\ w.conn \notin OnStrand \cup reading
           /\ \A v, u \in writing' : v.conn = u.conn => v = u
           /\ Unanswered(w)
<1>1. /\ \A v, u \in writing : v.conn = u.conn => v = u
      /\ Written \cap OnStrand = {} /\ Written \cap reading = {}
      /\ Written \subseteq Clients
  BY JobTypes DEF HttpInv, Apart
<1>2. Written' = Written \ {w.conn}
  BY <1>1 DEF Written
<1> QED BY <1>1, <1>2 DEF Written, HttpInv, InTurn

LEMMA OnWriteFailsHttpInv ==
    ASSUME HttpInv, NEW w \in writing, OnWriteFails(w)
    PROVE  HttpInv'
<1>1. /\ writing' = writing \ {w} /\ EndSession(w.conn)
      /\ UNCHANGED <<server, main, accepting, clientVars, reading, strandVars, timer,
                     historyVars>>
  BY DEF OnWriteFails
<1>2. /\ Written' = Written \ {w.conn} /\ w.conn \in Clients
      /\ w.conn \notin OnStrand \cup reading
  BY <1>1, WrittenOff
<1>3. Counts'
  BY <1>1, CountsKept DEF clientVars
<1> QED BY <1>1, <1>2, <1>3, ClosesHttpInv DEF clientVars, historyVars, HttpInv, TypeOK

(* The answer is counted, and nobody else's. *)
LEMMA AnswerCounted ==
    ASSUME HttpInv, NEW w \in writing,
           answered' = [answered EXCEPT ![w.conn] = Append(@, w.n)], asked' = asked
    PROVE  /\ answered' \in [Clients -> Seq(Nat)]
           /\ Len(answered'[w.conn]) = asked[w.conn]
           /\ \A d \in Clients \ {w.conn} : answered'[d] = answered[d]
           /\ UNCHANGED sent \/ Dies => Counts'
<1>1. /\ w.conn \in Clients /\ w.n \in Nat /\ answered \in [Clients -> Seq(Nat)]
      /\ w.n = asked[w.conn] /\ w.n = Len(answered[w.conn]) + 1
  BY JobTypes DEF HttpInv, Shaped, InTurn, Unanswered, ApiJob, Written
<1>2. /\ Append(answered[w.conn], w.n) \in Seq(Nat)
      /\ Len(Append(answered[w.conn], w.n)) = Len(answered[w.conn]) + 1
  BY <1>1
<1>3. /\ answered' \in [Clients -> Seq(Nat)]
      /\ answered'[w.conn] = Append(answered[w.conn], w.n)
      /\ \A d \in Clients \ {w.conn} : answered'[d] = answered[d]
  BY <1>1, <1>2
<1>4. ASSUME UNCHANGED sent \/ Dies, NEW d \in Clients
      PROVE  asked[d] + Len(sent'[d]) <= MaxRequests[d]
  <2>1. /\ asked[d] \in Nat /\ Len(sent[d]) \in Nat /\ MaxRequests[d] \in Nat
        /\ asked[d] + Len(sent[d]) <= MaxRequests[d]
    <3>1. sent \in [Clients -> Seq(Request)]
      BY DEF HttpInv, TypeOK
    <3>2. Len(sent[d]) \in Nat
      BY <3>1
    <3> QED BY <3>2, CountsOfInv, HttpAssumption DEF Counts
  <2>2. sent'[d] = sent[d] \/ Len(sent'[d]) = 0
    BY <1>4 DEF Dies
  <2> QED BY <2>1, <2>2
<1> QED BY <1>1, <1>2, <1>3, <1>4 DEF Counts, HttpInv, Shaped

LEMMA OnWriteThrowsHttpInv ==
    ASSUME HttpInv, NEW w \in writing, OnWriteThrows(w)
    PROVE  HttpInv'
<1>1. answered' = [answered EXCEPT ![w.conn] = Append(@, w.n)] /\ asked' = asked
  BY DEF OnWriteThrows
<1>2. w.conn \in Clients /\ socket[w.conn] = "open"
  BY JobTypes DEF HttpInv, OpenUnderWay, Written
<1>3. \A d \in Clients \ {w.conn} : answered'[d] = answered[d]
  BY <1>1, AnswerCounted
<1>4. UNCHANGED sent \/ Dies => Counts'
  BY <1>1, AnswerCounted
<1>5. CASE Dies
  <2>1. \A d \in Clients : socket[d] = "none" => answered'[d] = answered[d]
    BY <1>2, <1>3
  <2> QED BY <1>1, <1>4, <1>5, <2>1, DiesHttpInv
<1>6. CASE ~Dies
  <2>1. /\ writing' = writing \ {w} /\ EndSession(w.conn)
        /\ UNCHANGED <<server, timer, accepting, clientVars, reading, strandVars>>
        /\ main' = FALSE
    BY <1>6 DEF OnWriteThrows, MainLeaves
  <2>2. Written' = Written \ {w.conn} /\ w.conn \notin OnStrand \cup reading
    BY <2>1, WrittenOff
  <2>3. Counts' /\ UNCHANGED sent /\ UNCHANGED fin
    BY <1>4, <2>1 DEF clientVars
  <2> QED BY <1>1, <1>2, <1>3, <2>1, <2>2, <2>3, ClosesHttpInv DEF HttpInv, TypeOK
<1> QED BY <1>5, <1>6

LEMMA OnWriteHttpInv ==
    ASSUME HttpInv, NEW w \in writing, OnWrite(w)
    PROVE  HttpInv'
<1> DEFINE c == w.conn
<1>1. /\ writing' = writing \ {w} /\ UNCHANGED strandVars /\ timer' = timer
      /\ answered' = [answered EXCEPT ![c] = Append(@, w.n)] /\ asked' = asked
      /\ sent' = sent
  BY DEF OnWrite, clientVars
<1>2. /\ Written' = Written \ {c} /\ c \in Clients /\ c \notin OnStrand \cup reading
      /\ \A v, u \in writing' : v.conn = u.conn => v = u
      /\ w.n = asked[c] /\ w.n = Len(answered[c]) + 1 /\ w.n \in Nat
  BY <1>1, WrittenOff DEF Unanswered, HttpInv, Shaped
<1>3. StrandShaped' /\ StrandApart' /\ Jobs' = Jobs /\ OnStrand' = OnStrand
  BY <1>1, RestsApart
<1>4. /\ answered' \in [Clients -> Seq(Nat)]
      /\ Len(answered'[c]) = asked[c]
      /\ \A d \in Clients \ {c} : answered'[d] = answered[d]
  BY <1>1, AnswerCounted
<1>5. \/ w.close /\ socket' = [socket EXCEPT ![c] = "closed"] /\ reading' = reading
      \/ socket' = socket /\ reading' = reading \cup {c}
  BY DEF OnWrite, EndSession, Read
<1>6. /\ expired' \subseteq Clients
      /\ UNCHANGED <<server, main, accepting, fin>>
  BY DEF OnWrite, EndSession, Read, HttpInv, TypeOK, clientVars
<1>7. socket[c] = "open" /\ c \in Written
  BY <1>2 DEF HttpInv, OpenUnderWay, Written, c
<1> HIDE DEF c
<1>8. /\ socket' \in [Clients -> {"none", "open", "closed"}]
      /\ \A d \in Clients \ {c} : socket'[d] = socket[d]
      /\ socket'[c] = "open" <=> c \in reading'
      /\ reading' \subseteq Clients /\ reading' \ {c} = reading \ {c}
      /\ socket'[c] # "none"
  BY <1>2, <1>5, <1>7 DEF HttpInv, TypeOK
<1>9. Shaped'
  BY <1>1, <1>3, <1>4 DEF HttpInv, Shaped, StrandShaped
<1>10. TypeOK'
  BY <1>1, <1>3, <1>6, <1>8, <1>9, NextViews DEF Kept, HttpInv, TypeOK, StrandShaped
<1>11. Apart' /\ OpenUnderWay'
  BY <1>1, <1>2, <1>3, <1>8, MovedApart
<1>12. InTurn'
  <2>1. ASSUME NEW op \in (Jobs \ {Tick}) \cup writing, op # w PROVE Unanswered(op)'
    <3>1. op.conn # c
      BY <1>2, <2>1 DEF HttpInv, Apart, Written, OnStrand, c
    <3>2. op.conn \in Clients /\ Unanswered(op)
      BY <2>1, JobTypes DEF HttpInv, InTurn, Written
    <3> QED BY <1>1, <1>4, <3>1, <3>2 DEF Unanswered
  <2>2. \A op \in (Jobs \ {Tick}) \cup writing' : Unanswered(op)'
    <3>1. w \notin Jobs
      BY <1>2 DEF OnStrand, c
    <3> QED BY <1>1, <2>1, <3>1
  <2>3. \A d \in reading' : Len(answered'[d]) = asked[d]
    BY <1>4, <1>8 DEF HttpInv, InTurn
  <2>4. \A d \in Clients : socket'[d] = "none" => asked[d] = 0 /\ answered'[d] = << >>
    BY <1>4, <1>8 DEF HttpInv, InTurn
  <2> QED BY <1>1, <1>3, <2>2, <2>3, <2>4 DEF InTurn
<1> QED BY <1>9, <1>10, <1>11, <1>12 DEF HttpInv

(* A response begins to be written. *)
LEMMA Responded ==
    ASSUME HttpInv, NEW c \in Clients, NEW n \in Nat, NEW close \in BOOLEAN,
           Respond(c, n, close), c \notin Written
    PROVE  /\ writing' \subseteq ApiJob
           /\ Written' = Written \cup {c}
           /\ \A v, w \in writing' : v.conn = w.conn => v = w
           /\ \A w \in writing' : w \in writing \/ (w.conn = c /\ w.n = n)
<1> DEFINE op == [conn |-> c, n |-> n, close |-> close]
<1>1. op \in ApiJob /\ op.conn = c /\ op.n = n
  BY DEF ApiJob
<1>2. writing' = writing \cup {op}
  BY DEF Respond
<1> HIDE DEF op
<1>3. writing \subseteq ApiJob /\ \A v, w \in writing : v.conn = w.conn => v = w
  BY DEF HttpInv, Shaped, Apart
<1>4. \A w \in writing : w.conn # c
  BY DEF Written
<1>5. Written' = Written \cup {c}
  BY <1>1, <1>2 DEF Written
<1> QED BY <1>1, <1>2, <1>3, <1>4, <1>5

LEMMA GetApiResponseHttpInv ==
    ASSUME HttpInv, NEW job, GetApiResponse(job)
    PROVE  HttpInv'
<1> DEFINE c == job.conn
<1>1. /\ job # Tick /\ Ends(job) /\ Respond(c, job.n, job.close)
      /\ UNCHANGED <<server, main, accepting, socket, clientVars, reading, expired, strand,
                     timer, historyVars>>
  BY DEF GetApiResponse, SendAnswer, SendErrorResponse
<1>2. /\ StrandShaped' /\ StrandApart' /\ job \in Jobs /\ Jobs' = Jobs \ {job}
      /\ OnStrand' = OnStrand \ {c} /\ c \in OnStrand
  BY <1>1, EndsApart
<1>3. /\ job \in ApiJob /\ c \in Clients /\ job.n \in Nat /\ job.close \in BOOLEAN
      /\ c \notin Written \cup reading /\ Unanswered(job)
  <2>1. job \in ApiJob
    BY <1>1, <1>2, JobTypes DEF HttpInv
  <2> QED BY <1>1, <1>2, <2>1 DEF ApiJob, HttpInv, Apart, InTurn
<1>4. /\ writing' \subseteq ApiJob /\ Written' = Written \cup {c}
      /\ \A v, w \in writing' : v.conn = w.conn => v = w
      /\ \A w \in writing' : w \in writing \/ (w.conn = c /\ w.n = job.n)
  BY <1>1, <1>3, Responded
<1>5. socket[c] = "open"
  BY <1>2, <1>3 DEF HttpInv, OpenUnderWay
<1>6. Shaped'
  BY <1>1, <1>2, <1>4 DEF HttpInv, Shaped, StrandShaped, clientVars, historyVars
<1>7. TypeOK'
  BY <1>1, <1>2, <1>6, NextViews DEF Kept, HttpInv, TypeOK, StrandShaped, clientVars
<1>8. Apart' /\ OpenUnderWay'
  <2> HIDE DEF c
  <2>1. timer' = timer /\ socket' = socket /\ reading' = reading
    BY <1>1
  <2> QED BY <1>2, <1>3, <1>4, <1>5, <2>1, MovedApart
<1>9. InTurn'
  <2>1. UNCHANGED <<asked, answered, reading, socket>>
    BY <1>1 DEF historyVars
  <2>2. \A op \in (Jobs' \ {Tick}) \cup writing' : Unanswered(op)'
    BY <1>2, <1>3, <1>4, <2>1 DEF HttpInv, InTurn, Unanswered
  <2> QED BY <2>1, <2>2 DEF HttpInv, InTurn
<1> QED BY <1>6, <1>7, <1>8, <1>9 DEF HttpInv

(* The request that is read is counted, and nobody else's. *)
LEMMA RequestCounted ==
    ASSUME HttpInv, NEW c \in reading, sent[c] # << >>,
           asked' = [asked EXCEPT ![c] = @ + 1], answered' = answered
    PROVE  /\ \A d \in Clients \ {c} : asked'[d] = asked[d]
           /\ Dies => Counts'
           /\ sent' = [sent EXCEPT ![c] = Tail(@)] =>
                 sent' \in [Clients -> Seq(Request)] /\ Counts'
<1>1. /\ c \in Clients /\ asked \in [Clients -> Nat]
      /\ answered \in [Clients -> Seq(Nat)] /\ sent \in [Clients -> Seq(Request)]
      /\ \A d \in Clients : asked[d] + Len(sent[d]) <= MaxRequests[d]
  BY DEF HttpInv, TypeOK, Shaped
<1>2. /\ asked' \in [Clients -> Nat] /\ asked'[c] = asked[c] + 1
      /\ \A d \in Clients \ {c} : asked'[d] = asked[d]
  BY <1>1
<1>3. \A d \in Clients : asked[d] \in Nat /\ Len(sent[d]) \in Nat /\ MaxRequests[d] \in Nat
  BY <1>1, HttpAssumption
<1>4. /\ Tail(sent[c]) \in Seq(Request) /\ Len(Tail(sent[c])) = Len(sent[c]) - 1
      /\ Len(sent[c]) # 0
  BY <1>1
<1>5. ASSUME Dies PROVE Counts'
  <2>1. \A d \in Clients : Len(sent'[d]) = 0
    BY <1>5 DEF Dies
  <2>2. ASSUME NEW d \in Clients PROVE asked'[d] + Len(sent'[d]) <= MaxRequests[d]
    <3>1. CASE d = c
      BY <1>1, <1>2, <1>3, <1>4, <2>1, <3>1
    <3>2. CASE d # c
      BY <1>1, <1>2, <1>3, <2>1, <3>2
    <3> QED BY <3>1, <3>2
  <2> QED BY <1>1, <1>2, <2>2 DEF Counts
<1>6. ASSUME sent' = [sent EXCEPT ![c] = Tail(@)]
      PROVE  sent' \in [Clients -> Seq(Request)] /\ Counts'
  <2>1. /\ sent' \in [Clients -> Seq(Request)]
        /\ Len(sent'[c]) = Len(sent[c]) - 1
        /\ \A d \in Clients \ {c} : sent'[d] = sent[d]
    BY <1>1, <1>4, <1>6
  <2>2. ASSUME NEW d \in Clients PROVE asked'[d] + Len(sent'[d]) <= MaxRequests[d]
    <3>1. CASE d = c
      <4>1. \A a, l \in Nat : (a + 1) + (l - 1) = a + l
        OBVIOUS
      <4> QED BY <1>1, <1>2, <1>3, <2>1, <3>1, <4>1
    <3>2. CASE d # c
      BY <1>1, <1>2, <2>1, <3>2
    <3> QED BY <3>1, <3>2
  <2> QED BY <1>1, <1>2, <2>1, <2>2 DEF Counts
<1> QED BY <1>2, <1>5, <1>6

LEMMA OnReadThrowsHttpInv ==
    ASSUME HttpInv, NEW c \in Clients, OnReadThrows(c)
    PROVE  HttpInv'
<1>1. /\ c \in reading /\ sent[c] # << >>
      /\ asked' = [asked EXCEPT ![c] = @ + 1] /\ answered' = answered
  BY DEF OnReadThrows
<1>2. c \notin OnStrand /\ Written = Written \ {c} /\ socket[c] = "open"
  BY <1>1, ReadIsAlone DEF HttpInv, OpenUnderWay
<1>3. \A d \in Clients \ {c} : asked'[d] = asked[d]
  BY <1>1, RequestCounted
<1>4. CASE Dies
  <2>1. Counts'
    BY <1>1, <1>4, RequestCounted
  <2>2. \A d \in Clients : socket[d] = "none" => asked'[d] = asked[d]
    BY <1>2, <1>3
  <2> QED BY <1>1, <1>4, <2>1, <2>2, DiesHttpInv
<1>5. CASE ~Dies
  <2>1. /\ sent' = [sent EXCEPT ![c] = Tail(@)] /\ reading' = reading \ {c}
        /\ EndSession(c) /\ UNCHANGED <<server, timer, strandVars, accepting, fin, writing>>
        /\ main' = FALSE
    BY <1>5 DEF OnReadThrows, MainLeaves
  <2>2. sent' \in [Clients -> Seq(Request)] /\ Counts'
    BY <1>1, <2>1, RequestCounted
  <2>3. Written' = Written
    BY <2>1 DEF Written
  <2> QED BY <1>1, <1>2, <1>3, <2>1, <2>2, <2>3, ClosesHttpInv DEF HttpInv, TypeOK
<1> QED BY <1>4, <1>5

LEMMA OnReadHttpInv ==
    ASSUME HttpInv, NEW c \in Clients, OnRead(c)
    PROVE  HttpInv'
<1> DEFINE n == asked[c] + 1
           r == Head(sent[c])
<1>1. /\ c \in reading /\ sent[c] # << >> /\ sent[c] \in Seq(Request)
      /\ reading' = reading \ {c} /\ expired' = expired
      /\ sent' = [sent EXCEPT ![c] = Tail(sent[c])]
      /\ asked' = [asked EXCEPT ![c] = n]
      /\ UNCHANGED <<server, main, accepting, socket, fin, current, timer, answered>>
  BY DEF OnRead, ReadDone, HttpInv, TypeOK
<1>2. /\ asked[c] \in Nat /\ n \in Nat /\ Len(answered[c]) = asked[c]
      /\ r \in Request /\ r.close \in BOOLEAN
      /\ Tail(sent[c]) \in Seq(Request) /\ Len(Tail(sent[c])) = Len(sent[c]) - 1
      /\ Len(sent[c]) \in Nat
  <2>1. /\ r \in Request /\ Tail(sent[c]) \in Seq(Request)
        /\ Len(Tail(sent[c])) = Len(sent[c]) - 1 /\ Len(sent[c]) \in Nat
    BY <1>1
  <2>2. r.close \in BOOLEAN
    BY <2>1 DEF Request
  <2>3. asked[c] \in Nat /\ Len(answered[c]) = asked[c]
    BY <1>1 DEF HttpInv, Shaped, InTurn
  <2> QED BY <2>1, <2>2, <2>3
<1>3. c \notin OnStrand \cup Written /\ socket[c] = "open"
  BY <1>1 DEF HttpInv, Apart, OpenUnderWay
<1>4. /\ asked' \in [Clients -> Nat] /\ asked'[c] = n
      /\ \A d \in Clients \ {c} : asked'[d] = asked[d]
  BY <1>1, <1>2 DEF HttpInv, Shaped
<1>5. sent' \in [Clients -> Seq(Request)] /\ Counts'
  BY <1>1, RequestCounted
<1>6. HandleRequest(c, n, r)
  BY DEF OnRead
<1> HIDE DEF n, r
(* Where the request goes. *)
<1>7. /\ StrandShaped' /\ StrandApart'
      /\ writing' \subseteq ApiJob
      /\ \A v, w \in writing' : v.conn = w.conn => v = w
      /\ OnStrand' \ {c} = OnStrand \ {c} /\ Written' \ {c} = Written \ {c}
      /\ c \in OnStrand' \cup Written' /\ ~ (c \in OnStrand' /\ c \in Written')
      /\ \A op \in Jobs' \cup writing' :
            op \in Jobs \cup writing \/ (op.conn = c /\ op.n = n)
  <2>1. CASE strand' = Append(strand, Job(c, n, r)) /\ writing' = writing
    <3>1. /\ Job(c, n, r) \in ApiJob /\ Job(c, n, r).conn = c /\ Job(c, n, r).n = n
      BY <1>2 DEF Job, ApiJob
    <3>2. /\ StrandShaped' /\ StrandApart' /\ Jobs' = Jobs \cup {Job(c, n, r)}
          /\ OnStrand' = OnStrand \cup {c}
      BY <1>1, <1>3, <2>1, <3>1, PostedApart
    <3>3. Written' = Written
      BY <2>1 DEF Written
    <3> QED BY <1>3, <2>1, <3>1, <3>2, <3>3 DEF HttpInv, Shaped, Apart
  <2>2. CASE strand' = strand /\ \E close \in {r.close, TRUE} : Respond(c, n, close)
    <3>1. PICK close \in BOOLEAN : Respond(c, n, close)
      BY <1>2, <2>2
    <3>2. /\ writing' \subseteq ApiJob /\ Written' = Written \cup {c}
          /\ \A v, w \in writing' : v.conn = w.conn => v = w
          /\ \A w \in writing' : w \in writing \/ (w.conn = c /\ w.n = n)
      BY <1>2, <1>3, <3>1, Responded
    <3>3. /\ StrandShaped' /\ StrandApart' /\ Jobs' = Jobs /\ OnStrand' = OnStrand
      BY <1>1, <2>2, RestsApart DEF strandVars
    <3> QED BY <1>3, <3>2, <3>3
  <2> QED BY <1>6, <2>1, <2>2 DEF HandleRequest
<1>8. Shaped'
  BY <1>1, <1>5, <1>7 DEF HttpInv, Shaped, StrandShaped, Counts
<1>9. TypeOK'
  BY <1>1, <1>5, <1>7, <1>8, NextViews DEF Kept, HttpInv, TypeOK, StrandShaped
<1>10. Apart' /\ OpenUnderWay'
  BY <1>1, <1>3, <1>7, MovedApart
<1>11. InTurn'
  <2>1. ASSUME NEW op \in (Jobs' \ {Tick}) \cup writing' PROVE Unanswered(op)'
    <3>1. CASE op.conn = c /\ op.n = n
      BY <1>1, <1>2, <1>4, <3>1 DEF Unanswered, n
    <3>2. CASE op \in Jobs \cup writing
      <4>1. op # Tick
        BY <1>7, <2>1 DEF Tick, ApiJob
      <4>2. Unanswered(op)
        BY <3>2, <4>1 DEF HttpInv, InTurn
      <4>3. op.conn \in OnStrand \cup Written /\ op.conn \in Clients
        BY <3>2, <4>1, JobTypes DEF HttpInv, OnStrand, Written
      <4> QED BY <1>1, <1>3, <1>4, <4>2, <4>3 DEF Unanswered
    <3> QED BY <1>7, <2>1, <3>1, <3>2
  <2>2. \A d \in reading' : Len(answered'[d]) = asked'[d]
    BY <1>1, <1>4 DEF HttpInv, TypeOK, InTurn
  <2>3. \A d \in Clients : socket'[d] = "none" => asked'[d] = 0 /\ answered'[d] = << >>
    BY <1>1, <1>3, <1>4 DEF HttpInv, InTurn
  <2> QED BY <2>1, <2>2, <2>3 DEF InTurn
<1> QED BY <1>8, <1>9, <1>10, <1>11 DEF HttpInv

-----------------------------------------------------------------------------
LEMMA NextHttpInv == HttpInv /\ [Next]_vars => HttpInv'
<1> SUFFICES ASSUME HttpInv, [Next]_vars PROVE HttpInv'
  OBVIOUS
<1>1. CASE UNCHANGED vars
  <2>1. /\ UNCHANGED <<strandVars, writing, reading, socket, historyVars, timer, sent>>
        /\ UNCHANGED <<server, main, accepting, fin, expired>>
    BY <1>1 DEF vars, clientVars, strandVars, historyVars
  <2>2. TypeOK'
    BY <2>1 DEF HttpInv, TypeOK, Jobs, strandVars, historyVars
  <2> QED BY <2>1, <2>2, RestHttpInv DEF HttpInv, Shaped
<1>2. ASSUME NEW c \in Clients, Client(c) PROVE HttpInv'
  <2>1. CASE \E r \in Request : Send(c, r)
    BY <2>1, SendHttpInv
  <2>2. CASE Leave(c) \/ Expire(c)
    BY <2>2, OutsideHttpInv
  <2> QED BY <1>2, <2>1, <2>2 DEF Client
<1>3. ASSUME NEW c \in Clients, Listener(c) PROVE HttpInv'
  <2>1. CASE OnAccept(c)
    BY <2>1, OnAcceptHttpInv
  <2>2. CASE OnAcceptError
    BY <2>2, OutsideHttpInv
  <2>3. CASE OnAcceptThrows(c)
    BY <2>3, OnAcceptThrowsHttpInv
  <2> QED BY <1>3, <2>1, <2>2, <2>3 DEF Listener
<1>4. ASSUME NEW c \in Clients, Session(c) PROVE HttpInv'
  <2>1. CASE OnRead(c)
    BY <2>1, OnReadHttpInv
  <2>2. CASE OnReadEnds(c) \/ CloseThrows(c)
    BY <2>2, OnReadEndsHttpInv
  <2>3. CASE OnReadThrows(c)
    BY <2>3, OnReadThrowsHttpInv
  <2> QED BY <1>4, <2>1, <2>2, <2>3 DEF Session
<1>5. ASSUME NEW w \in writing, Writer(w) PROVE HttpInv'
  BY <1>5, OnWriteHttpInv, OnWriteFailsHttpInv, OnWriteThrowsHttpInv DEF Writer
<1>6. CASE Strand
  BY <1>6, BeginHttpInv, OnTickHttpInv, GetApiResponseHttpInv DEF Strand
<1>7. CASE TimerExpires
  BY <1>7, TimerExpiresHttpInv
<1>8. CASE Stop
  BY <1>8, OutsideHttpInv
<1> QED BY <1>1, <1>2, <1>3, <1>4, <1>5, <1>6, <1>7, <1>8 DEF Next

(* Every variable of the server has its type. *)
THEOREM HttpTypeCorrect == Spec => []TypeOK
<1>1. HttpInv => TypeOK
  BY DEF HttpInv
<1> QED BY <1>1, InitHttpInv, NextHttpInv, PTL DEF Spec

-----------------------------------------------------------------------------
(* One operation is under way. *)

LEMMA LoneCounted ==
    ASSUME NEW S, \A x, y \in S : x = y
    PROVE  Cardinality(S) = IF S = {} THEN 0 ELSE 1
<1>1. CASE S = {}
  BY <1>1, FS_EmptySet
<1>2. ASSUME NEW x \in S PROVE Cardinality(S) = 1
  <2>1. S = {x}
    BY <1>2
  <2> QED BY <2>1, FS_Singleton
<1> QED BY <1>1, <1>2

LEMMA InvOneAtATime == HttpInv => OneAtATime
<1> SUFFICES ASSUME HttpInv, NEW c \in Clients
             PROVE  Pending(c) = IF socket[c] = "open" THEN 1 ELSE 0
  BY DEF OneAtATime
<1> DEFINE A == {i \in DOMAIN strand : strand[i].conn = c}
           B == {i \in DOMAIN current : current[i].conn = c}
           W == {w \in writing : w.conn = c}
           R == reading \cap {c}
<1>1. Apart /\ Len(current) <= 1 /\ current \in Seq(ApiJob \cup {Tick})
  BY DEF HttpInv, TypeOK, Shaped
<1>2. \A x, y \in A : x = y
  BY <1>1 DEF Apart
<1>3. \A x, y \in B : x = y
  <2>1. \A x \in DOMAIN current : x = 1
    BY <1>1
  <2> QED BY <2>1
<1>4. \A x, y \in W : x = y
  BY <1>1 DEF Apart
<1>5. \A x, y \in R : x = y
  OBVIOUS
<1>6. /\ Cardinality(A) = IF A = {} THEN 0 ELSE 1
      /\ Cardinality(B) = IF B = {} THEN 0 ELSE 1
      /\ Cardinality(W) = IF W = {} THEN 0 ELSE 1
      /\ Cardinality(R) = IF R = {} THEN 0 ELSE 1
  BY <1>2, <1>3, <1>4, <1>5, LoneCounted
<1>7. /\ c \in OnStrand <=> A # {} \/ B # {}
      /\ c \in Written <=> W # {}
      /\ c \in reading <=> R # {}
  BY DEF OnStrand, Jobs, Written
<1>8. A = {} \/ B = {}
  BY <1>1 DEF Apart
<1>9. socket[c] = "open" <=> c \in OnStrand \cup Written \cup reading
  BY DEF HttpInv, OpenUnderWay
<1>10. /\ ~ (c \in OnStrand /\ c \in Written) /\ ~ (c \in OnStrand /\ c \in reading)
       /\ ~ (c \in Written /\ c \in reading)
  BY <1>1 DEF Apart
<1>11. Pending(c) = Cardinality(A) + Cardinality(B) + Cardinality(W) + Cardinality(R)
  BY DEF Pending
<1> HIDE DEF A, B, W, R
<1> QED BY <1>6, <1>7, <1>8, <1>9, <1>10, <1>11

LEMMA InvOneTick == HttpInv => OneTick
<1> SUFFICES ASSUME HttpInv PROVE OneTick
  OBVIOUS
<1> DEFINE A == {i \in DOMAIN strand : strand[i] = Tick}
           B == {i \in DOMAIN current : current[i] = Tick}
<1>1. Apart /\ Len(current) <= 1 /\ current \in Seq(ApiJob \cup {Tick})
  BY DEF HttpInv, TypeOK, Shaped
<1>2. Tick.conn = "ticker"
  BY DEF Tick
<1>3. \A x, y \in A : x = y
  BY <1>1 DEF Apart
<1>4. \A x, y \in B : x = y
  <2>1. \A x \in DOMAIN current : x = 1
    BY <1>1
  <2> QED BY <2>1
<1>5. /\ Cardinality(A) = IF A = {} THEN 0 ELSE 1
      /\ Cardinality(B) = IF B = {} THEN 0 ELSE 1
  BY <1>3, <1>4, LoneCounted
<1>6. A = {} \/ B = {}
  BY <1>1, <1>2 DEF Apart
<1>7. A # {} \/ B # {} => "ticker" \in OnStrand
  BY <1>2 DEF OnStrand, Jobs
<1>8. timer => "ticker" \notin OnStrand
  BY <1>1 DEF Apart
<1>9. OneTick <=> Cardinality(A) + Cardinality(B) + (IF timer THEN 1 ELSE 0) <= 1
  BY DEF OneTick
<1>10. timer \in BOOLEAN
  BY DEF HttpInv, TypeOK
<1> HIDE DEF A, B
<1> QED BY <1>5, <1>6, <1>7, <1>8, <1>9, <1>10

(* Whatever is posted, thrown or closed, an open connection has exactly one
   asynchronous operation under way, a closed one none, and there is at most
   one tick. *)
THEOREM AlwaysOneUnderWay == Spec => []OneUnderWay
<1>1. HttpInv => OneUnderWay
  BY InvOneAtATime, InvOneTick DEF OneUnderWay
<1> QED BY <1>1, InitHttpInv, NextHttpInv, PTL DEF Spec

-----------------------------------------------------------------------------
(* The server implements Conversation. *)

IsOpen == {c \in Clients : socket[c] = "open"}

(* Connections are closed, or nothing that a client sees happens. *)
LEMMA HangsUp ==
    ASSUME UNCHANGED historyVars, \A c \in Clients : socket'[c] = "open" => socket[c] = "open"
    PROVE  Talk!HangUp
<1>1. IsOpen' \subseteq IsOpen
  BY DEF IsOpen
<1> QED BY <1>1 DEF Talk!HangUp, IsOpen, historyVars

LEMMA Accepts ==
    ASSUME HttpInv, NEW c \in Clients, OnAccept(c)
    PROVE  Talk!Accept(c)
<1>1. IsOpen' = IsOpen \cup {c}
  BY DEF IsOpen, OnAccept, HttpInv, TypeOK
<1>2. asked[c] = 0 /\ UNCHANGED <<asked, answered>>
  BY DEF OnAccept, HttpInv, InTurn, historyVars
<1> QED BY <1>1, <1>2 DEF Talk!Accept, IsOpen

(* What closes connections opens none. *)
LEMMA NoneOpens ==
    ASSUME HttpInv, NEW c, Dies \/ EndSession(c) \/ UNCHANGED socket
    PROVE  IsOpen' \subseteq IsOpen
BY DEF HttpInv, TypeOK, IsOpen, Dies, EndSession

LEMMA Asks ==
    ASSUME HttpInv, NEW c \in Clients, OnRead(c) \/ OnReadThrows(c)
    PROVE  Talk!Ask(c)
<1>1. IsOpen' \subseteq IsOpen
  BY NoneOpens DEF OnRead, OnReadThrows
<1>2. c \in IsOpen /\ Len(answered[c]) = asked[c]
  BY DEF OnRead, OnReadThrows, HttpInv, InTurn, OpenUnderWay, IsOpen
<1>3. asked' = [asked EXCEPT ![c] = @ + 1] /\ answered' = answered
  BY DEF OnRead, OnReadThrows
<1> QED BY <1>1, <1>2, <1>3 DEF Talk!Ask, IsOpen

LEMMA Answers ==
    ASSUME HttpInv, NEW w \in writing, OnWrite(w) \/ OnWriteThrows(w)
    PROVE  w.conn \in Clients /\ Talk!Answer(w.conn)
<1> DEFINE c == w.conn
<1>1. /\ c \in Clients /\ c \in Written
      /\ w.n = asked[c] /\ w.n = Len(answered[c]) + 1 /\ Len(answered[c]) \in Nat
  <2>1. c \in Clients /\ c \in Written /\ Unanswered(w)
    BY JobTypes DEF HttpInv, InTurn, Written
  <2> QED BY <2>1 DEF Unanswered, HttpInv, Shaped
<1>2. c \in IsOpen
  BY <1>1 DEF IsOpen, HttpInv, OpenUnderWay
<1>3. Len(answered[c]) < asked[c]
  BY <1>1
<1>4. answered' = [answered EXCEPT ![c] = Append(@, asked[c])] /\ asked' = asked
  BY <1>1 DEF OnWrite, OnWriteThrows
<1>5. IsOpen' \subseteq IsOpen
  BY NoneOpens DEF OnWrite, OnWriteThrows
<1> QED BY <1>1, <1>2, <1>3, <1>4, <1>5 DEF Talk!Answer, IsOpen

LEMMA ConversesStep == HttpInv /\ [Next]_vars => [Talk!Next]_(Talk!vars)
<1> SUFFICES ASSUME HttpInv, [Next]_vars PROVE Talk!Next \/ UNCHANGED Talk!vars
  OBVIOUS
<1>1. ASSUME UNCHANGED historyVars,
             \A c \in Clients : socket'[c] = "open" => socket[c] = "open"
      PROVE  Talk!Next
  BY <1>1, HangsUp DEF Talk!Next
<1>2. CASE UNCHANGED vars
  BY <1>1, <1>2 DEF vars, historyVars
<1>3. ASSUME NEW c \in Clients, Client(c) PROVE Talk!Next
  BY <1>1, <1>3 DEF Client, Send, Leave, Expire
<1>4. ASSUME NEW c, Dies \/ EndSession(c), UNCHANGED historyVars PROVE Talk!Next
  BY <1>1, <1>4, NoneOpens DEF IsOpen
<1>5. ASSUME NEW c \in Clients, Listener(c) PROVE Talk!Next
  <2>1. CASE OnAccept(c)
    BY <2>1, Accepts DEF Talk!Next
  <2>2. CASE OnAcceptError
    BY <1>1, <2>2 DEF OnAcceptError
  <2>3. CASE OnAcceptThrows(c)
    BY <1>4, <2>3 DEF OnAcceptThrows
  <2> QED BY <1>5, <2>1, <2>2, <2>3 DEF Listener
<1>6. ASSUME NEW c \in Clients, Session(c) PROVE Talk!Next
  <2>1. CASE OnRead(c) \/ OnReadThrows(c)
    BY <2>1, Asks DEF Talk!Next
  <2>2. CASE OnReadEnds(c) \/ CloseThrows(c)
    BY <1>4, <2>2 DEF OnReadEnds, CloseThrows
  <2> QED BY <1>6, <2>1, <2>2 DEF Session
<1>7. ASSUME NEW w \in writing, Writer(w) PROVE Talk!Next
  <2>1. CASE OnWrite(w) \/ OnWriteThrows(w)
    BY <2>1, Answers DEF Talk!Next
  <2>2. CASE OnWriteFails(w)
    BY <1>4, <2>2 DEF OnWriteFails
  <2> QED BY <1>7, <2>1, <2>2 DEF Writer
<1>8. CASE Strand \/ TimerExpires \/ Stop
  BY <1>1, <1>8 DEF Strand, Begin, OnTick, GetApiResponse, TimerExpires, Stop
<1> QED BY <1>2, <1>3, <1>5, <1>6, <1>7, <1>8 DEF Next

(* Requests are answered one at a time, in order and once, whoever serves
   them, however often and early clients ask. *)
THEOREM ServerConverses == Spec => Converses
<1>1. Init => Talk!Init
  BY DEF Init, Talk!Init
<1> QED BY <1>1, InitHttpInv, NextHttpInv, ConversesStep, PTL
        DEF Spec, Converses, Talk!Spec
=============================================================================
