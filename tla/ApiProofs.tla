----------------------------- MODULE ApiProofs -----------------------------
(***************************************************************************)
(* What the API does to the game and tells of it, for any number of        *)
(* players and of ticks: requests that are refused change nothing, players *)
(* turn their own dogs, only players are served, and Allow is true.        *)
(*                                                                         *)
(* The tables of the module (Handlers, cp, ep) are looked at once, in the  *)
(* first lemmas.  The rest goes by one invariant: the checks a handler has *)
(* made hold still, and until its last step the game is as it found it.    *)
(***************************************************************************)
EXTENDS Api, TLAPS

(* What the proofs use of the handler of a target: an effect is its last step,
   which target an effect belongs to, and where tokens are looked for. *)
WellOrdered(steps, t) ==
    /\ Len(steps) \in Nat /\ DOMAIN steps = 1 .. Len(steps)
    /\ \A i \in DOMAIN steps :
          /\ steps[i] \in Effects => i = Len(steps)
          /\ steps[i] = "update" => t = "tick"
          /\ steps[i] = "turn" => t = "action"
          /\ steps[i] = "join" => t = "join"
          /\ steps[i] = "token" => t \in {"players", "state", "action"}
          /\ steps[i] = "method" => t # "other"

LEMMA HandlersWellOrdered ==
    ASSUME NEW t \in Targets
    PROVE  WellOrdered(Handlers[t], t)
<1> USE DEF WellOrdered, Effects
<1>1. CASE t = "maps"
  <2>1. Handlers[t] = GetStringResponse
    BY <1>1 DEF Handlers
  <2>2. WellOrdered(GetStringResponse, "maps")
    BY DEF GetStringResponse
  <2> QED BY <1>1, <2>1, <2>2
<1>2. CASE t = "join"
  <2>1. Handlers[t] = PostUserAuthResponse
    BY <1>2 DEF Handlers
  <2>2. WellOrdered(PostUserAuthResponse, "join")
    BY DEF PostUserAuthResponse
  <2> QED BY <1>2, <2>1, <2>2
<1>3. CASE t = "players"
  <2>1. Handlers[t] = GetUserResponse
    BY <1>3 DEF Handlers
  <2>2. WellOrdered(GetUserResponse, "players")
    BY DEF GetUserResponse
  <2> QED BY <1>3, <2>1, <2>2
<1>4. CASE t = "state"
  <2>1. Handlers[t] = GetStateResponse
    BY <1>4 DEF Handlers
  <2>2. WellOrdered(GetStateResponse, "state")
    BY DEF GetStateResponse
  <2> QED BY <1>4, <2>1, <2>2
<1>5. CASE t = "action"
  <2>1. Handlers[t] = PostUserMoveResponse
    BY <1>5 DEF Handlers
  <2>2. WellOrdered(PostUserMoveResponse, "action")
    BY DEF PostUserMoveResponse
  <2> QED BY <1>5, <2>1, <2>2
<1>6. CASE t = "tick"
  <2>1. Handlers[t] = SetTickAndGetResponse
    BY <1>6 DEF Handlers
  <2>2. WellOrdered(SetTickAndGetResponse, "tick")
    BY DEF SetTickAndGetResponse
  <2> QED BY <1>6, <2>1, <2>2
<1>7. CASE t = "records"
  <2>1. Handlers[t] = GetRecordsResponse
    BY <1>7 DEF Handlers
  <2>2. WellOrdered(GetRecordsResponse, "records")
    BY DEF GetRecordsResponse
  <2> QED BY <1>7, <2>1, <2>2
<1>8. CASE t = "other"
  <2>1. Handlers[t] = << "no_target" >>
    BY <1>8 DEF Handlers
  <2> QED BY <1>8, <2>1
<1> HIDE DEF WellOrdered
<1> QED BY <1>1, <1>2, <1>3, <1>4, <1>5, <1>6, <1>7, <1>8 DEF Targets

(* Where the token is looked for, and what is read of the body before a dog
   turns. *)
LEMMA ChecksOfPlayers ==
    /\ \A t \in {"players", "state", "action"} :
          \E i \in DOMAIN Handlers[t] : Handlers[t][i] = "token"
    /\ \E i \in DOMAIN Handlers["action"] : Handlers["action"][i] = "parse"
    /\ \E i \in DOMAIN Handlers["action"] : Handlers["action"][i] = "field"
<1>1. /\ 5 \in DOMAIN Handlers["players"] /\ Handlers["players"][5] = "token"
      /\ 5 \in DOMAIN Handlers["state"] /\ Handlers["state"][5] = "token"
  BY DEF Handlers, GetUserResponse, GetStateResponse
<1>2. /\ DOMAIN Handlers["action"] = 1 .. 8
      /\ Handlers["action"][7] = "token"
      /\ Handlers["action"][4] = "parse" /\ Handlers["action"][5] = "field"
  BY DEF Handlers, PostUserMoveResponse
<1>3. 7 \in 1 .. 8 /\ 4 \in 1 .. 8 /\ 5 \in 1 .. 8
  OBVIOUS
<1> QED BY <1>1, <1>2, <1>3

(* A request of a target has a body of that target. *)
LEMMA RequestShape ==
    ASSUME NEW r \in Requests
    PROVE  /\ r.target \in Targets /\ r.method \in Methods
           /\ r.target = "action" => r.body \in {"garbage", "no_field", "", "L", "0"}
           /\ \A m : /\ [r EXCEPT !.method = m].target = r.target
                     /\ [r EXCEPT !.method = m].method = m
<1>1. PICK t \in Targets :
        r \in [target : {t}, method : Methods, auth : Auths,
               type : {"json", "other"}, body : Bodies[t]]
  BY DEF Requests
<1>2. Bodies["action"] = {"garbage", "no_field", "", "L", "0"}
  BY DEF Bodies
<1> QED BY <1>1, <1>2

(* The two tables agree: Allow names the methods that the check lets pass. *)
LEMMA TablesAgree ==
    ASSUME NEW r \in Requests, r.target # "other"
    PROVE  /\ ep[r.target].http_status = 405 /\ ep[r.target].need_allow
           /\ ep[r.target].allow_method
                = {m \in Methods : ~WrongMethod([r EXCEPT !.method = m])}
<1>1. /\ r.target \in Targets \ {"other"}
      /\ \A m : /\ [r EXCEPT !.method = m].target = r.target
                /\ [r EXCEPT !.method = m].method = m
  BY RequestShape
<1>2. CASE r.target \in {"join", "action", "tick"}
  <2>1. ep[r.target] = ERROR_PARAM_NOT_POST_METHOD
    BY <1>2 DEF ep
  <2>2. cp[r.target].allow_method1 = "POST" /\ cp[r.target].allow_method2 = NULL_METHOD
    BY <1>2 DEF cp, CheckParam, API_JOIN_CHECK_PARAM, API_ACTION_CHECK_PARAM,
                API_TICK_CHECK_PARAM
  <2>3. \A m : WrongMethod([r EXCEPT !.method = m]) <=> m # "POST"
    BY <1>1, <2>2 DEF WrongMethod, NULL_METHOD
  <2> QED BY <2>1, <2>3 DEF ERROR_PARAM_NOT_POST_METHOD, Methods
<1>3. CASE r.target \in {"maps", "players", "state", "records"}
  <2>1. ep[r.target] = ERROR_PARAM_NOT_GET_HEAD_METHOD
    BY <1>3 DEF ep
  <2>2. cp[r.target].allow_method1 = "GET" /\ cp[r.target].allow_method2 = "HEAD"
    BY <1>3 DEF cp, CheckParam, API_MAPS_CHECK_PARAM, API_PLAYERS_STATE_CHECK_PARAM
  <2>3. \A m : WrongMethod([r EXCEPT !.method = m]) <=> m # "GET" /\ m # "HEAD"
    BY <1>1, <2>2 DEF WrongMethod, NULL_METHOD
  <2> QED BY <2>1, <2>3 DEF ERROR_PARAM_NOT_GET_HEAD_METHOD, Methods
<1> QED BY <1>1, <1>2, <1>3 DEF Targets

(* What a failed check is answered with; only the method check gives 405. *)
LEMMA ErrorType ==
    ASSUME NEW r \in Requests, NEW check, check = "method" => r.target # "other"
    PROVE  /\ ErrorOf(check, r).http_status \in {400, 401, 404, 405}
           /\ ErrorOf(check, r).allow_method \subseteq Methods
           /\ ErrorOf(check, r).http_status = 405 =>
                 check = "method" /\ ErrorOf(check, r) = ep[r.target]
<1>1. CASE check = "method"
  <2>1. ErrorOf(check, r) = ep[r.target]
    BY <1>1 DEF ErrorOf
  <2>2. /\ ep[r.target].http_status = 405
        /\ ep[r.target].allow_method
             = {m \in Methods : ~WrongMethod([r EXCEPT !.method = m])}
    BY <1>1, TablesAgree
  <2>3. {m \in Methods : ~WrongMethod([r EXCEPT !.method = m])} \subseteq Methods
    OBVIOUS
  <2>4. ep[r.target].allow_method \subseteq Methods
    BY <2>2, <2>3, Zenon
  <2>5. ErrorOf(check, r).http_status = 405 /\ ErrorOf(check, r).allow_method \subseteq Methods
    BY <2>1, <2>2, <2>4
  <2> QED BY <1>1, <2>1, <2>5
<1>2. CASE check # "method"
  <2>1. PICK s \in {400, 401, 404} : ErrorOf(check, r) = Plain(s)
    BY <1>2 DEF ErrorOf, ERROR_PARAM_BAD_AUTHORIZE, ERROR_PARAM_WRONG_CONTENT_TYPE
  <2> QED BY <2>1 DEF Plain
<1> QED BY <1>1, <1>2

-----------------------------------------------------------------------------
(* The checks that a handler has made hold still. *)
ChecksHold ==
    \A i \in DOMAIN Handler :
        i < at /\ Handler[i] \notin Effects => ~Fails(Handler[i], request)

(* Until its last step is done the game is as it found it. *)
NotYetChanged == at \in 1 .. Len(Handler) => game = found

Handling == request # NoRequest => ChecksHold /\ NotYetChanged
ApiInv == TypeOK /\ Handling

(* The type invariant in parts. *)
Waits == request = NoRequest /\ at = 0
Runs == /\ request \in Requests /\ at \in 0 .. Len(Handler) + 1
        /\ at # 0 => found \in Games
AnswerOK ==
    answer.status \in {0, 200, 400, 401, 404, 405} /\ answer.allow \subseteq Methods
GameOK == game \in Games /\ players \cap left = {}

LEMMA NoSuchRequest == NoRequest \notin Requests
<1> SUFFICES ASSUME NoRequest \in Requests PROVE FALSE
  OBVIOUS
<1>1. NoRequest.target \in Targets
  BY RequestShape
<1> QED BY <1>1 DEF NoRequest, Targets

LEMMA TypeOfParts ==
    TypeOK <=> self_update \in BOOLEAN /\ GameOK /\ AnswerOK /\ (Waits \/ Runs)
BY NoSuchRequest DEF TypeOK, GameOK, AnswerOK, Waits, Runs

LEMMA TypeOfPartsNext ==
    (TypeOK <=> self_update \in BOOLEAN /\ GameOK /\ AnswerOK /\ (Waits \/ Runs))'
BY TypeOfParts, PTL

LEMMA TypeOfGame ==
    game \in Games <=>
        /\ players \subseteq Tokens /\ left \subseteq Tokens
        /\ heading \in [Tokens -> {"", "L", "0"}]
        /\ clock \in 0 .. MaxClock
BY DEF game, Games

LEMMA TypeOfGameNext ==
    (game \in Games <=>
        /\ players \subseteq Tokens /\ left \subseteq Tokens
        /\ heading \in [Tokens -> {"", "L", "0"}]
        /\ clock \in 0 .. MaxClock)'
BY TypeOfGame, PTL

(* The handler that runs. *)
LEMMA HandlerRuns ==
    ASSUME TypeOK, at # 0
    PROVE  /\ request \in Requests /\ request # NoRequest
           /\ Handler = Handlers[request.target]
           /\ WellOrdered(Handler, request.target)
           /\ DOMAIN Handler = 1 .. Len(Handler) /\ Len(Handler) \in Nat
           /\ at \in 1 .. Len(Handler) + 1
<1>1. request \in Requests /\ at \in 0 .. Len(Handler) + 1
  BY TypeOfParts DEF Waits, Runs
<1>2. WellOrdered(Handler, request.target)
  BY <1>1, RequestShape, HandlersWellOrdered DEF Handler
<1>3. DOMAIN Handler = 1 .. Len(Handler) /\ Len(Handler) \in Nat
  BY <1>2 DEF WellOrdered
<1>4. at \in 1 .. Len(Handler) + 1
  BY <1>1, <1>3
<1> QED BY <1>1, <1>2, <1>3, <1>4, NoSuchRequest DEF Handler

-----------------------------------------------------------------------------
LEMMA InvInit == Init => ApiInv
<1> SUFFICES ASSUME Init PROVE ApiInv
  OBVIOUS
<1>1. /\ players = {} /\ left = {} /\ heading = [t \in Tokens |-> ""] /\ clock = 0
      /\ MaxClock \in Nat
  BY ApiAssumption DEF Init
<1>2. clock \in 0 .. MaxClock
  <2>1. clock = 0 /\ MaxClock \in Nat
    BY <1>1
  <2> QED BY <2>1
<1>3. heading \in [Tokens -> {"", "L", "0"}]
  BY <1>1
<1>4. GameOK
  BY <1>1, <1>2, <1>3, TypeOfGame DEF GameOK
<1>5. AnswerOK
  BY DEF Init, AnswerOK, NoAnswer
<1>6. Waits /\ self_update \in BOOLEAN
  BY DEF Init, Waits
<1> QED BY <1>4, <1>5, <1>6, TypeOfParts DEF ApiInv, Handling, Waits

(* An answer ends the handling. *)
LEMMA AnswerStep ==
    ASSUME TypeOK, GameOK', NEW error, Answer(error),
           error.http_status \in {200, 400, 401, 404, 405},
           error.allow_method \subseteq Methods
    PROVE  ApiInv'
<1>1. AnswerOK'
  BY DEF Answer, AnswerOK
<1>2. Waits' /\ self_update' \in BOOLEAN
  BY TypeOfParts DEF Answer, Waits
<1>3. TypeOK'
  BY <1>1, <1>2, TypeOfPartsNext
<1> QED BY <1>2, <1>3 DEF ApiInv, Handling, Waits

(* A step that is done: a check that has passed, or an effect. *)
LEMMA AdvanceStep ==
    ASSUME ApiInv, GameOK', at # 0, at \in DOMAIN Handler, Advance,
           \/ Handler[at] \notin Effects /\ ~Fails(Handler[at], request) /\ UNCHANGED game
           \/ /\ Handler[at] \in Effects
              /\ request.target \in {"players", "state", "action"}
                    => players \subseteq players'
    PROVE  ApiInv'
<1>1. TypeOK /\ ChecksHold /\ NotYetChanged
  BY HandlerRuns DEF ApiInv, Handling
<1>2. /\ request \in Requests /\ request # NoRequest
      /\ WellOrdered(Handler, request.target)
      /\ DOMAIN Handler = 1 .. Len(Handler) /\ Len(Handler) \in Nat
      /\ at \in 1 .. Len(Handler) + 1
  BY <1>1, HandlerRuns
<1>3. /\ at' = at + 1 /\ UNCHANGED <<self_update, request, found, answer>>
      /\ Handler' = Handler
  BY DEF Advance, Handler
<1>4. at' \in 1 .. Len(Handler) + 1 /\ at' # 0
  BY <1>2, <1>3
<1>5. found' \in Games
  BY <1>1, <1>3, TypeOfParts DEF Runs, Waits
<1>6. TypeOK'
  <2>1. Runs'
    BY <1>2, <1>3, <1>4, <1>5 DEF Runs
  <2>2. AnswerOK' /\ self_update' \in BOOLEAN
    BY <1>1, <1>3, TypeOfParts DEF AnswerOK
  <2> QED BY <2>1, <2>2, TypeOfPartsNext
<1>7. ChecksHold'
  <2> SUFFICES ASSUME NEW i \in DOMAIN Handler, i < at + 1, Handler[i] \notin Effects
               PROVE  ~Fails(Handler[i], request)'
    BY <1>3 DEF ChecksHold
  <2>1. ~Fails(Handler[i], request)
    <3>1. CASE i < at
      BY <1>1, <3>1 DEF ChecksHold
    <3>2. CASE i = at
      BY <3>2
    <3> QED BY <1>2, <3>1, <3>2
  <2>2. Handler[i] = "token" => players \subseteq players'
    BY <1>2 DEF WellOrdered, game
  <2> DEFINE c == Handler[i]
  <2>3. c' = c /\ request' = request
    BY <1>3
  <2>4. ~Fails(c, request) /\ (c = "token" => players \subseteq players')
    BY <2>1, <2>2
  <2> HIDE DEF c
  <2>5. ~Fails(c, request)'
    BY <1>3, <2>3, <2>4 DEF Fails, HasToken, TokenIsValid, WrongMethod
  <2> QED BY <2>5 DEF c
<1>8. NotYetChanged'
  <2>1. CASE Handler[at] \in Effects
    <3>1. at = Len(Handler)
      BY <1>2, <2>1 DEF WellOrdered
    <3> QED BY <1>2, <1>3, <3>1 DEF NotYetChanged
  <2>2. CASE UNCHANGED game
    BY <1>1, <1>2, <1>3, <2>2 DEF NotYetChanged
  <2> QED BY <2>1, <2>2
<1> QED BY <1>6, <1>7, <1>8 DEF ApiInv, Handling

(* A tick of the world leaves the parts of the game in order. *)
LEMMA UpdateKeepsGame == GameOK /\ UpdateWorldState => GameOK'
<1> SUFFICES ASSUME GameOK, UpdateWorldState PROVE GameOK'
  OBVIOUS
<1>1. /\ players \subseteq Tokens /\ left \subseteq Tokens /\ players \cap left = {}
      /\ heading \in [Tokens -> {"", "L", "0"}]
      /\ clock \in 0 .. MaxClock
  BY TypeOfGame DEF GameOK
<1>2. PICK gone \in SUBSET players : players' = players \ gone /\ left' = left \cup gone
  BY DEF UpdateWorldState
<1>3. clock' = clock + 1 /\ clock < MaxClock /\ heading' = heading
  BY DEF UpdateWorldState
<1>4. clock' \in 0 .. MaxClock
  <2>1. clock \in 0 .. MaxClock /\ clock' = clock + 1 /\ clock < MaxClock /\ MaxClock \in Nat
    BY <1>1, <1>3, ApiAssumption
  <2> QED BY <2>1
<1>5. /\ players' \subseteq Tokens /\ left' \subseteq Tokens /\ players' \cap left' = {}
  BY <1>1, <1>2
<1>6. (game \in Games)'
  BY <1>1, <1>3, <1>4, <1>5, TypeOfGameNext
<1> QED BY <1>5, <1>6 DEF GameOK

LEMMA InvStep == ApiInv /\ [Next]_vars => ApiInv'
<1> SUFFICES ASSUME ApiInv, [Next]_vars PROVE ApiInv'
  OBVIOUS
<1>0. TypeOK /\ GameOK /\ AnswerOK /\ self_update \in BOOLEAN /\ (Waits \/ Runs)
  BY TypeOfParts DEF ApiInv
<1>1. UNCHANGED game => GameOK'
  BY <1>0 DEF game, GameOK
<1>2. ASSUME UNCHANGED vars PROVE ApiInv'
  <2>1. UNCHANGED <<self_update, players, left, heading, clock, request, at, found, answer>>
    BY <1>2 DEF vars, game
  <2>2. game' = game /\ Handler' = Handler
    BY <2>1 DEF game, Handler
  <2>3. TypeOK'
    BY <1>0, <2>1, <2>2 DEF TypeOK
  <2>4. Handling'
    <3>1. ChecksHold => ChecksHold'
      BY <2>1, <2>2, ZenonT(40) DEF ChecksHold, Fails, HasToken, TokenIsValid, WrongMethod
    <3>2. NotYetChanged => NotYetChanged'
      BY <2>1, <2>2 DEF NotYetChanged
    <3> QED BY <2>1, <3>1, <3>2 DEF ApiInv, Handling
  <2> QED BY <2>3, <2>4 DEF ApiInv
<1>3. ASSUME NEW r \in Requests, Receive(r) PROVE ApiInv'
  <2>1. /\ request = NoRequest /\ request' = r /\ answer' = NoAnswer
        /\ UNCHANGED <<self_update, game, at, found>>
    BY <1>3 DEF Receive
  <2>2. at = 0 /\ at' = 0
    BY <1>0, <2>1, NoSuchRequest DEF Waits, Runs
  <2>3. AnswerOK' /\ GameOK' /\ self_update' \in BOOLEAN
    BY <1>0, <1>1, <2>1 DEF AnswerOK, NoAnswer
  <2>4. Len(Handler') \in Nat /\ DOMAIN Handler' = 1 .. Len(Handler')
    <3>1. WellOrdered(Handlers[r.target], r.target)
      BY RequestShape, HandlersWellOrdered
    <3> QED BY <2>1, <3>1 DEF Handler, WellOrdered
  <2>5. Runs'
    BY <2>1, <2>2, <2>4 DEF Runs
  <2>6. TypeOK'
    BY <2>3, <2>5, TypeOfPartsNext
  <2>7. ChecksHold' /\ NotYetChanged'
    BY <2>2, <2>4 DEF ChecksHold, NotYetChanged
  <2> QED BY <2>6, <2>7 DEF ApiInv, Handling
<1>4. ASSUME GetApiResponse PROVE ApiInv'
  <2>1. /\ request # NoRequest /\ at = 0 /\ at' = 1 /\ found' = game
        /\ UNCHANGED <<self_update, game, request, answer>> /\ Handler' = Handler
    BY <1>4 DEF GetApiResponse, Handler
  <2>2. AnswerOK' /\ GameOK' /\ self_update' \in BOOLEAN
    BY <1>0, <1>1, <2>1 DEF AnswerOK
  <2>3. request \in Requests
    BY <1>0, <2>1 DEF Waits, Runs
  <2>4. Len(Handler) \in Nat /\ DOMAIN Handler = 1 .. Len(Handler)
    <3>1. WellOrdered(Handlers[request.target], request.target)
      BY <2>3, RequestShape, HandlersWellOrdered
    <3> QED BY <3>1 DEF Handler, WellOrdered
  <2>5. Runs'
    BY <1>0, <2>1, <2>3, <2>4 DEF Runs, GameOK
  <2>6. TypeOK'
    BY <2>2, <2>5, TypeOfPartsNext
  <2>7. ChecksHold' /\ NotYetChanged'
    BY <2>1, <2>4 DEF ChecksHold, NotYetChanged, game
  <2> QED BY <2>6, <2>7 DEF ApiInv, Handling
<1>5. ASSUME at # 0, Pass PROVE ApiInv'
  BY <1>1, <1>5, AdvanceStep DEF Pass
<1>6. ASSUME at # 0, Refuse PROVE ApiInv'
  <2>1. /\ at \in DOMAIN Handler /\ Answer(ErrorOf(Handler[at], request))
        /\ GameOK'
    BY <1>1, <1>6 DEF Refuse
  <2>2. request \in Requests /\ (Handler[at] = "method" => request.target # "other")
    BY <1>0, <1>6, <2>1, HandlerRuns DEF WellOrdered
  <2> DEFINE e == ErrorOf(Handler[at], request)
  <2>3. e.http_status \in {200, 400, 401, 404, 405} /\ e.allow_method \subseteq Methods
    BY <2>2, ErrorType
  <2> HIDE DEF e
  <2>4. Answer(e)
    BY <2>1 DEF e
  <2> QED BY <1>0, <2>1, <2>3, <2>4, AnswerStep
<1>7. ASSUME at # 0, Read PROVE ApiInv'
  <2>1. Advance /\ at \in DOMAIN Handler /\ Handler[at] \in Effects /\ UNCHANGED game
    BY <1>7 DEF Read, Comes, Effects
  <2> QED BY <1>1, <1>7, <2>1, AdvanceStep DEF game
<1>8. ASSUME at # 0, JoinGame PROVE ApiInv'
  <2>1. Advance /\ at \in DOMAIN Handler /\ Handler[at] \in Effects
    BY <1>8 DEF JoinGame, Comes, Effects
  <2>2. PICK t \in Tokens \ (players \cup left) :
          players' = players \cup {t} /\ heading' = [heading EXCEPT ![t] = ""]
    BY <1>8 DEF JoinGame
  <2>3. left' = left /\ clock' = clock
    BY <1>8 DEF JoinGame
  <2>4. /\ players \subseteq Tokens /\ left \subseteq Tokens /\ players \cap left = {}
        /\ heading \in [Tokens -> {"", "L", "0"}] /\ clock \in 0 .. MaxClock
    BY <1>0, TypeOfGame DEF GameOK
  <2>5. players' \subseteq Tokens /\ left' \subseteq Tokens /\ players' \cap left' = {}
    BY <2>2, <2>3, <2>4
  <2>6. heading' \in [Tokens -> {"", "L", "0"}] /\ clock' \in 0 .. MaxClock
    BY <2>2, <2>3, <2>4
  <2>7. (game \in Games)'
    BY <2>5, <2>6, TypeOfGameNext
  <2>8. GameOK' /\ players \subseteq players'
    BY <2>2, <2>5, <2>7 DEF GameOK
  <2> QED BY <1>8, <2>1, <2>8, AdvanceStep
<1>9. ASSUME at # 0, ChangeMoveDirection PROVE ApiInv'
  <2>1. /\ Advance /\ at \in DOMAIN Handler /\ Handler[at] = "turn"
        /\ TurnDog /\ UNCHANGED <<players, left, clock>>
    BY <1>9 DEF ChangeMoveDirection, Comes
  <2>2. /\ request \in Requests /\ request # NoRequest /\ request.target = "action"
        /\ Handler = Handlers["action"] /\ at = Len(Handler)
        /\ DOMAIN Handler = 1 .. Len(Handler) /\ Len(Handler) \in Nat
    BY <1>0, <1>9, <2>1, HandlerRuns DEF WellOrdered, Effects
  <2>3. ASSUME NEW check \in {"parse", "field"} PROVE ~Fails(check, request)
    <3>1. PICK i \in DOMAIN Handler : Handler[i] = check
      BY <2>2, <2>3, ChecksOfPlayers
    <3>2. i # at /\ Handler[i] \notin Effects
      BY <2>1, <2>3, <3>1 DEF Effects
    <3>3. i < at
      BY <2>2, <3>1, <3>2
    <3> QED BY <2>2, <3>1, <3>2, <3>3 DEF ApiInv, Handling, ChecksHold
  <2>4. request.body # "garbage" /\ request.body # "no_field"
    <3>1. ~Fails("parse", request) /\ ~Fails("field", request)
      BY <2>3
    <3> QED BY <3>1 DEF Fails
  <2>5. request.body \in {"", "L", "0"}
    BY <2>2, <2>4, RequestShape
  <2>6. heading' \in [Tokens -> {"", "L", "0"}]
    BY <1>0, <2>1, <2>5, TypeOfGame DEF TurnDog, GameOK
  <2>7. (game \in Games)'
    <3>1. players \subseteq Tokens /\ left \subseteq Tokens /\ clock \in 0 .. MaxClock
      BY <1>0, TypeOfGame DEF GameOK
    <3>2. players' \subseteq Tokens /\ left' \subseteq Tokens /\ clock' \in 0 .. MaxClock
      BY <2>1, <3>1
    <3> QED BY <2>6, <3>2, TypeOfGameNext
  <2>8. GameOK'
    BY <1>0, <2>1, <2>7 DEF GameOK
  <2> QED BY <1>9, <2>1, <2>8, AdvanceStep DEF Effects
<1>10. ASSUME at # 0, SetTick PROVE ApiInv'
  <2>1. /\ at \in DOMAIN Handler /\ Handler[at] = "update"
        /\ Advance \/ Answer(Plain(400))
    BY <1>10 DEF SetTick, Comes
  <2>2. GameOK'
    BY <1>0, <1>10, UpdateKeepsGame DEF SetTick
  <2>3. request.target = "tick"
    BY <1>0, <1>10, <2>1, HandlerRuns DEF WellOrdered
  <2>4. CASE Advance
    BY <1>10, <2>1, <2>2, <2>3, <2>4, AdvanceStep DEF Effects
  <2>5. CASE Answer(Plain(400))
    <3>1. Plain(400).http_status = 400 /\ Plain(400).allow_method = {}
      BY DEF Plain
    <3> QED BY <1>0, <2>2, <2>5, <3>1, AnswerStep
  <2> QED BY <2>1, <2>4, <2>5
<1>11. ASSUME Succeed PROVE ApiInv'
  <2>1. Answer(Plain(200)) /\ GameOK'
    BY <1>1, <1>11 DEF Succeed
  <2>2. Plain(200).http_status = 200 /\ Plain(200).allow_method = {}
    BY DEF Plain
  <2> QED BY <1>0, <2>1, <2>2, AnswerStep
<1>12. ASSUME TickerTick PROVE ApiInv'
  <2>1. /\ at = 0 /\ UNCHANGED <<self_update, request, at, found, answer>>
        /\ Handler' = Handler
    BY <1>12 DEF TickerTick, Handler
  <2>2. GameOK'
    BY <1>0, <1>12, UpdateKeepsGame DEF TickerTick
  <2>3. AnswerOK' /\ (Waits' \/ Runs') /\ self_update' \in BOOLEAN
    BY <1>0, <2>1 DEF AnswerOK, Waits, Runs
  <2>4. TypeOK'
    BY <2>2, <2>3, TypeOfPartsNext
  <2>5. request # NoRequest =>
          WellOrdered(Handlers[request.target], request.target)
    BY <1>0, RequestShape, HandlersWellOrdered DEF Waits, Runs
  <2>6. request # NoRequest => ChecksHold' /\ NotYetChanged'
    BY <2>1, <2>5 DEF ChecksHold, NotYetChanged, Handler, WellOrdered
  <2> QED BY <2>1, <2>4, <2>6 DEF ApiInv, Handling
<1> QED BY <1>2, <1>3, <1>4, <1>5, <1>6, <1>7, <1>8, <1>9, <1>10, <1>11, <1>12
        DEF Next, Handle

THEOREM ApiInvariant == Spec => []ApiInv
BY InvInit, InvStep, PTL DEF Spec

(* Every variable has its type, and no player has left. *)
THEOREM ApiTypeCorrect == Spec => []TypeOK
<1>1. ApiInv => TypeOK
  BY DEF ApiInv
<1> QED BY <1>1, ApiInvariant, PTL

-----------------------------------------------------------------------------
(* A request is answered by a check that fails, at the end, or by a tick that
   throws. *)
LEMMA AnswersComeFrom ==
    ASSUME ApiInv, Next, Answered
    PROVE  /\ at # 0
           /\ \/ Refuse
              \/ Succeed
              \/ request.target = "tick" /\ Comes("update") /\ Answer(Plain(400))
<1>1. TypeOK
  BY DEF ApiInv
<1>2. Handle
  BY DEF Next, Receive, GetApiResponse, TickerTick, Answered
<1>3. at # 0
  BY <1>2 DEF Handle
<1>4. ~Advance
  BY DEF Advance, Answered
<1>5. CASE SetTick
  BY <1>1, <1>3, <1>4, <1>5, HandlerRuns DEF SetTick, Comes, WellOrdered
<1>6. CASE ~SetTick
  BY <1>2, <1>4, <1>6 DEF Handle, Pass, Read, JoinGame, ChangeMoveDirection
<1> QED BY <1>3, <1>5, <1>6

(* Whichever check refuses a request, its handler has not touched the game. *)
THEOREM RefusedAlwaysChangesNothing == Spec => RefusedChangesNothing
<1>1. ApiInv /\ [Next]_vars =>
        [Answered /\ answer'.status # 200 /\ request.target # "tick"
            => game' = found]_vars
  <2> SUFFICES ASSUME ApiInv, Next, Answered, answer'.status # 200,
                      request.target # "tick"
               PROVE  game' = found
    OBVIOUS
  <2>1. at # 0 /\ (Refuse \/ Succeed)
    BY AnswersComeFrom
  <2>2. ~Succeed
    BY DEF Succeed, Answer, Plain
  <2>3. Refuse /\ UNCHANGED game /\ at \in DOMAIN Handler
    BY <2>1, <2>2 DEF Refuse
  <2>4. request # NoRequest /\ at \in 1 .. Len(Handler)
    BY <2>1, <2>3, HandlerRuns DEF ApiInv
  <2> QED BY <2>3, <2>4 DEF ApiInv, Handling, NotYetChanged
<1> QED BY <1>1, ApiInvariant, PTL DEF Spec, RefusedChangesNothing

(* No token turns the dog of another player. *)
THEOREM OnlyOwnersTurn == Spec => OnlyOwnerTurns
<1>1. ApiInv /\ [Next]_vars =>
        [\A t \in players :
            heading'[t] # heading[t]
                => at # 0 /\ request.target = "action" /\ request.auth = t]_vars
  <2> SUFFICES ASSUME ApiInv, Next, NEW t \in players, heading'[t] # heading[t]
               PROVE  at # 0 /\ request.target = "action" /\ request.auth = t
    OBVIOUS
  <2>0. TypeOK /\ heading \in [Tokens -> {"", "L", "0"}] /\ t \in Tokens
    <3>1. TypeOK /\ GameOK
      BY TypeOfParts DEF ApiInv
    <3> QED BY <3>1, TypeOfGame DEF GameOK
  <2>1. CASE JoinGame
    <3>1. PICK u \in Tokens \ (players \cup left) : heading' = [heading EXCEPT ![u] = ""]
      BY <2>1 DEF JoinGame
    <3> QED BY <2>0, <3>1
  <2>2. CASE at # 0 /\ ChangeMoveDirection
    <3>1. request.target = "action"
      BY <2>0, <2>2, HandlerRuns DEF ChangeMoveDirection, Comes, WellOrdered
    <3>2. request.auth = t
      BY <2>0, <2>2 DEF ChangeMoveDirection, TurnDog
    <3> QED BY <2>2, <3>1, <3>2
  <2>3. CASE UNCHANGED heading
    BY <2>3
  <2> QED BY <2>1, <2>2, <2>3
          DEF Next, Receive, GetApiResponse, Handle, Pass, Refuse, Read, SetTick, Succeed,
              TickerTick, UpdateWorldState, game
<1> QED BY <1>1, ApiInvariant, PTL DEF Spec, OnlyOwnerTurns

(* Whoever is served is in the game when the request is handled, whatever has
   happened since it was sent. *)
THEOREM PlayersAloneAreServed == Spec => OnlyPlayersServed
<1>1. ApiInv /\ [Next]_vars =>
        [Answered /\ answer'.status = 200
         /\ request.target \in {"players", "state", "action"}
            => request.auth \in players]_vars
  <2> SUFFICES ASSUME ApiInv, Next, Answered, answer'.status = 200,
                      request.target \in {"players", "state", "action"}
               PROVE  request.auth \in players
    OBVIOUS
  <2>1. at # 0 /\ (Refuse \/ Succeed)
    BY AnswersComeFrom
  <2>2. /\ request \in Requests /\ request # NoRequest
        /\ Handler = Handlers[request.target]
        /\ DOMAIN Handler = 1 .. Len(Handler) /\ Len(Handler) \in Nat
        /\ WellOrdered(Handler, request.target)
    BY <2>1, HandlerRuns DEF ApiInv
  <2>3. ~Refuse
    <3>1. SUFFICES ASSUME Refuse PROVE FALSE
      OBVIOUS
    <3>2. at \in DOMAIN Handler /\ Answer(ErrorOf(Handler[at], request))
      BY <3>1 DEF Refuse
    <3>3. Handler[at] = "method" => request.target # "other"
      BY <2>2, <3>2 DEF WellOrdered
    <3>4. ErrorOf(Handler[at], request).http_status # 200
      BY <2>2, <3>3, ErrorType
    <3> QED BY <3>2, <3>4 DEF Answer
  <2>4. at > Len(Handler)
    BY <2>1, <2>3 DEF Succeed
  <2>5. PICK i \in DOMAIN Handler : Handler[i] = "token"
    BY <2>2, ChecksOfPlayers
  <2>6. i < at
    <3>1. at \in Nat
      BY <2>1, HandlerRuns DEF ApiInv
    <3> QED BY <2>2, <2>4, <3>1
  <2>7. ~Fails("token", request)
    BY <2>2, <2>5, <2>6 DEF ApiInv, Handling, ChecksHold, Effects
  <2> QED BY <2>7 DEF Fails, HasToken
<1> QED BY <1>1, ApiInvariant, PTL DEF Spec, OnlyPlayersServed

(* Allow names the methods that the method check lets pass, and no other. *)
THEOREM AllowAlwaysTrue == Spec => AllowTellsTruth
<1>1. ApiInv /\ [Next]_vars =>
        [Answered /\ answer'.status = 405 =>
            answer'.allow
               = {m \in Methods : ~WrongMethod([request EXCEPT !.method = m])}]_vars
  <2> SUFFICES ASSUME ApiInv, Next, Answered, answer'.status = 405
               PROVE  answer'.allow
                        = {m \in Methods : ~WrongMethod([request EXCEPT !.method = m])}
    OBVIOUS
  <2>1. at # 0 /\ Refuse
    <3>1. ~Succeed /\ ~Answer(Plain(400))
      BY DEF Succeed, Answer, Plain
    <3> QED BY <3>1, AnswersComeFrom
  <2>2. at \in DOMAIN Handler /\ Answer(ErrorOf(Handler[at], request))
    BY <2>1 DEF Refuse
  <2>3. request \in Requests /\ (Handler[at] = "method" => request.target # "other")
    BY <2>1, <2>2, HandlerRuns DEF ApiInv, WellOrdered
  <2> DEFINE e == ErrorOf(Handler[at], request)
  <2>4. e.http_status = 405 => Handler[at] = "method" /\ e = ep[request.target]
    BY <2>3, ErrorType
  <2> HIDE DEF e
  <2>5. Answer(e)
    BY <2>2 DEF e
  <2>6. e.http_status = 405 /\ answer'.allow = IF e.need_allow THEN e.allow_method ELSE {}
    BY <2>5 DEF Answer
  <2>7. request.target # "other" /\ e = ep[request.target]
    BY <2>3, <2>4, <2>6
  <2> QED BY <2>3, <2>6, <2>7, TablesAgree
<1> QED BY <1>1, ApiInvariant, PTL DEF Spec, AllowTellsTruth
=============================================================================
