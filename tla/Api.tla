-------------------------------- MODULE Api --------------------------------
(***************************************************************************)
(* The API (api_handler.h, api_handler.cpp, api_handler_static_name.h):    *)
(* which requests are refused, with which status and which Allow header,   *)
(* and what the requests do to the game.                                   *)
(*                                                                         *)
(* The handler of a target is the list of its steps in the order of the    *)
(* code: checks, each of which may end the request, and effects.  "at"     *)
(* says which step is next.  Handlers run one at a time on the API strand, *)
(* and so do the ticks of the ticker, which come between them.             *)
(*                                                                         *)
(* A target, a header or a body is named by the class the code puts it in: *)
(* two requests of the same classes get the same answer.  Of the game      *)
(* there is what a request can see or change: who plays, with which token, *)
(* heading where, and the time.                                            *)
(***************************************************************************)
EXTENDS Integers, Sequences, FiniteSets

CONSTANTS
    Tokens,      \* texts of 32 characters that may become tokens
    MaxClock     \* bound: the time steps of a behaviour

ASSUME ApiAssumption == MaxClock \in Nat

(* The targets, by the constant that GetApiResponse finds in them first. *)
Targets == {"maps", "join", "players", "state", "action", "tick", "records", "other"}
Methods == {"GET", "HEAD", "POST", "PUT", "DELETE"}

(* "none": less than 7 characters, "short": not 32 after the first 7. *)
Auths == {"none", "short"} \cup Tokens

(* What the checks of a target tell apart in the rest of the request. *)
Bodies ==
    [maps    |-> {"good", "malformed", "no_map"},
     join    |-> {"good", "garbage", "no_field", "no_name", "no_map"},
     players |-> {"good"},
     state   |-> {"good"},
     action  |-> {"garbage", "no_field", "", "L", "0"},
     tick    |-> {"good", "", "garbage", "no_field", "zero"},
     records |-> {"good", "not_a_number", "max_101", "max_negative", "db_fails"},
     other   |-> {"good"}]

Requests ==
    UNION {[target : {t}, method : Methods, auth : Auths,
            type : {"json", "other"}, body : Bodies[t]] : t \in Targets}

VARIABLES
    self_update,   \* time is moved by requests, the server was started with -t 0
    players,   \* the tokens of the players
    left,      \* history: the tokens of retired players
    heading,   \* per token, where the dog goes: "", "L" or "0"
    clock,     \* the time steps of the world
    request,   \* the request that waits for the API strand or runs on it
    at,        \* the step its handler comes to, 0 while it waits
    found,     \* history: the game as the handler found it
    answer     \* the answer to the last request

game == <<players, left, heading, clock>>
vars == <<self_update, game, request, at, found, answer>>

-----------------------------------------------------------------------------
(* The two tables of api_handler_static_name.h.  The one tells what to answer
   to a request, with the text of the Allow header, the other what a request
   must be like.  A method that must not be looked at is DELETE there. *)

NULL_METHOD == "DELETE"

ERROR_PARAM_NOT_POST_METHOD ==
    [http_status |-> 405, need_allow |-> TRUE, allow_method |-> {"POST"}]
ERROR_PARAM_NOT_GET_HEAD_METHOD ==
    [http_status |-> 405, need_allow |-> TRUE, allow_method |-> {"GET", "HEAD"}]

(* A response without an Allow header. *)
Plain(http_status) ==
    [http_status |-> http_status, need_allow |-> FALSE, allow_method |-> {}]

ERROR_PARAM_BAD_AUTHORIZE == Plain(401)
ERROR_PARAM_WRONG_CONTENT_TYPE == Plain(400)

CheckParam(allow_method1, allow_method2, auth_header, cont_type) ==
    [allow_method1 |-> allow_method1, allow_method2 |-> allow_method2,
     auth_header |-> auth_header, cont_type |-> cont_type]

API_MAPS_CHECK_PARAM          == CheckParam("GET", "HEAD", FALSE, FALSE)
API_JOIN_CHECK_PARAM          == CheckParam("POST", NULL_METHOD, FALSE, FALSE)
API_PLAYERS_STATE_CHECK_PARAM == CheckParam("GET", "HEAD", TRUE, FALSE)
API_ACTION_CHECK_PARAM        == CheckParam("POST", NULL_METHOD, TRUE, TRUE)
API_TICK_CHECK_PARAM          == CheckParam("POST", NULL_METHOD, FALSE, FALSE)

(* GetApiResponse pairs the tables by hand. *)
cp == [maps    |-> API_MAPS_CHECK_PARAM,          join   |-> API_JOIN_CHECK_PARAM,
       players |-> API_PLAYERS_STATE_CHECK_PARAM, action |-> API_ACTION_CHECK_PARAM,
       state   |-> API_PLAYERS_STATE_CHECK_PARAM, tick   |-> API_TICK_CHECK_PARAM,
       records |-> API_MAPS_CHECK_PARAM]

(* Mutant: a target that is only posted to answers for those that are read. *)
epOfReads == [t \in Targets \ {"other"} |-> ERROR_PARAM_NOT_GET_HEAD_METHOD]
ep == [maps    |-> ERROR_PARAM_NOT_GET_HEAD_METHOD, join   |-> ERROR_PARAM_NOT_POST_METHOD,
       players |-> ERROR_PARAM_NOT_GET_HEAD_METHOD, action |-> ERROR_PARAM_NOT_POST_METHOD,
       state   |-> ERROR_PARAM_NOT_GET_HEAD_METHOD, tick   |-> ERROR_PARAM_NOT_POST_METHOD,
       records |-> ERROR_PARAM_NOT_GET_HEAD_METHOD]

-----------------------------------------------------------------------------
(* The steps of the handlers.  Those of TemplateResponse come first, but for a
   target that is none of the API: its handler has no check at all. *)

Effects == {"join", "turn", "update", "read"}

(* Mutant: the content type is looked at when the dog has turned. *)
PostUserMoveTooEarly ==
    << "method", "auth", "parse", "field", "token_form", "token", "turn", "type" >>
PostUserMoveResponse ==
    << "method", "auth", "type", "parse", "field", "token_form", "token", "turn" >>

GetStringResponse == << "method", "auth", "type", "map_name", "map", "read" >>
PostUserAuthResponse ==
    << "method", "auth", "type", "parse", "field", "name", "map", "join" >>
GetUserResponse  == << "method", "auth", "type", "token_form", "token", "read" >>
GetStateResponse == << "method", "auth", "type", "token_form", "token", "read" >>
SetTickAndGetResponse ==
    << "method", "auth", "type", "self_mode", "empty", "parse", "field", "positive", "update" >>
GetRecordsResponse == << "method", "auth", "type", "number", "range", "query", "read" >>

Handlers ==
    [maps    |-> GetStringResponse, join   |-> PostUserAuthResponse,
     players |-> GetUserResponse,   action |-> PostUserMoveResponse,
     state   |-> GetStateResponse,  tick   |-> SetTickAndGetResponse,
     records |-> GetRecordsResponse, other |-> << "no_target" >>]

WrongMethod(r) ==
    IF cp[r.target].allow_method2 # NULL_METHOD
    THEN r.method # cp[r.target].allow_method1 /\ r.method # cp[r.target].allow_method2
    ELSE /\ cp[r.target].allow_method1 # NULL_METHOD
         /\ r.method # cp[r.target].allow_method1

TokenIsValid(r) == r.auth \in Tokens

(* Mutant: any valid token will do. *)
AnyToken(r) == TRUE
HasToken(r) == r.auth \in players

(* A text that json::parse or std::stoi refuses and a query that fails throw:
   the strand answers like for a wrong request. *)
Fails(check, r) ==
    \/ check = "method" /\ WrongMethod(r)
    \/ check = "auth" /\ cp[r.target].auth_header /\ r.auth = "none"
    \/ check = "type" /\ cp[r.target].cont_type /\ r.type # "json"
    \/ check = "map_name" /\ r.body = "malformed"
    \/ check = "map" /\ r.body = "no_map"
    \/ check = "parse" /\ r.body = "garbage"
    \/ check = "field" /\ r.body = "no_field"
    \/ check = "name" /\ r.body = "no_name"
    \/ check = "token_form" /\ ~TokenIsValid(r)
    \/ check = "token" /\ ~HasToken(r)
    \/ check = "self_mode" /\ ~self_update
    \/ check = "empty" /\ r.body = ""
    \/ check = "positive" /\ r.body = "zero"
    \/ check = "number" /\ r.body = "not_a_number"
    \/ check = "range" /\ r.body \in {"max_101", "max_negative"}
    \/ check = "query" /\ r.body = "db_fails"
    \/ check = "no_target"

ErrorOf(check, r) ==
    CASE check = "method" -> ep[r.target]
      [] check = "auth"   -> ERROR_PARAM_BAD_AUTHORIZE
      [] check = "type"   -> ERROR_PARAM_WRONG_CONTENT_TYPE
      [] check \in {"token_form", "token"} -> Plain(401)
      [] check = "map"    -> Plain(404)
      [] OTHER            -> Plain(400)

-----------------------------------------------------------------------------
NoRequest == [target |-> "none"]
NoAnswer  == [status |-> 0, allow |-> {}]
NoGame    == << >>

(* Bounds: no join once the tokens are used up, no tick once the clock has
   reached MaxClock. *)
Receive(r) ==
    /\ request = NoRequest
    /\ r.target = "join" => players \cup left # Tokens
    /\ r.target = "tick" => clock < MaxClock
    /\ request' = r
    /\ answer' = NoAnswer
    /\ UNCHANGED <<self_update, game, at, found>>

(* The strand comes to the request. *)
GetApiResponse ==
    /\ request # NoRequest /\ at = 0
    /\ at' = 1
    /\ found' = game
    /\ UNCHANGED <<self_update, game, request, answer>>

Answer(error) ==
    /\ answer' = [status |-> error.http_status,
                  allow |-> IF error.need_allow THEN error.allow_method ELSE {}]
    /\ request' = NoRequest /\ at' = 0 /\ found' = NoGame
    /\ UNCHANGED self_update

Advance == at' = at + 1 /\ UNCHANGED <<self_update, request, found, answer>>

Handler == Handlers[request.target]
Comes(step) == at \in DOMAIN Handler /\ Handler[at] = step

(* A check changes nothing itself: it lets the request pass or answers it. *)
Pass ==
    /\ at \in DOMAIN Handler /\ Handler[at] \notin Effects
    /\ ~Fails(Handler[at], request)
    /\ Advance
    /\ UNCHANGED game

Refuse ==
    /\ at \in DOMAIN Handler /\ Handler[at] \notin Effects
    /\ Fails(Handler[at], request)
    /\ Answer(ErrorOf(Handler[at], request))
    /\ UNCHANGED game

Read == Comes("read") /\ Advance /\ UNCHANGED game

(* Players::AddPlayer draws a token that nobody had. *)
JoinGame ==
    /\ Comes("join")
    /\ \E t \in Tokens \ (players \cup left) :
          /\ players' = players \cup {t}
          /\ heading' = [heading EXCEPT ![t] = ""]
    /\ Advance
    /\ UNCHANGED <<left, clock>>

(* Mutant: a player moves the dog of another. *)
TurnSomeDog == \E t \in players : heading' = [heading EXCEPT ![t] = request.body]
TurnDog == heading' = [heading EXCEPT ![request.auth] = request.body]

ChangeMoveDirection ==
    /\ Comes("turn")
    /\ TurnDog
    /\ Advance
    /\ UNCHANGED <<players, left, clock>>

(* Mutant: players stay when their dogs leave. *)
UpdateWorldKeepsPlayers ==
    /\ clock < MaxClock
    /\ clock' = clock + 1
    /\ \E gone \in SUBSET players : left' = left \cup gone
    /\ UNCHANGED <<players, heading>>

(* Time goes on, and idle players leave. *)
UpdateWorldState ==
    /\ clock < MaxClock
    /\ clock' = clock + 1
    /\ \E gone \in SUBSET players :
          players' = players \ gone /\ left' = left \cup gone
    /\ UNCHANGED heading

(* An exception in the middle of a tick is answered like a wrong request. *)
SetTick ==
    /\ Comes("update")
    /\ UpdateWorldState
    /\ Advance \/ Answer(Plain(400))

(* All steps are done: the template of a response is 200. *)
Succeed ==
    /\ at > Len(Handler)
    /\ Answer(Plain(200))
    /\ UNCHANGED game

Handle ==
    /\ at # 0
    /\ \/ Pass \/ Refuse \/ Read \/ JoinGame \/ ChangeMoveDirection \/ SetTick
       \/ Succeed

TickerTick ==
    /\ ~self_update /\ at = 0
    /\ UpdateWorldState
    /\ UNCHANGED <<self_update, request, at, found, answer>>

-----------------------------------------------------------------------------
Init ==
    /\ self_update \in BOOLEAN
    /\ players = {} /\ left = {}
    /\ heading = [t \in Tokens |-> ""]
    /\ clock = 0
    /\ request = NoRequest /\ answer = NoAnswer
    /\ at = 0 /\ found = NoGame

Next ==
    \/ \E r \in Requests : Receive(r)
    \/ GetApiResponse
    \/ Handle
    \/ TickerTick

Spec == Init /\ [][Next]_vars
-----------------------------------------------------------------------------
Games ==
    (SUBSET Tokens) \X (SUBSET Tokens) \X [Tokens -> {"", "L", "0"}] \X (0 .. MaxClock)

(* Every variable has its type; a player that has left is no player; the
   statuses are among those the README lists. *)
TypeOK ==
    /\ self_update \in BOOLEAN
    /\ game \in Games
    /\ players \cap left = {}
    /\ request \in Requests \cup {NoRequest}
    /\ at \in IF request = NoRequest THEN {0} ELSE 0 .. Len(Handler) + 1
    /\ at # 0 => found \in Games
    /\ answer.status \in {0, 200, 400, 401, 404, 405}
    /\ answer.allow \subseteq Methods

Answered == request # NoRequest /\ request' = NoRequest

(* A refused request leaves the game as its handler found it, whichever of the
   checks refuses it: no handler has a check after an effect.  Not so for
   ticks, see SetTick. *)
RefusedChangesNothing ==
    [][Answered /\ answer'.status # 200 /\ request.target # "tick"
          => game' = found]_vars

(* The dog of a player in the game obeys the token of that player only, and
   only while a handler runs. *)
OnlyOwnerTurns ==
    [][\A t \in players :
          heading'[t] # heading[t]
              => at # 0 /\ request.target = "action" /\ request.auth = t]_vars

(* Whoever learns of players or turns a dog is in the game when the request is
   handled: a token that was never given, or whose player has left since the
   request was sent, opens nothing. *)
OnlyPlayersServed ==
    [][Answered /\ answer'.status = 200
       /\ request.target \in {"players", "state", "action"}
          => request.auth \in players]_vars

(* The Allow header tells the truth: with an answer to a wrong method it names
   the methods that the method check of the target lets pass, all of them and
   no other.  The header and the check come from two tables. *)
AllowTellsTruth ==
    [][Answered /\ answer'.status = 405 =>
          answer'.allow = {m \in Methods : ~WrongMethod([request EXCEPT !.method = m])}]_vars

(* The example of the README for a tick, a PUT, is carried out. *)
TickExampleWorks ==
    [][Answered /\ request.target = "tick" /\ request.method = "PUT"
       /\ request.type = "json" /\ request.body = "good"
          => answer'.status = 200]_vars
=============================================================================
