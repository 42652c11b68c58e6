----------------------------- MODULE RpcServer -----------------------------
(* The JSON-RPC server: address filter, authentication by cookie or user     *)
(* entry, batches whose requests are awaited one after the other, and the    *)
(* cookie file over rotations, crashes and restarts.  Handlers are external: *)
(* each request names how its handler ends.                                  *)
EXTENDS Integers, Sequences, SequencesExt, FiniteSetsExt

CONSTANTS Caller,         \* HTTP connections
          AllowedCallers, \* those whose address rpcallowip matches
          UserName, Password,
          RpcBodies,         \* sequences of [id, shape, outcome, code], or Garbage
          Garbage, NoCookie, EmptyFile,
          MaxSecrets      \* bound on the cookies drawn

\* A body that parses is a list of requests (a single one is a list of one).
ASSUME BodiesAssumption == \A body \in RpcBodies \ {Garbage} : body \in Seq(ToSet(body))

VARIABLES up,         \* the server runs
          cookieFile, \* NoCookie, EmptyFile or a cookie
          cookie,     \* AuthManager.cookie
          drawn,      \* cookies drawn so far: the next one is drawn + 1
          users,      \* users: name to password
          calls,      \* the HTTP exchange of each caller
          runs        \* requests of the open exchanges that reached a handler: caller and place

rpcVars == <<up, cookieFile, cookie, drawn, users, calls, runs>>

Idle == [at |-> "idle", body |-> Garbage, answers |-> <<>>, status |-> 0]

RpcInit ==
    /\ up = FALSE /\ cookieFile = NoCookie /\ cookie = NoCookie /\ drawn = 0
    /\ users = << >> /\ calls = [c \in Caller |-> Idle] /\ runs = {}

-----------------------------------------------------------------------------
(* AuthManager                                                               *)

\* _generate_cookie: an existing file is kept and read, a file without a colon
\* stops the start.
LoadOrCreate ==
    /\ drawn < MaxSecrets /\ drawn' = drawn + 1
    /\ \/ cookieFile = NoCookie /\ cookieFile' = drawn + 1 /\ cookie' = drawn + 1
       \/ cookieFile \notin {NoCookie, EmptyFile} /\ cookie' = cookieFile /\ UNCHANGED cookieFile

StartServer ==
    /\ ~up
    /\ LoadOrCreate
    /\ up' = TRUE /\ users' = << >>
    /\ UNCHANGED <<calls, runs>>

\* The exclusive create has made the file and the process dies before the
\* write, during a start or a rotation.
DieInCreate ==
    /\ up \/ cookieFile = NoCookie
    /\ drawn < MaxSecrets /\ drawn' = drawn + 1
    /\ up' = FALSE /\ cookie' = NoCookie /\ cookieFile' = EmptyFile
    /\ calls' = [c \in Caller |-> Idle] /\ runs' = {}
    /\ UNCHANGED users

StopServer ==
    /\ up
    /\ up' = FALSE /\ cookie' = NoCookie
    /\ calls' = [c \in Caller |-> Idle] /\ runs' = {}
    /\ UNCHANGED <<cookieFile, drawn, users>>

\* rotate_cookie: unlink, then _generate_cookie.
RotateCookie ==
    /\ up /\ drawn < MaxSecrets
    /\ drawn' = drawn + 1 /\ cookie' = drawn + 1 /\ cookieFile' = drawn + 1
    /\ UNCHANGED <<up, users, calls, runs>>

AddUser(u, p) ==
    /\ up /\ u \notin DOMAIN users
    /\ users' = [v \in DOMAIN users \cup {u} |-> IF v = u THEN p ELSE users[v]]
    /\ UNCHANGED <<up, cookieFile, cookie, drawn, calls, runs>>

RemoveUser(u) ==
    /\ up /\ u \in DOMAIN users
    /\ users' = [v \in DOMAIN users \ {u} |-> users[v]]
    /\ UNCHANGED <<up, cookieFile, cookie, drawn, calls, runs>>

\* A credential is [name, secret]; "berzcoin" goes with the cookie.
Authenticate(cred) ==
    \/ cred.name = "berzcoin" /\ cred.secret = cookie
    \/ cred.name \in DOMAIN users /\ users[cred.name] = cred.secret

-----------------------------------------------------------------------------
(* _handle_request                                                           *)

Refused(c, status) == calls' = [calls EXCEPT ![c] = [Idle EXCEPT !.at = "answered", !.status = status]]

\* A request arrives: address, then credential.
Admit(c, cred, body) ==
    /\ up /\ calls[c].at = "idle"
    /\ IF c \notin AllowedCallers THEN Refused(c, 403)
       ELSE IF ~Authenticate(cred) THEN Refused(c, 401)
       ELSE calls' = [calls EXCEPT ![c] = [Idle EXCEPT !.at = "reading", !.body = body]]
    /\ UNCHANGED <<up, cookieFile, cookie, drawn, users, runs>>

\* await request.json()
ReadBody(c) ==
    /\ calls[c].at = "reading"
    /\ IF calls[c].body = Garbage THEN Refused(c, 400)
       ELSE calls' = [calls EXCEPT ![c].at = "running"]
    /\ UNCHANGED <<up, cookieFile, cookie, drawn, users, runs>>

\* _process_request: what a request is answered.
Answer(r) ==
    CASE r.shape \in {"notObject", "notV2", "noMethod"} -> -32600
      [] r.shape = "unknownMethod"   -> -32601
      [] r.outcome \in {"typeError", "valueError"} -> -32602
      [] r.outcome = "rpcError"      -> r.code
      [] r.outcome = "otherError"    -> -32000
      [] OTHER                       -> 0

Reaches(r) == r.shape = "call"

FaultProcessNext(c) ==
    LET n == Len(calls[c].answers) + 1  body == calls[c].body
    IN  /\ calls[c].at = "running" /\ n <= Len(body)
        /\ runs' = IF Reaches(body[n]) THEN runs \cup {<<c, n>>} ELSE runs
        /\ calls' = [calls EXCEPT ![c].answers = Append(@, [id |-> body[n].id, code |-> Answer(body[n])]),
                                  ![c].at = IF Answer(body[n]) = -32000 THEN "finishing" ELSE "running"]
        /\ UNCHANGED <<up, cookieFile, cookie, drawn, users>>

\* One request of the body: its handler is awaited before the next one starts.
ProcessNext(c) ==
    LET n == Len(calls[c].answers) + 1  body == calls[c].body
    IN  /\ calls[c].at = "running" /\ n <= Len(body)
        /\ runs' = IF Reaches(body[n]) THEN runs \cup {<<c, n>>} ELSE runs
        /\ calls' = [calls EXCEPT ![c].answers = Append(@, [id |-> body[n].id, code |-> Answer(body[n])]),
                                  ![c].at = IF n = Len(body) THEN "finishing" ELSE "running"]
        /\ UNCHANGED <<up, cookieFile, cookie, drawn, users>>

\* json_response: a result that is no JSON turns the whole answer into a 500.
Finish(c) ==
    /\ \/ calls[c].at = "finishing"
       \/ calls[c].at = "running" /\ calls[c].body = <<>>
    /\ IF \E i \in 1..Len(calls[c].body) : calls[c].body[i].outcome = "notJson"
                                          /\ calls[c].body[i].shape = "call"
       THEN calls' = [calls EXCEPT ![c] = [@ EXCEPT !.at = "answered", !.status = 500, !.answers = <<>>]]
       ELSE calls' = [calls EXCEPT ![c] = [@ EXCEPT !.at = "answered", !.status = 200]]
    /\ UNCHANGED <<up, cookieFile, cookie, drawn, users, runs>>

\* The response has left; the connection may be used again.
HangUp(c) ==
    /\ calls[c].at = "answered"
    /\ calls' = [calls EXCEPT ![c] = Idle]
    /\ runs' = {r \in runs : r[1] # c}
    /\ UNCHANGED <<up, cookieFile, cookie, drawn, users>>

\* /health, /ready and the metrics ask for the address only.
Probe(c, ok) ==
    /\ up /\ calls[c].at = "idle"
    /\ Refused(c, IF c \notin AllowedCallers THEN 403 ELSE IF ok THEN 200 ELSE 503)
    /\ UNCHANGED <<up, cookieFile, cookie, drawn, users, runs>>

Credentials ==
    [name : {"berzcoin"}, secret : 1..MaxSecrets] \cup [name : UserName, secret : Password]

RpcNext ==
    \/ StartServer \/ StopServer \/ DieInCreate \/ RotateCookie
    \/ \E u \in UserName : RemoveUser(u) \/ \E p \in Password : AddUser(u, p)
    \/ \E c \in Caller :
         \/ \E cred \in Credentials, body \in RpcBodies : Admit(c, cred, body)
         \/ ReadBody(c) \/ ProcessNext(c) \/ Finish(c) \/ HangUp(c)
         \/ \E ok \in BOOLEAN : Probe(c, ok)

RpcSpec == RpcInit /\ [][RpcNext]_rpcVars

-----------------------------------------------------------------------------
(* Properties                                                                *)

\* A batch answered with 200 has one answer for every request, in their order
\* and under their ids, and every request that names a method was run, also
\* after one that failed.
BatchAnswered ==
    \A c \in Caller : (calls[c].status = 200 /\ calls[c].body # Garbage) =>
        /\ Len(calls[c].answers) = Len(calls[c].body)
        /\ \A i \in 1..Len(calls[c].body) :
              /\ calls[c].answers[i].id = calls[c].body[i].id
              /\ Reaches(calls[c].body[i]) <=> <<c, i>> \in runs

\* The cookie that a client reads from the file is the one a running server
\* takes, over restarts, rotations and crashes.
CookieUsable == up => cookieFile = cookie

\* A client with the cookie of the file gets in, and gets an answer to every
\* call of its batch.
ClientsServed == BatchAnswered /\ CookieUsable
=============================================================================
