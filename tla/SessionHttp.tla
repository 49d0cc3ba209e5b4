---------------------------- MODULE SessionHttp ----------------------------
(***************************************************************************)
(* The HTTP surface of a session: which handler a request reaches, which   *)
(* status its outcome is answered with, and what the client that ships     *)
(* with the server makes of that (src/olos/src/runtime/http*.ts, route.ts, *)
(* client*.ts).  Paths are split at their slashes below the session or the *)
(* live root; bodies are told apart by how their parsing ends.             *)
(***************************************************************************)
EXTENDS Integers, Sequences

CONSTANT SafeIds  \* ids that assertUrlSafeIdentifier lets pass

PostActions == {"slots", "commits", "transition", "heartbeat"}

GetActions == {"retention", "health"}

\* What a client can ask of the server.
Operations ==
  PostActions \cup GetActions \cup {"create", "master", "media"}

\* How the handling of a request ends.
Successes ==
  {"created", "issued", "committed", "idempotent", "transitioned",
   "refreshed", "planned", "judged", "served"}

Refusals ==
  {"unknown_slot", "not_found", "rejected", "conflict", "invalid",
   "too_large", "threw"}

----------------------------------------------------------------------------
(***************************************************************************)
(* The server.                                                             *)
(***************************************************************************)

\* Where the two surfaces are mounted, unless they are told otherwise.
SessionRoot == <<"sessions">>
LiveRoot == <<"v1", "live">>

IsBelow(root, path) ==
  Len(root) <= Len(path) /\ \A i \in 1 .. Len(root) : path[i] = root[i]

RootOf(path) ==
  CASE IsBelow(SessionRoot, path) -> "sessions"
    [] IsBelow(LiveRoot, path)    -> "live"
    [] OTHER                      -> "none"

\* routeParts: the segments below the root.
PartsOf(path) ==
  CASE RootOf(path) = "sessions" -> Tail(path)
    [] RootOf(path) = "live"     -> Tail(Tail(path))
    [] RootOf(path) = "none"     -> <<>>

\* handleSessionRoute: the operation that is reached, or a status.
SessionRoute(method, parts) ==
  CASE parts = <<>>          -> IF method = "POST" THEN "create" ELSE "405"
    [] parts # <<>> /\ Len(parts) # 2            -> "404"
    [] Len(parts) = 2 /\ parts[1] \notin SafeIds -> "400"
    [] Len(parts) = 2 /\ parts[1] \in SafeIds    ->
         CASE method \notin {"GET", "POST"}                         -> "405"
           [] method = "POST" /\ parts[2] \in PostActions -> parts[2]
           [] method = "POST" /\ parts[2] \in GetActions  -> "405"
           [] method = "GET" /\ parts[2] \in GetActions   -> parts[2]
           [] method = "GET" /\ parts[2] \in PostActions  -> "405"
           [] OTHER                                       -> "404"

\* handleLiveRoute: only the first parts count, and a master playlist takes
\* no blocking directives.
LiveRoute(method, parts, blocking) ==
  CASE method # "GET" -> "405"
    [] method = "GET" /\ Len(parts) >= 2 /\ parts[2] = "master.m3u8" ->
         IF parts[1] \notin SafeIds \/ blocking THEN "400" ELSE "master"
    [] method = "GET" /\ Len(parts) >= 3 /\ parts[2] # "master.m3u8"
         /\ parts[3] = "media.m3u8" ->
         IF parts[1] \notin SafeIds \/ parts[2] \notin SafeIds
         THEN "400" ELSE "media"
    [] OTHER -> "404"

\* handleStoredRuntimeRequest: the session root comes before the live root.
Route(r) ==
  CASE r.root \in {"sessions", "live"} /\ ~r.decodes -> "400"
    [] r.root = "sessions" /\ r.decodes -> SessionRoute(r.method, r.parts)
    [] r.root = "live" /\ r.decodes     -> LiveRoute(r.method, r.parts, r.blocking)
    [] OTHER                            -> "404"

\* boundedJsonRequestBody: a body is given up as soon as it is known to be
\* larger than the limit, by its declared length or by what has been read.
BodyOutcome(declared, length, limit, json) ==
  IF declared > limit \/ length > limit THEN "too_large"
  ELSE IF json THEN "valid" ELSE "invalid"

\* The status each outcome is answered with.
Status(outcome) ==
  CASE outcome \in {"created", "issued", "committed"}  -> 201
    [] outcome \in {"idempotent", "transitioned", "refreshed", "planned",
                    "judged", "served"}                -> 200
    [] outcome = "invalid"                             -> 400
    [] outcome \in {"unknown_slot", "not_found"}       -> 404
    [] outcome \in {"rejected", "conflict"}            -> 409
    [] outcome = "too_large"                           -> 413
    [] outcome = "threw"                               -> 500

----------------------------------------------------------------------------
(***************************************************************************)
(* The client.                                                             *)
(***************************************************************************)

\* What an id may be and a segment of a URL's path may not: the first stands
\* for the segment before it, the second for the one before that.
DotSegments == {".", ".."}

\* new URL(...) of a path that goes on with a segment.
Down(path, segment) ==
  CASE segment = "."  -> path
    [] segment = ".." -> SubSeq(path, 1, Len(path) - 1)
    [] segment \notin DotSegments -> Append(path, segment)

\* The paths that the client asks for.
ClientPath(op, id, track) ==
  LET session == Down(SessionRoot, id)
      live    == Down(LiveRoot, id)
  IN  CASE op = "create" -> SessionRoot
        [] op = "master" -> Down(live, "master.m3u8")
        [] op = "media"  -> Down(Down(live, track), "media.m3u8")
        [] OTHER         -> Down(session, op)

\* What the server sees of a request of its clients.
Sent(method, path) ==
  [method |-> method, root |-> RootOf(path), parts |-> PartsOf(path),
   decodes |-> TRUE, blocking |-> FALSE]

\* The request that a client function sends for session id.
ClientRequest(op, id, track) ==
  Sent(IF op \in GetActions \cup {"master", "media"} THEN "GET" ELSE "POST",
       ClientPath(op, id, track))

\* assertRuntimeHttpResponseOk: any other status is thrown.
Ok(status) == 200 <= status /\ status < 300

=============================================================================
