----------------------------- MODULE HttpProofs -----------------------------
(***************************************************************************)
(* That the two sides of the HTTP surface agree: what the clients send     *)
(* reaches its handler and is read there, and what the handlers answer is  *)
(* taken by the clients for what it is.                                    *)
(***************************************************************************)
EXTENDS S3Http, FiniteSetTheorems, SequenceTheorems, TLAPS

----------------------------------------------------------------------------
(***************************************************************************)
(* Routes.                                                                 *)
(***************************************************************************)

\* A path and the one that it goes on to, by one segment.
LEMMA PathSteps ==
  /\ \A a, b : Append(<<a>>, b) = <<a, b>>
  /\ \A a, b, c : Append(<<a, b>>, c) = <<a, b, c>>
  /\ \A a, b, c, d : Append(<<a, b, c>>, d) = <<a, b, c, d>>
  /\ \A a, b, c, d, e : Append(<<a, b, c, d>>, e) = <<a, b, c, d, e>>
  /\ \A a, b : SubSeq(<<a, b>>, 1, 1) = <<a>>
  /\ \A a, b, c : SubSeq(<<a, b, c>>, 1, 2) = <<a, b>>
<1>1. ASSUME NEW a, NEW b
      PROVE  Append(<<a>>, b) = <<a, b>>
  <2> DEFINE S == {a, b}
  <2>1. <<a>> \in Seq(S) /\ <<a, b>> \in Seq(S) /\ b \in S
    OBVIOUS
  <2>2. Append(<<a>>, b) \in Seq(S)
    BY <2>1
  <2>3. /\ Len(Append(<<a>>, b)) = 2
        /\ \A i \in 1 .. 2 : Append(<<a>>, b)[i] = <<a, b>>[i]
    BY <2>1
  <2> QED
    BY <2>1, <2>2, <2>3, SeqEqual
<1>2. ASSUME NEW a, NEW b, NEW c
      PROVE  Append(<<a, b>>, c) = <<a, b, c>>
  <2> DEFINE S == {a, b, c}
  <2>1. <<a, b>> \in Seq(S) /\ <<a, b, c>> \in Seq(S) /\ c \in S
    OBVIOUS
  <2>2. Append(<<a, b>>, c) \in Seq(S)
    BY <2>1
  <2>3. /\ Len(Append(<<a, b>>, c)) = 3
        /\ \A i \in 1 .. 3 : Append(<<a, b>>, c)[i] = <<a, b, c>>[i]
    BY <2>1
  <2> QED
    BY <2>1, <2>2, <2>3, SeqEqual
<1>3. ASSUME NEW a, NEW b, NEW c, NEW d
      PROVE  Append(<<a, b, c>>, d) = <<a, b, c, d>>
  <2> DEFINE S == {a, b, c, d}
  <2>1. <<a, b, c>> \in Seq(S) /\ <<a, b, c, d>> \in Seq(S) /\ d \in S
    OBVIOUS
  <2>2. Append(<<a, b, c>>, d) \in Seq(S)
    BY <2>1
  <2>3. /\ Len(Append(<<a, b, c>>, d)) = 4
        /\ \A i \in 1 .. 4 : Append(<<a, b, c>>, d)[i] = <<a, b, c, d>>[i]
    BY <2>1
  <2> QED
    BY <2>1, <2>2, <2>3, SeqEqual
<1>4. ASSUME NEW a, NEW b, NEW c, NEW d, NEW e
      PROVE  Append(<<a, b, c, d>>, e) = <<a, b, c, d, e>>
  <2> DEFINE S == {a, b, c, d, e}
  <2>1. <<a, b, c, d>> \in Seq(S) /\ <<a, b, c, d, e>> \in Seq(S) /\ e \in S
    OBVIOUS
  <2>2. Append(<<a, b, c, d>>, e) \in Seq(S)
    BY <2>1
  <2>3. /\ Len(Append(<<a, b, c, d>>, e)) = 5
        /\ \A i \in 1 .. 5 : Append(<<a, b, c, d>>, e)[i] = <<a, b, c, d, e>>[i]
    BY <2>1
  <2> QED
    BY <2>1, <2>2, <2>3, SeqEqual
<1>5. ASSUME NEW a, NEW b
      PROVE  SubSeq(<<a, b>>, 1, 1) = <<a>>
  <2> DEFINE S == {a, b}
  <2>1. <<a>> \in Seq(S) /\ <<a, b>> \in Seq(S) /\ b \in S
    OBVIOUS
  <2>2. SubSeq(<<a, b>>, 1, 1) \in Seq(S)
    BY <2>1
  <2>3. /\ Len(SubSeq(<<a, b>>, 1, 1)) = 1
        /\ \A i \in 1 .. 1 : SubSeq(<<a, b>>, 1, 1)[i] = <<a>>[i]
    BY <2>1
  <2> QED
    BY <2>1, <2>2, <2>3, SeqEqual
<1>6. ASSUME NEW a, NEW b, NEW c
      PROVE  SubSeq(<<a, b, c>>, 1, 2) = <<a, b>>
  <2> DEFINE S == {a, b, c}
  <2>1. <<a, b>> \in Seq(S) /\ <<a, b, c>> \in Seq(S) /\ c \in S
    OBVIOUS
  <2>2. SubSeq(<<a, b, c>>, 1, 2) \in Seq(S)
    BY <2>1
  <2>3. /\ Len(SubSeq(<<a, b, c>>, 1, 2)) = 2
        /\ \A i \in 1 .. 2 : SubSeq(<<a, b, c>>, 1, 2)[i] = <<a, b>>[i]
    BY <2>1
  <2> QED
    BY <2>1, <2>2, <2>3, SeqEqual
<1> QED
  BY <1>1, <1>2, <1>3, <1>4, <1>5, <1>6

\* A path that goes on with segments that are none of dots.
LEMMA PathsGrow ==
  /\ \A a, b : b \notin DotSegments => Down(<<a>>, b) = <<a, b>>
  /\ \A a, b, c : c \notin DotSegments => Down(<<a, b>>, c) = <<a, b, c>>
  /\ \A a, b, c, d : d \notin DotSegments =>
       Down(<<a, b, c>>, d) = <<a, b, c, d>>
  /\ \A a, b, c, d, e : e \notin DotSegments =>
       Down(<<a, b, c, d>>, e) = <<a, b, c, d, e>>
<1>1. ASSUME NEW p, NEW x, x \notin DotSegments
      PROVE  Down(p, x) = Append(p, x)
  BY <1>1 DEF Down, DotSegments
<1>2. ASSUME NEW a, NEW b, b \notin DotSegments
      PROVE  Down(<<a>>, b) = <<a, b>>
  <2>1. Down(<<a>>, b) = Append(<<a>>, b)
    BY <1>1, <1>2
  <2>2. Append(<<a>>, b) = <<a, b>>
    BY PathSteps
  <2> QED
    BY <2>1, <2>2
<1>3. ASSUME NEW a, NEW b, NEW c, c \notin DotSegments
      PROVE  Down(<<a, b>>, c) = <<a, b, c>>
  <2>1. Down(<<a, b>>, c) = Append(<<a, b>>, c)
    BY <1>1, <1>3
  <2>2. Append(<<a, b>>, c) = <<a, b, c>>
    BY PathSteps
  <2> QED
    BY <2>1, <2>2
<1>4. ASSUME NEW a, NEW b, NEW c, NEW d, d \notin DotSegments
      PROVE  Down(<<a, b, c>>, d) = <<a, b, c, d>>
  <2>1. Down(<<a, b, c>>, d) = Append(<<a, b, c>>, d)
    BY <1>1, <1>4
  <2>2. Append(<<a, b, c>>, d) = <<a, b, c, d>>
    BY PathSteps
  <2> QED
    BY <2>1, <2>2
<1>5. ASSUME NEW a, NEW b, NEW c, NEW d, NEW e, e \notin DotSegments
      PROVE  Down(<<a, b, c, d>>, e) = <<a, b, c, d, e>>
  <2>1. Down(<<a, b, c, d>>, e) = Append(<<a, b, c, d>>, e)
    BY <1>1, <1>5
  <2>2. Append(<<a, b, c, d>>, e) = <<a, b, c, d, e>>
    BY PathSteps
  <2> QED
    BY <2>1, <2>2
<1> QED
  BY <1>2, <1>3, <1>4, <1>5

\* Dots leave a path as it is or take a segment from it.
LEMMA DotsShorten ==
  /\ \A p : Down(p, ".") = p
  /\ \A a : Down(<<a>>, "..") = <<>>
  /\ \A a, b : Down(<<a, b>>, "..") = <<a>>
  /\ \A a, b, c : Down(<<a, b, c>>, "..") = <<a, b>>
<1>1. ASSUME NEW p
      PROVE  Down(p, ".") = p /\ Down(p, "..") = SubSeq(p, 1, Len(p) - 1)
  BY DEF Down, DotSegments
<1>2. ASSUME NEW a, NEW b, NEW c
      PROVE  Len(<<a>>) - 1 = 0 /\ Len(<<a, b>>) - 1 = 1 /\ Len(<<a, b, c>>) - 1 = 2
  OBVIOUS
<1>3. \A a : SubSeq(<<a>>, 1, 0) = <<>>
  OBVIOUS
<1>4. ASSUME NEW a PROVE Down(<<a>>, "..") = <<>>
  BY <1>1, <1>2, <1>3
<1>5. ASSUME NEW a, NEW b PROVE Down(<<a, b>>, "..") = <<a>>
  <2>0. Down(<<a, b>>, "..") = SubSeq(<<a, b>>, 1, Len(<<a, b>>) - 1)
    BY <1>1
  <2>1. Down(<<a, b>>, "..") = SubSeq(<<a, b>>, 1, 1)
    BY <1>2, <2>0
  <2>2. SubSeq(<<a, b>>, 1, 1) = <<a>>
    BY PathSteps
  <2> QED
    BY <2>1, <2>2
<1>6. ASSUME NEW a, NEW b, NEW c PROVE Down(<<a, b, c>>, "..") = <<a, b>>
  <2>0. Down(<<a, b, c>>, "..") = SubSeq(<<a, b, c>>, 1, Len(<<a, b, c>>) - 1)
    BY <1>1
  <2>1. Down(<<a, b, c>>, "..") = SubSeq(<<a, b, c>>, 1, 2)
    BY <1>2, <2>0
  <2>2. SubSeq(<<a, b, c>>, 1, 2) = <<a, b>>
    BY PathSteps
  <2> QED
    BY <2>1, <2>2
<1> QED
  BY <1>1, <1>4, <1>5, <1>6

\* What the server finds below its roots.
LEMMA PathsSplit ==
  /\ RootOf(SessionRoot) = "sessions" /\ PartsOf(SessionRoot) = <<>>
  /\ \A a : /\ RootOf(<<"sessions", a>>) = "sessions"
            /\ PartsOf(<<"sessions", a>>) = <<a>>
  /\ \A a, b : /\ RootOf(<<"sessions", a, b>>) = "sessions"
               /\ PartsOf(<<"sessions", a, b>>) = <<a, b>>
  /\ \A a, b, c : /\ RootOf(<<"sessions", a, b, c>>) = "sessions"
                  /\ PartsOf(<<"sessions", a, b, c>>) = <<a, b, c>>
  /\ \A a, b, c, d : /\ RootOf(<<"sessions", a, b, c, d>>) = "sessions"
                     /\ PartsOf(<<"sessions", a, b, c, d>>) = <<a, b, c, d>>
  /\ \A a : /\ RootOf(<<"v1", "live", a>>) = "live"
            /\ PartsOf(<<"v1", "live", a>>) = <<a>>
  /\ \A a, b : /\ RootOf(<<"v1", "live", a, b>>) = "live"
               /\ PartsOf(<<"v1", "live", a, b>>) = <<a, b>>
  /\ \A a, b, c : /\ RootOf(<<"v1", "live", a, b, c>>) = "live"
                  /\ PartsOf(<<"v1", "live", a, b, c>>) = <<a, b, c>>
<1>1. \A p : IsBelow(SessionRoot, p) <=> 1 <= Len(p) /\ p[1] = "sessions"
  BY DEF IsBelow, SessionRoot
<1>2. \A p : IsBelow(LiveRoot, p) <=>
              2 <= Len(p) /\ p[1] = "v1" /\ p[2] = "live"
  BY DEF IsBelow, LiveRoot
<1>3. ASSUME NEW p, 1 <= Len(p), p[1] = "sessions"
      PROVE  RootOf(p) = "sessions" /\ PartsOf(p) = Tail(p)
  <2>1. RootOf(p) = "sessions"
    BY <1>1, <1>3, <1>2 DEF RootOf
  <2> QED
    BY <2>1 DEF PartsOf
<1>4. ASSUME NEW p, 2 <= Len(p), p[1] = "v1", p[2] = "live"
      PROVE  RootOf(p) = "live" /\ PartsOf(p) = Tail(Tail(p))
  <2>1. RootOf(p) = "live"
    BY <1>1, <1>2, <1>4 DEF RootOf
  <2> QED
    BY <2>1 DEF PartsOf
<1>5. RootOf(SessionRoot) = "sessions" /\ PartsOf(SessionRoot) = <<>>
  BY <1>3 DEF SessionRoot
<1>6. ASSUME NEW a
      PROVE  /\ RootOf(<<"sessions", a>>) = "sessions"
             /\ PartsOf(<<"sessions", a>>) = <<a>>
  <2>1. 1 <= Len(<<"sessions", a>>)
    OBVIOUS
  <2>2. <<"sessions", a>>[1] = "sessions"
    OBVIOUS
  <2>3. Tail(<<"sessions", a>>) = <<a>>
    OBVIOUS
  <2> QED
    BY <1>3, <2>1, <2>2, <2>3
<1>7. ASSUME NEW a, NEW b
      PROVE  /\ RootOf(<<"sessions", a, b>>) = "sessions"
             /\ PartsOf(<<"sessions", a, b>>) = <<a, b>>
  <2>1. 1 <= Len(<<"sessions", a, b>>)
    OBVIOUS
  <2>2. <<"sessions", a, b>>[1] = "sessions"
    OBVIOUS
  <2>3. Tail(<<"sessions", a, b>>) = <<a, b>>
    OBVIOUS
  <2> QED
    BY <1>3, <2>1, <2>2, <2>3
<1>8. ASSUME NEW a, NEW b, NEW c
      PROVE  /\ RootOf(<<"sessions", a, b, c>>) = "sessions"
             /\ PartsOf(<<"sessions", a, b, c>>) = <<a, b, c>>
  <2>1. 1 <= Len(<<"sessions", a, b, c>>)
    OBVIOUS
  <2>2. <<"sessions", a, b, c>>[1] = "sessions"
    OBVIOUS
  <2>3. Tail(<<"sessions", a, b, c>>) = <<a, b, c>>
    OBVIOUS
  <2> QED
    BY <1>3, <2>1, <2>2, <2>3
<1>9. ASSUME NEW a, NEW b, NEW c, NEW d
      PROVE  /\ RootOf(<<"sessions", a, b, c, d>>) = "sessions"
             /\ PartsOf(<<"sessions", a, b, c, d>>) = <<a, b, c, d>>
  <2>1. 1 <= Len(<<"sessions", a, b, c, d>>)
    OBVIOUS
  <2>2. <<"sessions", a, b, c, d>>[1] = "sessions"
    OBVIOUS
  <2>3. Tail(<<"sessions", a, b, c, d>>) = <<a, b, c, d>>
    OBVIOUS
  <2> QED
    BY <1>3, <2>1, <2>2, <2>3
<1>10. ASSUME NEW a
      PROVE  /\ RootOf(<<"v1", "live", a>>) = "live"
             /\ PartsOf(<<"v1", "live", a>>) = <<a>>
  <2>1. 2 <= Len(<<"v1", "live", a>>)
    OBVIOUS
  <2>2. <<"v1", "live", a>>[1] = "v1" /\ <<"v1", "live", a>>[2] = "live"
    OBVIOUS
  <2>3. Tail(Tail(<<"v1", "live", a>>)) = <<a>>
    OBVIOUS
  <2> QED
    BY <1>4, <2>1, <2>2, <2>3
<1>11. ASSUME NEW a, NEW b
      PROVE  /\ RootOf(<<"v1", "live", a, b>>) = "live"
             /\ PartsOf(<<"v1", "live", a, b>>) = <<a, b>>
  <2>1. 2 <= Len(<<"v1", "live", a, b>>)
    OBVIOUS
  <2>2. <<"v1", "live", a, b>>[1] = "v1" /\ <<"v1", "live", a, b>>[2] = "live"
    OBVIOUS
  <2>3. Tail(Tail(<<"v1", "live", a, b>>)) = <<a, b>>
    OBVIOUS
  <2> QED
    BY <1>4, <2>1, <2>2, <2>3
<1>12. ASSUME NEW a, NEW b, NEW c
      PROVE  /\ RootOf(<<"v1", "live", a, b, c>>) = "live"
             /\ PartsOf(<<"v1", "live", a, b, c>>) = <<a, b, c>>
  <2>1. 2 <= Len(<<"v1", "live", a, b, c>>)
    OBVIOUS
  <2>2. <<"v1", "live", a, b, c>>[1] = "v1" /\ <<"v1", "live", a, b, c>>[2] = "live"
    OBVIOUS
  <2>3. Tail(Tail(<<"v1", "live", a, b, c>>)) = <<a, b, c>>
    OBVIOUS
  <2> QED
    BY <1>4, <2>1, <2>2, <2>3
<1> QED
  BY <1>5, <1>6, <1>7, <1>8, <1>9,
     <1>10, <1>11, <1>12

\* None of the names in the clients' paths is one of dots.
LEMMA NamesAreNoDots ==
  /\ \A name \in {"master.m3u8", "media.m3u8", "s3", "upload-slots", "complete"} :
       name \notin DotSegments
  /\ \A op \in Operations \cup S3Operations : op \notin DotSegments
BY DEF Operations, PostActions, GetActions, S3Operations, S3Actions,
       DotSegments

\* The paths that the runtime's client asks for, of ids that are no dots.
LEMMA ClientPaths ==
  ASSUME NEW id, id \notin DotSegments, NEW track, track \notin DotSegments,
         NEW op \in Operations
  PROVE  ClientPath(op, id, track) =
           CASE op = "create" -> SessionRoot
             [] op = "master" -> <<"v1", "live", id, "master.m3u8">>
             [] op = "media"  -> <<"v1", "live", id, track, "media.m3u8">>
             [] OTHER         -> <<"sessions", id, op>>
<1>1. /\ Down(SessionRoot, id) = <<"sessions", id>>
      /\ Down(LiveRoot, id) = <<"v1", "live", id>>
  BY PathsGrow DEF SessionRoot, LiveRoot
<1>2. Down(<<"sessions", id>>, op) = <<"sessions", id, op>>
  BY NamesAreNoDots, PathsGrow
<1>3. Down(<<"v1", "live", id>>, "master.m3u8") = <<"v1", "live", id, "master.m3u8">>
  BY NamesAreNoDots, PathsGrow
<1>4. Down(Down(<<"v1", "live", id>>, track), "media.m3u8")
        = <<"v1", "live", id, track, "media.m3u8">>
  <2>1. Down(<<"v1", "live", id>>, track) = <<"v1", "live", id, track>>
    BY PathsGrow
  <2>2. Down(<<"v1", "live", id, track>>, "media.m3u8")
          = <<"v1", "live", id, track, "media.m3u8">>
    BY NamesAreNoDots, PathsGrow
  <2> QED
    BY <2>1, <2>2
<1> QED
  BY <1>1, <1>2, <1>3, <1>4 DEF ClientPath

\* What the server makes of them.
LEMMA ClientRequestsSent ==
  ASSUME NEW id, id \notin DotSegments, NEW track, track \notin DotSegments,
         NEW op \in Operations
  PROVE  LET r == ClientRequest(op, id, track)
         IN  /\ r.decodes /\ ~r.blocking
             /\ r.method = IF op \in GetActions \cup {"master", "media"}
                           THEN "GET" ELSE "POST"
             /\ r.root = IF op \in {"master", "media"} THEN "live" ELSE "sessions"
             /\ r.parts = CASE op = "create" -> <<>>
                            [] op = "master" -> <<id, "master.m3u8">>
                            [] op = "media"  -> <<id, track, "media.m3u8">>
                            [] OTHER         -> <<id, op>>
<1> DEFINE r == ClientRequest(op, id, track)
           path == ClientPath(op, id, track)
<1>1. /\ r.decodes /\ ~r.blocking
      /\ r.method = IF op \in GetActions \cup {"master", "media"}
                    THEN "GET" ELSE "POST"
      /\ r.root = RootOf(path) /\ r.parts = PartsOf(path)
  BY DEF ClientRequest, Sent
<1>2. CASE op = "create"
  <2>1. path = SessionRoot
    BY <1>2, ClientPaths
  <2> QED
    BY <1>1, <1>2, <2>1, PathsSplit
<1>3. CASE op = "master"
  <2>1. path = <<"v1", "live", id, "master.m3u8">>
    BY <1>3, ClientPaths
  <2> QED
    BY <1>1, <1>3, <2>1, PathsSplit
<1>4. CASE op = "media"
  <2>1. path = <<"v1", "live", id, track, "media.m3u8">>
    BY <1>4, ClientPaths
  <2> QED
    BY <1>1, <1>4, <2>1, PathsSplit
<1>5. CASE op \notin {"create", "master", "media"}
  <2>1. path = <<"sessions", id, op>>
    BY <1>5, ClientPaths
  <2> QED
    BY <1>1, <1>5, <2>1, PathsSplit
<1> QED
  BY <1>2, <1>3, <1>4, <1>5

\* Every request of the runtime's client reaches the operation it is meant
\* for, unless the session or the track is named by dots, or the track like
\* the master playlist.
THEOREM ClientRequestsRouted ==
  ASSUME NEW id \in SafeIds \ DotSegments, NEW track \in SafeIds \ DotSegments,
         track # "master.m3u8", NEW op \in Operations
  PROVE  Route(ClientRequest(op, id, track)) = op
<1> DEFINE r == ClientRequest(op, id, track)
<1>0. /\ r.decodes /\ ~r.blocking
      /\ r.method = IF op \in GetActions \cup {"master", "media"}
                    THEN "GET" ELSE "POST"
      /\ r.root = IF op \in {"master", "media"} THEN "live" ELSE "sessions"
      /\ r.parts = CASE op = "create" -> <<>>
                     [] op = "master" -> <<id, "master.m3u8">>
                     [] op = "media"  -> <<id, track, "media.m3u8">>
                     [] OTHER         -> <<id, op>>
  BY ClientRequestsSent
<1> HIDE DEF r
<1>1. CASE op = "create"
  <2>1. r.root = "sessions" /\ r.method = "POST" /\ r.parts = <<>>
    BY <1>0, <1>1 DEF GetActions
  <2> QED BY <1>0, <1>1, <2>1 DEF Route, SessionRoute, r
<1>2. CASE op \in PostActions \cup GetActions
  <2>1. /\ r.root = "sessions" /\ r.parts = <<id, op>>
        /\ r.method = IF op \in GetActions THEN "GET" ELSE "POST"
    BY <1>0, <1>2 DEF GetActions, PostActions
  <2> QED
    BY <1>0, <1>2, <2>1 DEF Route, SessionRoute, PostActions, GetActions, r
<1>3. CASE op = "master"
  <2>1. r.root = "live" /\ r.method = "GET" /\ r.parts = <<id, "master.m3u8">>
    BY <1>0, <1>3
  <2> QED BY <1>0, <1>3, <2>1 DEF Route, LiveRoute, r
<1>4. CASE op = "media"
  <2>1. /\ r.root = "live" /\ r.method = "GET"
        /\ r.parts = <<id, track, "media.m3u8">>
    BY <1>0, <1>4
  <2> QED BY <1>0, <1>4, <2>1 DEF Route, LiveRoute, r
<1> QED BY <1>1, <1>2, <1>3, <1>4 DEF Operations

\* The S3 routes take none of the requests of the runtime's client, and the
\* handler that is composed of both serves each client as it expects, again
\* unless a session, a track or a slot is named by dots.
THEOREM RequestsHandled ==
  ASSUME NEW id \in SafeIds \ DotSegments, NEW track \in SafeIds \ DotSegments,
         track # "master.m3u8", NEW slot \in SafeIds \ DotSegments
  PROVE  /\ \A op \in Operations :
              Handled(ClientRequest(op, id, track)) = <<"runtime", op>>
         /\ \A op \in S3Operations :
              Handled(S3ClientRequest(op, id, slot)) = <<"s3", op>>
<1>1. ASSUME NEW op \in Operations
      PROVE  Handled(ClientRequest(op, id, track)) = <<"runtime", op>>
  <2> DEFINE r == ClientRequest(op, id, track)
  <2>1. r.root # "sessions" \/ (r.decodes /\ r.parts \in {<<>>, <<id, op>>})
    <3>1. /\ r.decodes
          /\ r.root = IF op \in {"master", "media"} THEN "live" ELSE "sessions"
          /\ r.parts = CASE op = "create" -> <<>>
                         [] op = "master" -> <<id, "master.m3u8">>
                         [] op = "media"  -> <<id, track, "media.m3u8">>
                         [] OTHER         -> <<id, op>>
      BY ClientRequestsSent
    <3> HIDE DEF r
    <3>2. op \notin {"master", "media"} => r.parts \in {<<>>, <<id, op>>}
      BY <3>1
    <3> QED
      BY <3>1, <3>2
  <2>2. S3Action(<<>>) = "not_s3" /\ S3Action(<<id, op>>) = "not_s3"
    BY DEF S3Action
  <2>3. S3Route(r) = "not_s3"
    <3>1. CASE r.root # "sessions"
      BY <3>1 DEF S3Route
    <3>2. CASE r.root = "sessions"
      <4>1. r.decodes /\ S3Action(r.parts) = "not_s3"
        BY <2>1, <2>2, <3>2
      <4> QED BY <3>2, <4>1 DEF S3Route
    <3> QED BY <3>1, <3>2
  <2>4. Route(r) = op
    BY ClientRequestsRouted
  <2> QED BY <2>3, <2>4 DEF Handled
<1>2. ASSUME NEW op \in S3Operations
      PROVE  Handled(S3ClientRequest(op, id, slot)) = <<"s3", op>>
  <2> DEFINE r == S3ClientRequest(op, id, slot)
  <2>1. /\ r.method = "POST" /\ r.root = "sessions" /\ r.decodes
        /\ r.parts = IF op = "completion-hint"
                     THEN <<id, "upload-slots", slot, "complete">>
                     ELSE <<id, "s3", op>>
    <3> DEFINE path ==
          IF op = "completion-hint"
          THEN <<"sessions", id, "upload-slots", slot, "complete">>
          ELSE <<"sessions", id, "s3", op>>
    <3>1. Down(SessionRoot, id) = <<"sessions", id>>
      BY PathsGrow DEF SessionRoot
    <3>2. Down(Down(<<"sessions", id>>, "s3"), op) = <<"sessions", id, "s3", op>>
      <4>1. Down(<<"sessions", id>>, "s3") = <<"sessions", id, "s3">>
        BY NamesAreNoDots, PathsGrow
      <4>2. Down(<<"sessions", id, "s3">>, op) = <<"sessions", id, "s3", op>>
        BY NamesAreNoDots, PathsGrow
      <4> QED
        BY <4>1, <4>2
    <3>3. Down(Down(Down(<<"sessions", id>>, "upload-slots"), slot), "complete")
            = <<"sessions", id, "upload-slots", slot, "complete">>
      <4>1. Down(<<"sessions", id>>, "upload-slots")
              = <<"sessions", id, "upload-slots">>
        BY NamesAreNoDots, PathsGrow
      <4>2. Down(<<"sessions", id, "upload-slots">>, slot)
              = <<"sessions", id, "upload-slots", slot>>
        BY PathsGrow
      <4>3. Down(<<"sessions", id, "upload-slots", slot>>, "complete")
              = <<"sessions", id, "upload-slots", slot, "complete">>
        BY NamesAreNoDots, PathsGrow
      <4> QED
        BY <4>1, <4>2, <4>3
    <3>4. r = Sent("POST", path)
      BY <3>1, <3>2, <3>3 DEF S3ClientRequest
    <3>5. /\ r.method = "POST" /\ r.decodes
          /\ r.root = RootOf(path) /\ r.parts = PartsOf(path)
      BY <3>4 DEF Sent
    <3>6. CASE op = "completion-hint"
      <4>1. path = <<"sessions", id, "upload-slots", slot, "complete">>
        BY <3>6
      <4> QED
        BY <3>5, <3>6, <4>1, PathsSplit
    <3>7. CASE op # "completion-hint"
      <4>1. path = <<"sessions", id, "s3", op>>
        BY <3>7
      <4> QED
        BY <3>5, <3>7, <4>1, PathsSplit
    <3> QED
      BY <3>6, <3>7
  <2>2. S3Action(r.parts) = op /\ op # "not_s3"
    BY <2>1 DEF S3Action, S3Operations, S3Actions
  <2>3. /\ r.parts[1] = id
        /\ op = "completion-hint" => r.parts[3] = slot
    BY <2>1
  <2>4. S3Route(r) = op
    BY <2>1, <2>2, <2>3 DEF S3Route
  <2> QED BY <2>2, <2>4 DEF Handled
<1> QED BY <1>1, <1>2

\* The paths that dots leave, and what the server makes of them.
LEMMA DotPaths ==
  ASSUME NEW s, NEW t, s \notin DotSegments, t \notin DotSegments
  PROVE  /\ Down(Down(SessionRoot, "."), s) = <<"sessions", s>>
         /\ Down(Down(SessionRoot, ".."), s) = <<s>>
         /\ Down(Down(LiveRoot, "."), s) = <<"v1", "live", s>>
         /\ Down(Down(LiveRoot, ".."), s) = <<"v1", s>>
         /\ Down(<<s>>, t) = <<s, t>>
<1>1. /\ Down(SessionRoot, ".") = <<"sessions">> /\ Down(SessionRoot, "..") = <<>>
      /\ Down(LiveRoot, ".") = <<"v1", "live">> /\ Down(LiveRoot, "..") = <<"v1">>
  BY DotsShorten DEF SessionRoot, LiveRoot
<1>2. /\ Down(<<"sessions">>, s) = <<"sessions", s>>
      /\ Down(<<"v1", "live">>, s) = <<"v1", "live", s>>
      /\ Down(<<"v1">>, s) = <<"v1", s>> /\ Down(<<s>>, t) = <<s, t>>
  BY PathsGrow
<1>3. Down(<<>>, s) = <<s>>
  <2>1. Down(<<>>, s) = Append(<<>>, s)
    BY DEF Down, DotSegments
  <2>2. Append(<<>>, s) = <<s>>
    OBVIOUS
  <2> QED
    BY <2>1, <2>2
<1> QED
  BY <1>1, <1>2, <1>3

\* Paths that lead nowhere.
LEMMA NoRoute ==
  ASSUME NEW method, NEW path,
         \/ RootOf(path) = "none"
         \/ RootOf(path) = "sessions" /\ Len(PartsOf(path)) = 1
         \/ /\ method = "GET" /\ RootOf(path) = "live"
            /\ Len(PartsOf(path)) = 1 \/ /\ Len(PartsOf(path)) = 2
                                         /\ PartsOf(path)[2] # "master.m3u8"
  PROVE  Route(Sent(method, path)) = "404"
<1> DEFINE r == Sent(method, path)
<1>1. /\ r.method = method /\ r.decodes
      /\ r.root = RootOf(path) /\ r.parts = PartsOf(path)
  BY DEF Sent
<1> HIDE DEF r
<1>2. CASE RootOf(path) = "none"
  BY <1>1, <1>2 DEF Route, r
<1>3. CASE RootOf(path) = "sessions" /\ Len(PartsOf(path)) = 1
  <2>1. r.parts # <<>> /\ Len(r.parts) # 2
    BY <1>1, <1>3
  <2>2. SessionRoute(r.method, r.parts) = "404"
    BY <2>1 DEF SessionRoute
  <2> QED
    BY <1>1, <1>3, <2>2 DEF Route, r
<1>4. CASE /\ method = "GET" /\ RootOf(path) = "live"
           /\ Len(PartsOf(path)) = 1 \/ /\ Len(PartsOf(path)) = 2
                                        /\ PartsOf(path)[2] # "master.m3u8"
  <2>1. LiveRoute(r.method, r.parts, r.blocking) = "404"
    BY <1>1, <1>4 DEF LiveRoute
  <2> QED
    BY <1>1, <1>4, <2>1 DEF Route, r
<1> QED
  BY <1>2, <1>3, <1>4

\* Paths that no S3 route takes.
LEMMA NoS3Route ==
  ASSUME NEW method, NEW path,
         \/ RootOf(path) = "none"
         \/ Len(PartsOf(path)) = 2
         \/ Len(PartsOf(path)) = 3 /\ PartsOf(path)[3] \notin S3Actions
  PROVE  S3Route(Sent(method, path)) = "not_s3"
<1> DEFINE r == Sent(method, path)
<1>1. r.decodes /\ r.root = RootOf(path) /\ r.parts = PartsOf(path)
  BY DEF Sent
<1> HIDE DEF r
<1>2. CASE RootOf(path) = "none"
  BY <1>1, <1>2 DEF S3Route, r
<1>3. CASE RootOf(path) # "none"
  <2>1. S3Action(r.parts) = "not_s3"
    BY <1>1, <1>3 DEF S3Action
  <2> QED
    BY <1>1, <2>1 DEF S3Route, r
<1> QED
  BY <1>2, <1>3

\* A session or a track that is named by dots has an id that every check lets
\* pass, and still no client reaches it: nothing that is asked of it but its
\* creation gets anywhere.
THEOREM DotIdsGoAstray ==
  ASSUME NEW dot \in DotSegments, NEW id \in SafeIds \ DotSegments,
         NEW track \in SafeIds \ DotSegments
  PROVE  /\ \A op \in Operations \ {"create"} :
              Route(ClientRequest(op, dot, track)) = "404"
         /\ Route(ClientRequest("media", id, dot)) = "404"
<1>0. dot = "." \/ dot = ".."
  BY DEF DotSegments
<1>1. ASSUME NEW op \in PostActions \cup GetActions
      PROVE  Route(ClientRequest(op, dot, track)) = "404"
  <2>0. op \in Operations /\ op \notin {"create", "master", "media", "sessions"}
    BY DEF Operations, PostActions, GetActions
  <2>1. \E method \in {"GET", "POST"} :
          ClientRequest(op, dot, track)
            = Sent(method, Down(Down(SessionRoot, dot), op))
    BY <2>0 DEF ClientRequest, ClientPath
  <2>2. CASE dot = "."
    <3>1. Down(Down(SessionRoot, dot), op) = <<"sessions", op>>
      BY <2>0, <2>2, DotPaths, NamesAreNoDots
    <3>2. /\ RootOf(<<"sessions", op>>) = "sessions"
          /\ Len(PartsOf(<<"sessions", op>>)) = 1
      BY PathsSplit
    <3> QED
      BY <2>1, <3>1, <3>2, NoRoute
  <2>3. CASE dot = ".."
    <3>1. Down(Down(SessionRoot, dot), op) = <<op>>
      BY <2>0, <2>3, DotPaths, NamesAreNoDots
    <3>2. RootOf(<<op>>) = "none"
      BY <2>0 DEF RootOf, IsBelow, SessionRoot, LiveRoot
    <3> QED
      BY <2>1, <3>1, <3>2, NoRoute
  <2> QED
    BY <1>0, <2>2, <2>3
<1>2. Route(ClientRequest("master", dot, track)) = "404"
  <2>1. ClientRequest("master", dot, track)
          = Sent("GET", Down(Down(LiveRoot, dot), "master.m3u8"))
    BY DEF ClientRequest, ClientPath
  <2>2. CASE dot = "."
    <3>1. Down(Down(LiveRoot, dot), "master.m3u8")
            = <<"v1", "live", "master.m3u8">>
      BY <2>2, DotPaths, NamesAreNoDots
    <3>2. /\ RootOf(<<"v1", "live", "master.m3u8">>) = "live"
          /\ Len(PartsOf(<<"v1", "live", "master.m3u8">>)) = 1
      BY PathsSplit
    <3> QED
      BY <2>1, <3>1, <3>2, NoRoute
  <2>3. CASE dot = ".."
    <3>1. Down(Down(LiveRoot, dot), "master.m3u8") = <<"v1", "master.m3u8">>
      BY <2>3, DotPaths, NamesAreNoDots
    <3>2. RootOf(<<"v1", "master.m3u8">>) = "none"
      BY DEF RootOf, IsBelow, SessionRoot, LiveRoot
    <3> QED
      BY <2>1, <3>1, <3>2, NoRoute
  <2> QED
    BY <1>0, <2>2, <2>3
<1>3. Route(ClientRequest("media", dot, track)) = "404"
  <2>1. ClientRequest("media", dot, track)
          = Sent("GET", Down(Down(Down(LiveRoot, dot), track), "media.m3u8"))
    BY DEF ClientRequest, ClientPath
  <2>2. CASE dot = "."
    <3>1. Down(Down(LiveRoot, dot), track) = <<"v1", "live", track>>
      BY <2>2, DotPaths
    <3>2. Down(<<"v1", "live", track>>, "media.m3u8")
            = <<"v1", "live", track, "media.m3u8">>
      BY PathsGrow, NamesAreNoDots
    <3>3. /\ RootOf(<<"v1", "live", track, "media.m3u8">>) = "live"
          /\ Len(PartsOf(<<"v1", "live", track, "media.m3u8">>)) = 2
          /\ PartsOf(<<"v1", "live", track, "media.m3u8">>)[2] # "master.m3u8"
      BY PathsSplit
    <3> QED
      BY <2>1, <3>1, <3>2, <3>3, NoRoute
  <2>3. CASE dot = ".."
    <3>1. Down(Down(LiveRoot, dot), track) = <<"v1", track>>
      BY <2>3, DotPaths
    <3>2. Down(<<"v1", track>>, "media.m3u8") = <<"v1", track, "media.m3u8">>
      BY PathsGrow, NamesAreNoDots
    <3>3. CASE track = "live"
      <4>1. /\ RootOf(<<"v1", "live", "media.m3u8">>) = "live"
            /\ Len(PartsOf(<<"v1", "live", "media.m3u8">>)) = 1
        BY PathsSplit
      <4> QED
        BY <2>1, <3>1, <3>2, <3>3, <4>1, NoRoute
    <3>4. CASE track # "live"
      <4>1. RootOf(<<"v1", track, "media.m3u8">>) = "none"
        BY <3>4 DEF RootOf, IsBelow, SessionRoot, LiveRoot
      <4> QED
        BY <2>1, <3>1, <3>2, <4>1, NoRoute
    <3> QED
      BY <3>3, <3>4
  <2> QED
    BY <1>0, <2>2, <2>3
<1>4. Route(ClientRequest("media", id, dot)) = "404"
  <2>1. ClientRequest("media", id, dot)
          = Sent("GET", Down(Down(Down(LiveRoot, id), dot), "media.m3u8"))
    BY DEF ClientRequest, ClientPath
  <2>2. Down(LiveRoot, id) = <<"v1", "live", id>>
    BY PathsGrow DEF LiveRoot
  <2>3. CASE dot = "."
    <3>1. Down(<<"v1", "live", id>>, dot) = <<"v1", "live", id>>
      BY <2>3, DotsShorten
    <3>2. Down(<<"v1", "live", id>>, "media.m3u8")
            = <<"v1", "live", id, "media.m3u8">>
      BY PathsGrow, NamesAreNoDots
    <3>3. /\ RootOf(<<"v1", "live", id, "media.m3u8">>) = "live"
          /\ Len(PartsOf(<<"v1", "live", id, "media.m3u8">>)) = 2
          /\ PartsOf(<<"v1", "live", id, "media.m3u8">>)[2] # "master.m3u8"
      BY PathsSplit
    <3> QED
      BY <2>1, <2>2, <3>1, <3>2, <3>3, NoRoute
  <2>4. CASE dot = ".."
    <3>1. Down(<<"v1", "live", id>>, dot) = <<"v1", "live">>
      BY <2>4, DotsShorten
    <3>2. Down(<<"v1", "live">>, "media.m3u8") = <<"v1", "live", "media.m3u8">>
      BY PathsGrow, NamesAreNoDots
    <3>3. /\ RootOf(<<"v1", "live", "media.m3u8">>) = "live"
          /\ Len(PartsOf(<<"v1", "live", "media.m3u8">>)) = 1
      BY PathsSplit
    <3> QED
      BY <2>1, <2>2, <3>1, <3>2, <3>3, NoRoute
  <2> QED
    BY <1>0, <2>3, <2>4
<1> QED
  BY <1>1, <1>2, <1>3, <1>4 DEF Operations

\* Nor does any S3 route take what the S3 client asks of such a session or
\* such a slot.  What it asks of session "." may even be served: a request
\* for a slot of it is one for a slot of session "s3".
THEOREM S3DotIdsGoAstray ==
  ASSUME NEW dot \in DotSegments, NEW id \in SafeIds \ DotSegments,
         NEW slot \in SafeIds \ DotSegments
  PROVE  /\ \A op \in S3Operations :
              S3Route(S3ClientRequest(op, dot, slot)) = "not_s3"
         /\ S3Route(S3ClientRequest("completion-hint", id, dot)) = "not_s3"
         /\ "s3" \in SafeIds =>
              Handled(S3ClientRequest("slots", ".", slot)) = <<"runtime", "slots">>
<1>0. dot = "." \/ dot = ".."
  BY DEF DotSegments
<1>1. ASSUME NEW op \in S3Actions
      PROVE  S3Route(S3ClientRequest(op, dot, slot)) = "not_s3"
  <2>0. op \in S3Operations /\ op # "completion-hint"
    BY DEF S3Operations, S3Actions
  <2>1. S3ClientRequest(op, dot, slot)
          = Sent("POST", Down(Down(Down(SessionRoot, dot), "s3"), op))
    BY <2>0 DEF S3ClientRequest
  <2>2. CASE dot = "."
    <3>1. Down(Down(SessionRoot, dot), "s3") = <<"sessions", "s3">>
      BY <2>2, DotPaths, NamesAreNoDots
    <3>2. Down(<<"sessions", "s3">>, op) = <<"sessions", "s3", op>>
      BY <2>0, NamesAreNoDots, PathsGrow
    <3>3. PartsOf(<<"sessions", "s3", op>>) = <<"s3", op>>
      BY PathsSplit
    <3>4. Len(PartsOf(<<"sessions", "s3", op>>)) = 2
      BY <3>3
    <3> QED
      BY <2>1, <3>1, <3>2, <3>4, NoS3Route
  <2>3. CASE dot = ".."
    <3>1. Down(Down(SessionRoot, dot), "s3") = <<"s3">>
      BY <2>3, DotPaths, NamesAreNoDots
    <3>2. Down(<<"s3">>, op) = <<"s3", op>>
      BY <2>0, NamesAreNoDots, PathsGrow
    <3>3. RootOf(<<"s3", op>>) = "none"
      BY DEF RootOf, IsBelow, SessionRoot, LiveRoot
    <3> QED
      BY <2>1, <3>1, <3>2, <3>3, NoS3Route
  <2> QED
    BY <1>0, <2>2, <2>3
<1>2. S3Route(S3ClientRequest("completion-hint", dot, slot)) = "not_s3"
  <2>1. S3ClientRequest("completion-hint", dot, slot)
          = Sent("POST", Down(Down(Down(Down(SessionRoot, dot),
                                        "upload-slots"), slot), "complete"))
    BY DEF S3ClientRequest
  <2>2. CASE dot = "."
    <3>1. Down(Down(SessionRoot, dot), "upload-slots")
            = <<"sessions", "upload-slots">>
      BY <2>2, DotPaths, NamesAreNoDots
    <3>2. Down(<<"sessions", "upload-slots">>, slot)
            = <<"sessions", "upload-slots", slot>>
      BY PathsGrow
    <3>3. Down(<<"sessions", "upload-slots", slot>>, "complete")
            = <<"sessions", "upload-slots", slot, "complete">>
      BY NamesAreNoDots, PathsGrow
    <3>4. PartsOf(<<"sessions", "upload-slots", slot, "complete">>)
            = <<"upload-slots", slot, "complete">>
      BY PathsSplit
    <3>5. "complete" \notin S3Actions
      BY DEF S3Actions
    <3>6. /\ Len(<<"upload-slots", slot, "complete">>) = 3
          /\ <<"upload-slots", slot, "complete">>[3] = "complete"
      OBVIOUS
    <3> QED
      BY <2>1, <3>1, <3>2, <3>3, <3>4, <3>5, <3>6, NoS3Route
  <2>3. CASE dot = ".."
    <3>1. Down(Down(SessionRoot, dot), "upload-slots") = <<"upload-slots">>
      BY <2>3, DotPaths, NamesAreNoDots
    <3>2. Down(<<"upload-slots">>, slot) = <<"upload-slots", slot>>
      BY PathsGrow
    <3>3. Down(<<"upload-slots", slot>>, "complete")
            = <<"upload-slots", slot, "complete">>
      BY NamesAreNoDots, PathsGrow
    <3>4. RootOf(<<"upload-slots", slot, "complete">>) = "none"
      BY DEF RootOf, IsBelow, SessionRoot, LiveRoot
    <3> QED
      BY <2>1, <3>1, <3>2, <3>3, <3>4, NoS3Route
  <2> QED
    BY <1>0, <2>2, <2>3
<1>3. S3Route(S3ClientRequest("completion-hint", id, dot)) = "not_s3"
  <2>1. S3ClientRequest("completion-hint", id, dot)
          = Sent("POST", Down(Down(Down(Down(SessionRoot, id),
                                        "upload-slots"), dot), "complete"))
    BY DEF S3ClientRequest
  <2>2. Down(SessionRoot, id) = <<"sessions", id>>
    BY PathsGrow DEF SessionRoot
  <2>3. Down(<<"sessions", id>>, "upload-slots")
          = <<"sessions", id, "upload-slots">>
    BY NamesAreNoDots, PathsGrow
  <2>4. CASE dot = "."
    <3>1. Down(<<"sessions", id, "upload-slots">>, dot)
            = <<"sessions", id, "upload-slots">>
      BY <2>4, DotsShorten
    <3>2. Down(<<"sessions", id, "upload-slots">>, "complete")
            = <<"sessions", id, "upload-slots", "complete">>
      BY NamesAreNoDots, PathsGrow
    <3>3. PartsOf(<<"sessions", id, "upload-slots", "complete">>)
            = <<id, "upload-slots", "complete">>
      BY PathsSplit
    <3>4. "complete" \notin S3Actions
      BY DEF S3Actions
    <3>5. /\ Len(<<id, "upload-slots", "complete">>) = 3
          /\ <<id, "upload-slots", "complete">>[3] = "complete"
      OBVIOUS
    <3> QED
      BY <2>1, <2>2, <2>3, <3>1, <3>2, <3>3, <3>4, <3>5, NoS3Route
  <2>5. CASE dot = ".."
    <3>1. Down(<<"sessions", id, "upload-slots">>, dot) = <<"sessions", id>>
      BY <2>5, DotsShorten
    <3>2. Down(<<"sessions", id>>, "complete") = <<"sessions", id, "complete">>
      BY NamesAreNoDots, PathsGrow
    <3>3. PartsOf(<<"sessions", id, "complete">>) = <<id, "complete">>
      BY PathsSplit
    <3>4. Len(PartsOf(<<"sessions", id, "complete">>)) = 2
      BY <3>3
    <3> QED
      BY <2>1, <2>2, <2>3, <3>1, <3>2, <3>4, NoS3Route
  <2> QED
    BY <1>0, <2>4, <2>5
<1>4. ASSUME "s3" \in SafeIds
      PROVE  Handled(S3ClientRequest("slots", ".", slot))
               = <<"runtime", "slots">>
  <2> DEFINE path == <<"sessions", "s3", "slots">>
             r == Sent("POST", path)
  <2>1. "." \in DotSegments /\ "slots" \in S3Actions
    BY DEF DotSegments, S3Actions
  <2>2. S3ClientRequest("slots", ".", slot) = r
    <3>1. S3ClientRequest("slots", ".", slot)
            = Sent("POST", Down(Down(Down(SessionRoot, "."), "s3"), "slots"))
      BY DEF S3ClientRequest
    <3>2. Down(Down(SessionRoot, "."), "s3") = <<"sessions", "s3">>
      BY DotPaths, NamesAreNoDots
    <3>3. Down(<<"sessions", "s3">>, "slots") = path
      BY <2>1, NamesAreNoDots, PathsGrow DEF S3Operations
    <3> QED
      BY <3>1, <3>2, <3>3
  <2>3. RootOf(path) = "sessions" /\ PartsOf(path) = <<"s3", "slots">>
    BY PathsSplit
  <2>4. S3Route(r) = "not_s3"
    <3>1. Len(PartsOf(path)) = 2
      BY <2>3
    <3> QED
      BY <3>1, NoS3Route
  <2>5. Route(r) = "slots"
    <3>1. /\ r.method = "POST" /\ r.root = "sessions" /\ r.decodes
          /\ r.parts = <<"s3", "slots">>
      BY <2>3 DEF Sent
    <3> HIDE DEF r
    <3>2. SessionRoute("POST", <<"s3", "slots">>) = "slots"
      <4> DEFINE parts == <<"s3", "slots">>
      <4>1. parts # <<>> /\ Len(parts) = 2 /\ parts[1] = "s3" /\ parts[2] = "slots"
        OBVIOUS
      <4>2. "s3" \in SafeIds
        BY <1>4
      <4> HIDE DEF parts
      <4>3. SessionRoute("POST", parts) = "slots"
        BY <4>1, <4>2 DEF SessionRoute, PostActions, GetActions
      <4> QED
        BY <4>3 DEF parts
    <3> QED
      BY <3>1, <3>2 DEF Route
  <2> QED
    BY <2>2, <2>4, <2>5 DEF Handled
<1> QED
  BY <1>1, <1>2, <1>3, <1>4 DEF S3Operations

----------------------------------------------------------------------------
(***************************************************************************)
(* Statuses.                                                               *)
(***************************************************************************)

\* A client goes on exactly when the server did what it was asked for.
THEOREM OkIffDone ==
  /\ \A op \in Operations : \A outcome \in SuccessesOf(op) : Ok(Status(outcome))
  /\ \A outcome \in Refusals : ~Ok(Status(outcome))
  /\ \A op \in S3Operations :
       \A outcome \in S3SuccessesOf(op) : Ok(S3Status(outcome))
  /\ \A outcome \in S3Refusals : ~Ok(S3Status(outcome))
<1>1. \A outcome \in Successes : Ok(Status(outcome))
  BY DEF Successes, Ok, Status
<1>2. \A op \in Operations : SuccessesOf(op) \subseteq Successes
  BY DEF Operations, PostActions, GetActions, SuccessesOf, Successes
<1>3. \A outcome \in Refusals : ~Ok(Status(outcome))
  BY DEF Refusals, Ok, Status
<1>4. \A outcome \in {"saved", "committed", "idempotent", "planned", "routed",
                      "reconciled", "swept"} : Ok(S3Status(outcome))
  BY DEF Ok, S3Status
<1>5. \A op \in S3Operations :
        S3SuccessesOf(op) \subseteq {"saved", "committed", "idempotent",
          "planned", "routed", "reconciled", "swept"}
  BY DEF S3Operations, S3Actions, S3SuccessesOf
<1>6. \A outcome \in S3Refusals : ~Ok(S3Status(outcome))
  BY DEF S3Refusals, Ok, S3Status
<1> QED BY <1>1, <1>2, <1>3, <1>4, <1>5, <1>6

\* The publisher's steps, which look at the outcomes themselves, draw the
\* line between success and failure where the statuses draw it.
THEOREM StepsAgree ==
  ASSUME NEW op \in {"heartbeat", "slots", "commits"},
         NEW outcome \in SuccessesOf(op) \cup Refusals
  PROVE  StepPasses(op, outcome) <=> Ok(Status(outcome))
<1>1. StepPasses(op, outcome) <=> outcome \in SuccessesOf(op)
  BY DEF StepPasses, SuccessesOf, Refusals
<1>2. op \in Operations
  BY DEF Operations, PostActions
<1>3. outcome \in SuccessesOf(op) => Ok(Status(outcome))
  BY <1>2, OkIffDone
<1>4. outcome \in Refusals => ~Ok(Status(outcome))
  BY OkIffDone
<1> QED BY <1>1, <1>3, <1>4

----------------------------------------------------------------------------
(***************************************************************************)
(* Messages.                                                               *)
(***************************************************************************)

\* Whatever object a publisher plans, the server can read the request for
\* its slot: the plan's checks are no weaker than the parser's.
THEOREM PlannedSlotParses ==
  ASSUME NEW o, NEW mode, PlanTaken(o, mode)
  PROVE  ReadsSlot(PlannedSlot(o))
<1> DEFINE m == PlannedSlot(o)
<1>1. DOMAIN m = (DOMAIN o \cap PlannedFields) \cup {"slotId"}
  BY DEF PlannedSlot
<1>2. m["slotId"] = "id" /\ \A f \in DOMAIN o \cap PlannedFields : m[f] = o[f]
  BY DEF PlannedSlot, PlannedFields
<1>3. Reads(PlanReader, o)
  BY DEF PlanTaken
<1>4. /\ "contentType" \in DOMAIN o /\ o["contentType"] \in Texts
      /\ "expiresAt" \in DOMAIN o /\ o["expiresAt"] \in Timestamps
      /\ "kind" \in DOMAIN o /\ o["kind"] \in ObjectNames
      /\ "maxBytes" \in DOMAIN o /\ o["maxBytes"] \in PositiveNumbers
      /\ "sequenceNumber" \in DOMAIN o
      /\ o["sequenceNumber"] \in NonNegativeIntegers
      /\ "trackId" \in DOMAIN o /\ o["trackId"] \in Ids
  BY <1>3 DEF Reads, PlanReader
<1>5. /\ "minBytes" \in DOMAIN o => o["minBytes"] \in NonNegativeIntegers
      /\ "partNumber" \in DOMAIN o => o["partNumber"] \in NonNegativeIntegers
      /\ "profile" \in DOMAIN o => o["profile"] = "record"
      /\ "extension" \in DOMAIN o => o["extension"] \in Segments
      /\ "objectKeyNonce" \in DOMAIN o => o["objectKeyNonce"] \in Ids
      /\ "objectKeyPrefix" \in DOMAIN o => o["objectKeyPrefix"] \in Paths
  BY <1>3 DEF Reads, PlanReader
<1>6. "id" \in Ids /\ Timestamps \subseteq Texts
  BY DEF Ids, Texts
<1>7. Reads(SlotReader, m)
  <2>1. \A f \in DOMAIN SlotReader.required :
          f \in DOMAIN m /\ m[f] \in SlotReader.required[f]
    <3>1. /\ "contentType" \in DOMAIN m /\ m["contentType"] \in Texts
          /\ "expiresAt" \in DOMAIN m /\ m["expiresAt"] \in Texts
          /\ "kind" \in DOMAIN m /\ m["kind"] \in ObjectNames
      BY <1>1, <1>2, <1>4, <1>6 DEF PlannedFields
    <3>2. /\ "maxBytes" \in DOMAIN m /\ m["maxBytes"] \in PositiveNumbers
          /\ "sequenceNumber" \in DOMAIN m
          /\ m["sequenceNumber"] \in NonNegativeIntegers
          /\ "trackId" \in DOMAIN m /\ m["trackId"] \in Ids
          /\ "slotId" \in DOMAIN m /\ m["slotId"] \in Ids
      BY <1>1, <1>2, <1>4, <1>6 DEF PlannedFields
    <3> HIDE DEF m
    <3> QED BY <3>1, <3>2 DEF SlotReader
  <2>2. \A f \in DOMAIN SlotReader.optional \cap DOMAIN m :
          m[f] \in SlotReader.optional[f]
    <3>1. /\ "byterange" \notin DOMAIN m
          /\ \A f \in DOMAIN m \ {"slotId"} : f \in DOMAIN o /\ m[f] = o[f]
      BY <1>1, <1>2 DEF PlannedFields
    <3> HIDE DEF m
    <3> QED BY <1>5, <3>1 DEF SlotReader
  <2>3. SlotReader.refused \cap DOMAIN m = {}
    <3>1. "objectKey" \notin DOMAIN m /\ "deliveryUrl" \notin DOMAIN m
      BY <1>1 DEF PlannedFields
    <3> HIDE DEF m
    <3> QED BY <3>1 DEF SlotReader
  <2> HIDE DEF m
  <2> QED BY <2>1, <2>2, <2>3 DEF Reads
<1>8. m["kind"] = "part" <=> "partNumber" \in DOMAIN m
  <2>1. m["kind"] = o["kind"]
    BY <1>2, <1>4 DEF PlannedFields
  <2>2. "partNumber" \in DOMAIN m <=> "partNumber" \in DOMAIN o
    BY <1>1 DEF PlannedFields
  <2> QED BY <2>1, <2>2 DEF PlanTaken
<1>9. "byterange" \notin DOMAIN m
  BY <1>1 DEF PlannedFields
<1> QED BY <1>7, <1>8, <1>9 DEF ReadsSlot

\* The commit of a step whose options are of their declared types and whose
\* commit time is a timestamp is read by the server as well.
THEOREM PlannedCommitParses ==
  ASSUME NEW step, NEW observed, Reads(ObservedReader, observed),
         "committedAt" \in DOMAIN step, step["committedAt"] \in Timestamps,
         \A f \in DOMAIN CommitOptions \cap DOMAIN step :
           step[f] \in CommitOptions[f]
  PROVE  ReadsCommit(PlannedCommit(step), observed)
<1> DEFINE m == PlannedCommit(step)
<1>1. DOMAIN m = (DOMAIN step \cap DOMAIN CommitOptions)
                   \cup {"commitId", "committedAt", "slotId"}
  BY DEF PlannedCommit
<1>2. DOMAIN CommitOptions = {"lateToleranceMs", "maxSegments", "profile"}
  BY DEF CommitOptions
<1>3. /\ m["commitId"] = "id" /\ m["slotId"] = "id"
      /\ m["committedAt"] = step["committedAt"]
      /\ \A f \in DOMAIN step \cap DOMAIN CommitOptions : m[f] = step[f]
  BY <1>2 DEF PlannedCommit
<1>4. "id" \in Ids
  BY DEF Ids
<1>5. Reads(CommitReader, m)
  <2> HIDE DEF m
  <2>1. \A f \in DOMAIN CommitReader.required :
          f \in DOMAIN m /\ m[f] \in CommitReader.required[f]
    BY <1>1, <1>3, <1>4 DEF CommitReader
  <2>2. \A f \in DOMAIN CommitReader.optional \cap DOMAIN m :
          m[f] \in CommitReader.optional[f]
    <3>1. CommitReader.optional = CommitOptions
      BY DEF CommitReader
    <3>2. \A f \in DOMAIN CommitOptions \cap DOMAIN m : f \in DOMAIN step
      BY <1>1, <1>2
    <3> QED BY <1>3, <3>1, <3>2
  <2>3. CommitReader.refused = {}
    BY DEF CommitReader
  <2> QED BY <2>1, <2>2, <2>3 DEF Reads
<1> QED BY <1>5 DEF ReadsCommit

\* Every answer to a success is one that the client can read: no client
\* takes what the server has done for a failure.
THEOREM AnswersParse ==
  ASSUME NEW op \in Operations, NEW outcome \in SuccessesOf(op),
         NEW a \in AnswersOf(outcome)
  PROVE  Reads(AnswerReader(op), a)
<1>0. "id" \in Texts
  BY DEF Texts, Paths, Segments, Ids
<1>1. CASE op = "create"
  <2>1. a = [sessionId |-> "id"]
    BY <1>1 DEF SuccessesOf, AnswersOf
  <2>2. AnswerReader(op) = Requires([sessionId |-> Texts])
    BY <1>1 DEF AnswerReader
  <2> QED BY <1>0, <2>1, <2>2 DEF Reads, Requires, NoFields
<1>2. CASE op = "transition"
  <2>1. outcome = "transitioned"
    BY <1>2 DEF SuccessesOf
  <2>2. AnswersOf(outcome) =
          {[sessionId |-> "id", state |-> s] : s \in StateNames}
    BY <2>1 DEF AnswersOf
  <2>3. PICK s \in StateNames : a = [sessionId |-> "id", state |-> s]
    BY <2>2
  <2>4. AnswerReader(op) = Requires([sessionId |-> Texts, state |-> StateNames])
    BY <1>2 DEF AnswerReader
  <2> QED BY <1>0, <2>3, <2>4 DEF Reads, Requires, NoFields
<1>3. CASE op = "heartbeat"
  <2> QED BY <1>3 DEF SuccessesOf, AnswersOf, AnswerReader, Reads, Requires,
                      NoFields
<1>4. CASE op = "slots"
  <2> QED BY <1>4 DEF SuccessesOf, AnswersOf, AnswerReader, Reads, Requires,
                      NoFields
<1>5. CASE op = "commits"
  <2> QED BY <1>5 DEF SuccessesOf, AnswersOf, AnswerReader, Reads
<1>6. CASE op \in {"health", "retention", "master", "media"}
  <2> QED BY <1>6 DEF SuccessesOf, AnswersOf, AnswerReader, Reads, Requires,
                      NoFields
<1> QED BY <1>1, <1>2, <1>3, <1>4, <1>5, <1>6
        DEF Operations, PostActions, GetActions

\* So is every answer of the S3 routes, and every entry of a sweep's report.
THEOREM S3AnswersParse ==
  /\ \A op \in S3Operations : \A outcome \in S3SuccessesOf(op) :
       \A a \in S3AnswersOf(outcome) : Reads(S3AnswerReader(op), a)
  /\ \A slot, outcome : outcome \in SlotOutcomes =>
       \A a \in EntryAnswers([slot |-> slot, outcome |-> outcome]) : ReadsEntry(a)
<1>1. ASSUME NEW op \in S3Operations, NEW outcome \in S3SuccessesOf(op),
             NEW a \in S3AnswersOf(outcome)
      PROVE  Reads(S3AnswerReader(op), a)
  <2>1. CASE op \in {"slots", "events"}
    BY <2>1 DEF S3SuccessesOf, S3AnswersOf, S3AnswerReader, Reads, Requires,
                NoFields
  <2>2. CASE op \in {"commits", "completion-hint"}
    BY <2>2 DEF S3SuccessesOf, S3AnswersOf, S3AnswerReader, Reads
  <2>3. CASE op = "reconcile-plan"
    BY <2>3 DEF S3SuccessesOf, S3AnswersOf, S3AnswerReader, Reads, Requires,
                NoFields
  <2>4. CASE op \in {"reconcile", "retention"}
    BY <2>4 DEF S3SuccessesOf, S3AnswersOf, S3AnswerReader, Reads, Requires,
                NoFields
  <2> QED BY <2>1, <2>2, <2>3, <2>4 DEF S3Operations, S3Actions
<1>2. ASSUME NEW slot, NEW outcome \in SlotOutcomes,
             NEW a \in EntryAnswers([slot |-> slot, outcome |-> outcome])
      PROVE  ReadsEntry(a)
  <2>0. {"id", "text"} \subseteq Texts
    BY DEF Texts, Paths, Segments, Ids
  <2>1. CASE outcome \in {"committed", "idempotent"}
    <3>1. \/ a = [slotId |-> "id", status |-> outcome, commit |-> "commit"]
          \/ a = [slotId |-> "id", status |-> outcome, commit |-> "commit",
                  cursor |-> "cursor"]
      BY <2>1 DEF EntryAnswers, EntryStatus, With
    <3> QED BY <2>0, <2>1, <3>1 DEF ReadsEntry, Reads
  <2>2. CASE outcome \in {"rejected", "threw"}
    <3>1. \/ a = [slotId |-> "id", status |-> "failed", code |-> "text",
                  message |-> "text"]
          \/ a = [slotId |-> "id", status |-> "failed", code |-> "text",
                  message |-> "text", details |-> "record"]
      BY <2>2 DEF EntryAnswers, EntryStatus, With
    <3> QED BY <2>0, <3>1 DEF ReadsEntry, Reads
  <2>3. CASE outcome \in {"conflict", "not_found"}
    <3>1. a = [slotId |-> "id", status |-> "failed", resultStatus |-> "text"]
      BY <2>3 DEF EntryAnswers, EntryStatus, With
    <3> QED BY <2>0, <3>1 DEF ReadsEntry, Reads
  <2> QED BY <2>1, <2>2, <2>3 DEF SlotOutcomes
<1> QED BY <1>1, <1>2

\* Whatever the server finds out about a session's health, a retention plan,
\* a sweep or its deletions, the client can read the report.
THEOREM ReportsParse ==
  /\ \A freshness \in {"fresh", "stale", "missing"},
        lease \in {"none", "active", "stale"}, asked \in BOOLEAN :
       Reads(HealthReader, HealthReport(freshness, lease, asked))
  /\ \A plan \in RetentionPlans : Reads(RetentionPlanReader, plan)
  /\ Reads(RetiredObjectReader, RetiredObject)
  /\ Reads(SweepReportReader, SweepReport)
  /\ Reads(DeletionsReader, Deletions)
  /\ Reads(DeletionFailureReader, DeletionFailure)
  /\ Reads(DeletionReportReader, DeletionReport)
<1>0. /\ {"id", "path", "text"} \subseteq Texts /\ "id" \in Ids
      /\ "zero" \in Numbers
  BY DEF Texts, Paths, Segments, Ids, Numbers, NonNegativeNumbers,
         NonNegativeIntegers
<1>1. ASSUME NEW freshness \in {"fresh", "stale", "missing"},
             NEW lease \in {"none", "active", "stale"}, NEW asked \in BOOLEAN
      PROVE  Reads(HealthReader, HealthReport(freshness, lease, asked))
  <2> DEFINE h == HealthReport(freshness, lease, asked)
  <2>1. "cursorFreshness" \in DOMAIN h /\ h["cursorFreshness"] = freshness
    BY DEF HealthReport, With, NoFields
  <2>2. "status" \in DOMAIN h /\ h["status"] \in {"active", "stale", "starting"}
    BY DEF HealthReport, With, NoFields
  <2>3. "leaseStatus" \in DOMAIN h => h["leaseStatus"] \in {"active", "stale"}
    BY DEF HealthReport, With, NoFields
  <2>4. "cursorAgeMs" \in DOMAIN h => h["cursorAgeMs"] = "zero"
    BY DEF HealthReport, With, NoFields
  <2>5. "publisherInstanceId" \in DOMAIN h => h["publisherInstanceId"] = "id"
    BY DEF HealthReport, With, NoFields
  <2> HIDE DEF h
  <2>6. \A f \in DOMAIN HealthReader.required :
          f \in DOMAIN h /\ h[f] \in HealthReader.required[f]
    BY <2>1, <2>2 DEF HealthReader
  <2>7. \A f \in DOMAIN HealthReader.optional \cap DOMAIN h :
          h[f] \in HealthReader.optional[f]
    BY <1>0, <2>3, <2>4, <2>5 DEF HealthReader
  <2>8. HealthReader.refused = {}
    BY DEF HealthReader
  <2>9. Reads(HealthReader, h)
    BY <2>6, <2>7, <2>8 DEF Reads
  <2> QED BY <2>9 DEF h
<1>2. ASSUME NEW plan \in RetentionPlans
      PROVE  Reads(RetentionPlanReader, plan)
  <2>1. \/ plan = [expiredSlots |-> "slots", retiredObjects |-> "retired objects"]
        \/ plan = [expiredSlots |-> "slots", retiredObjects |-> "retired objects",
                   cursor |-> "cursor"]
    BY DEF RetentionPlans
  <2>2. /\ {"expiredSlots", "retiredObjects"} \subseteq DOMAIN plan
        /\ plan["expiredSlots"] = "slots"
        /\ plan["retiredObjects"] = "retired objects"
    <3>1. CASE plan = [expiredSlots |-> "slots",
                       retiredObjects |-> "retired objects"]
      BY <3>1
    <3>2. CASE plan = [expiredSlots |-> "slots",
                       retiredObjects |-> "retired objects", cursor |-> "cursor"]
      BY <3>2
    <3> QED BY <2>1, <3>1, <3>2
  <2>3. "cursor" \in DOMAIN plan => plan["cursor"] = "cursor"
    <3>1. CASE plan = [expiredSlots |-> "slots",
                       retiredObjects |-> "retired objects"]
      BY <3>1
    <3>2. CASE plan = [expiredSlots |-> "slots",
                       retiredObjects |-> "retired objects", cursor |-> "cursor"]
      BY <3>2
    <3> QED BY <2>1, <3>1, <3>2
  <2>4. /\ DOMAIN RetentionPlanReader.required
              = {"expiredSlots", "retiredObjects"}
        /\ RetentionPlanReader.required["expiredSlots"] = {"slots"}
        /\ RetentionPlanReader.required["retiredObjects"] = {"retired objects"}
        /\ DOMAIN RetentionPlanReader.optional = {"cursor"}
        /\ RetentionPlanReader.optional["cursor"] = {"cursor"}
        /\ RetentionPlanReader.refused = {}
    BY DEF RetentionPlanReader
  <2> QED BY <2>2, <2>3, <2>4 DEF Reads
<1>3. Reads(RetiredObjectReader, RetiredObject)
  BY <1>0 DEF RetiredObject, RetiredObjectReader, Reads, Requires, NoFields
<1>4. Reads(SweepReportReader, SweepReport)
  BY <1>0 DEF SweepReport, SweepReportReader, Reads, Requires, NoFields
<1>5. Reads(DeletionsReader, Deletions)
  <2>1. /\ {"deletedObjects", "failedObjects"} \subseteq DOMAIN Deletions
        /\ Deletions["deletedObjects"] = "retired objects"
        /\ Deletions["failedObjects"] = "failed objects"
    BY DEF Deletions
  <2>2. /\ DOMAIN DeletionsReader.required = {"deletedObjects", "failedObjects"}
        /\ DeletionsReader.required["deletedObjects"] = {"retired objects"}
        /\ DeletionsReader.required["failedObjects"] = {"failed objects"}
        /\ DOMAIN DeletionsReader.optional = {}
        /\ DeletionsReader.refused = {}
    BY DEF DeletionsReader, Requires, NoFields
  <2> QED BY <2>1, <2>2 DEF Reads
<1>6. Reads(DeletionFailureReader, DeletionFailure)
  <2>1. /\ {"error", "object"} \subseteq DOMAIN DeletionFailure
        /\ DeletionFailure["error"] = "text"
        /\ DeletionFailure["object"] = "retired object"
    BY DEF DeletionFailure
  <2>2. /\ DOMAIN DeletionFailureReader.required = {"error", "object"}
        /\ DeletionFailureReader.required["error"] = Texts
        /\ DeletionFailureReader.required["object"] = {"retired object"}
        /\ DOMAIN DeletionFailureReader.optional = {}
        /\ DeletionFailureReader.refused = {}
    BY DEF DeletionFailureReader, Requires, NoFields
  <2> QED BY <1>0, <2>1, <2>2 DEF Reads
<1>7. Reads(DeletionReportReader, DeletionReport)
  BY <1>0 DEF DeletionReport, DeletionReportReader, Reads, Requires, NoFields
<1> QED BY <1>1, <1>2, <1>3, <1>4, <1>5, <1>6, <1>7

\* A hint whose body is left out is understood only by a server that was
\* given a provider, and one that names a provider is understood by any.
THEOREM HintNeedsProvider ==
  ASSUME NEW configured \in BOOLEAN
  PROVE  /\ S3Parsed("completion-hint", NoFields, configured, 0) <=> configured
         /\ S3Parsed("completion-hint", [providerId |-> "id"], configured, 0)
<1>1. S3Parsed("completion-hint", NoFields, configured, 0) <=> configured
  <2>1. Reads(HintReader, NoFields)
    BY DEF HintReader, Reads, NoFields
  <2> QED BY <2>1 DEF S3Parsed, ProviderKnown, NoFields
<1>2. S3Parsed("completion-hint", [providerId |-> "id"], configured, 0)
  <2>1. HintReader.refused = {"deliveryUrl", "etag", "size"}
        /\ HintReader.required = NoFields
    BY DEF HintReader
  <2>2. "providerId" \notin DOMAIN HintReader.optional
    BY DEF HintReader, S3CommitReader, CommitReader, CommitOptions, With
  <2>3. Reads(HintReader, [providerId |-> "id"])
    BY <2>1, <2>2 DEF Reads, NoFields
  <2> QED BY <2>3 DEF S3Parsed, ProviderKnown, Ids
<1> QED BY <1>1, <1>2

\* The counts of a sweep's report add up to the slots that were planned, and
\* it calls itself ok exactly when all of them are committed.
THEOREM SweepReportAdds ==
  ASSUME NEW SlotNames, NEW results \in Seq(Entries(SlotNames))
  PROVE  LET s == SweepSummary(results)
         IN  /\ s.committed + s.idempotent + s.failed = s.planned
             /\ s.ok <=> s.committed + s.idempotent = s.planned
<1> DEFINE D == DOMAIN results
           C == Counted(results, "committed")
           I == Counted(results, "idempotent")
           F == Counted(results, "failed")
           s == SweepSummary(results)
<1>1. D = 1 .. Len(results) /\ Len(results) \in Nat
  OBVIOUS
<1>2. IsFiniteSet(D) /\ Cardinality(D) = Len(results)
  BY <1>1, FS_Interval
<1>3. /\ D = C \cup I \cup F
      /\ C \cap I = {} /\ (C \cup I) \cap F = {}
  <2>1. \A i \in D : EntryStatus(results[i]) \in {"committed", "idempotent", "failed"}
    BY DEF EntryStatus
  <2> QED BY <2>1 DEF Counted
<1>4. IsFiniteSet(C) /\ IsFiniteSet(I) /\ IsFiniteSet(F)
  BY <1>2, <1>3, FS_Subset
<1>5. /\ IsFiniteSet(C \cup I)
      /\ Cardinality(C \cup I) = Cardinality(C) + Cardinality(I) - Cardinality(C \cap I)
  BY <1>4, FS_Union
<1>6. Cardinality(D) = Cardinality(C \cup I) + Cardinality(F)
                         - Cardinality((C \cup I) \cap F)
  BY <1>3, <1>4, <1>5, FS_Union
<1>7. Cardinality({}) = 0 /\ (Cardinality(F) = 0 <=> F = {})
  BY <1>4, FS_EmptySet
<1>8. Cardinality(C) \in Nat /\ Cardinality(I) \in Nat /\ Cardinality(F) \in Nat
  BY <1>4, FS_CardinalityType
<1>9. Cardinality(C) + Cardinality(I) + Cardinality(F) = Len(results)
  <2> HIDE DEF C, I, F, D
  <2>1. Cardinality(C \cap I) = 0 /\ Cardinality((C \cup I) \cap F) = 0
    BY <1>3, <1>7
  <2>2. /\ Cardinality(C \cup I) = Cardinality(C) + Cardinality(I)
        /\ Cardinality(D) = Cardinality(C \cup I) + Cardinality(F)
    BY <1>5, <1>6, <1>8, <2>1
  <2> QED BY <1>2, <2>2
<1>10. /\ s.committed = Cardinality(C) /\ s.idempotent = Cardinality(I)
       /\ s.failed = Cardinality(F) /\ s.planned = Len(results)
       /\ s.ok <=> F = {}
  BY DEF SweepSummary
<1> HIDE DEF C, I, F, s
<1>11. s.committed + s.idempotent + s.failed = s.planned
  BY <1>9, <1>10
<1>12. s.ok <=> s.committed + s.idempotent = s.planned
  BY <1>7, <1>8, <1>9, <1>10
<1> QED BY <1>11, <1>12 DEF s

=============================================================================
