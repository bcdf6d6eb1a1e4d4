------------------------ MODULE OptimizerSearchProofs ------------------------
(***************************************************************************)
(* The page and the worker of the optimizer agree, for any inputs, chunks  *)
(* and number of searches: what is shown is the complete ranking of the    *)
(* inputs on display, and the worker does not work on for nobody.          *)
(*                                                                         *)
(* The argument: a token is in one stage of its search at a time - it      *)
(* awaits its cohort, is asked for, is suspended between two chunks, or is *)
(* settled - and never comes back to an earlier one.  So the messages that *)
(* carry the token of the current search speak of its inputs, and a search *)
(* that the page ends early is asked for before the cancellation.          *)
(*                                                                         *)
(* After the search, what its numbers are made of: the figures of two      *)
(* compared builds, and the fight that the simulator goes through.  And    *)
(* what it searches and shows: the order of the ranking is a total one on  *)
(* rounded summaries, so that sorting gives one result; and the recursive  *)
(* search of the generator lists the strictly ascending choices, each once.*)
(***************************************************************************)
EXTENDS OptimizerSearch, Comparison, Yunara, InductionLemmas, SequencesExt, SequenceTheorems, TLAPS

(* The request of a search is under way. *)
Asks(c) == commands[c].type = "optimize"
Sent == ToSet(responses)

Stages ==
  /\ \A t \in DOMAIN loading : t \notin DOMAIN suspended
  /\ \A c \in DOMAIN commands : Asks(c) =>
       /\ commands[c].token <= token
       /\ commands[c].token \notin DOMAIN loading \cup DOMAIN suspended
  /\ \A c, d \in DOMAIN commands :
       Asks(c) /\ Asks(d) /\ commands[c].token = commands[d].token => c = d
  /\ \A r \in Sent :
       /\ r.token <= token /\ r.token \notin DOMAIN loading
       /\ r.type # "progress" =>
            /\ r.token \notin DOMAIN suspended
            /\ \A c \in DOMAIN commands : Asks(c) => commands[c].token # r.token

(* Whatever carries the token of the current search speaks of the inputs   *)
(* on display.                                                             *)
CurrentInput ==
  search # 0 /\ seenInput = input =>
    /\ search \in DOMAIN loading => loading[search] = input
    /\ search \in DOMAIN suspended => suspended[search].of = input
    /\ \A c \in DOMAIN commands :
         Asks(c) /\ commands[c].token = search => commands[c].input = input
    /\ \A r \in Sent :
         r.token = search /\ r.type \in {"progress", "result"} => r.found.of = input

(* A run between two chunks is not complete, a result is. *)
Completeness ==
  /\ \A t \in DOMAIN suspended : suspended[t].chunks < Chunks
  /\ \A r \in Sent : r.type = "result" => r.found.chunks = Chunks

(* A search that was given up before the worker heard of it is cancelled   *)
(* after it is asked for.                                                  *)
CancelFollows ==
  \A c \in DOMAIN commands :
    Asks(c) /\ search # commands[c].token /\ commands[c].token \notin deserted =>
      \E d \in c + 1 .. Len(commands) :
        commands[d] = [type |-> "cancel", token |-> commands[c].token]

IInv == TypeOK /\ Stages /\ CurrentInput /\ Completeness /\ CancelFollows /\ ResultCurrent /\ Supervised

-----------------------------------------------------------------------------
(* What is taken from and put on a channel. *)

LEMMA Taken ==
  ASSUME NEW S, NEW s \in Seq(S), s # <<>>
  PROVE  /\ Tail(s) \in Seq(S) /\ Head(s) \in S /\ Head(s) = s[1]
         /\ Len(s) \in Nat \ {0} /\ Len(Tail(s)) = Len(s) - 1
         /\ DOMAIN Tail(s) = 1 .. Len(s) - 1
         /\ \A k \in DOMAIN Tail(s) : k + 1 \in DOMAIN s /\ Tail(s)[k] = s[k + 1]
         /\ Head(s) \in ToSet(s) /\ ToSet(Tail(s)) \subseteq ToSet(s)
<1>1. /\ Tail(s) \in Seq(S) /\ Len(s) \in Nat \ {0} /\ Len(Tail(s)) = Len(s) - 1
      /\ Head(s) = s[1] /\ DOMAIN s = 1 .. Len(s)
      /\ \A k \in 1 .. Len(s) - 1 : Tail(s)[k] = s[k + 1]
  OBVIOUS
<1>2. DOMAIN Tail(s) = 1 .. Len(s) - 1
  BY <1>1
<1>3. Head(s) \in S /\ 1 \in DOMAIN s
  BY <1>1
<1>4. \A k \in DOMAIN Tail(s) : k + 1 \in DOMAIN s /\ Tail(s)[k] = s[k + 1]
  BY <1>1, <1>2
<1> QED
  BY <1>1, <1>2, <1>3, <1>4 DEF ToSet

LEMMA PutLast ==
  ASSUME NEW S, NEW s \in Seq(S), NEW e \in S
  PROVE  /\ Append(s, e) \in Seq(S) /\ Len(s) \in Nat /\ Len(Append(s, e)) = Len(s) + 1
         /\ DOMAIN Append(s, e) = 1 .. Len(s) + 1 /\ DOMAIN s = 1 .. Len(s)
         /\ Append(s, e)[Len(s) + 1] = e
         /\ \A k \in DOMAIN s : Append(s, e)[k] = s[k]
OBVIOUS

LEMMA PutAll ==
  ASSUME NEW S, NEW s \in Seq(S), NEW t \in Seq(S)
  PROVE  s \o t \in Seq(S) /\ ToSet(s \o t) = ToSet(s) \cup ToSet(t)
<1>1. /\ s \o t \in Seq(S) /\ Len(s) \in Nat /\ Len(t) \in Nat
      /\ DOMAIN s = 1 .. Len(s) /\ DOMAIN t = 1 .. Len(t)
      /\ DOMAIN (s \o t) = 1 .. Len(s) + Len(t)
      /\ \A k \in 1 .. Len(s) : (s \o t)[k] = s[k]
      /\ \A k \in Len(s) + 1 .. Len(s) + Len(t) : (s \o t)[k] = t[k - Len(s)]
  OBVIOUS
<1>2. \A k \in DOMAIN (s \o t) : (s \o t)[k] \in ToSet(s) \cup ToSet(t)
  BY <1>1 DEF ToSet
<1>3. ASSUME NEW k \in DOMAIN s PROVE s[k] \in ToSet(s \o t)
  BY <1>1 DEF ToSet
<1>4. ASSUME NEW k \in DOMAIN t PROVE t[k] \in ToSet(s \o t)
  <2>1. Len(s) + k \in DOMAIN (s \o t) /\ (s \o t)[Len(s) + k] = t[k]
    BY <1>1
  <2> QED
    BY <2>1 DEF ToSet
<1> QED
  BY <1>1, <1>2, <1>3, <1>4 DEF ToSet

LEMMA Listed ==
  /\ ToSet(<<>>) = {}
  /\ \A x : ToSet(<<x>>) = {x}
  /\ \A x, y : ToSet(<<x, y>>) = {x, y}
  /\ \A x, y, z : ToSet(<<x, y, z>>) = {x, y, z}
BY DEF ToSet

LEMMA PartialFunction ==
  ASSUME NEW T, NEW S, NEW f
  PROVE  f \in Partial(T, S) <=>
           /\ DOMAIN f \subseteq T /\ f = [x \in DOMAIN f |-> f[x]]
           /\ \A x \in DOMAIN f : f[x] \in S
<1>1. ASSUME f \in Partial(T, S)
      PROVE  /\ DOMAIN f \subseteq T /\ f = [x \in DOMAIN f |-> f[x]]
             /\ \A x \in DOMAIN f : f[x] \in S
  BY <1>1 DEF Partial
<1>2. ASSUME DOMAIN f \subseteq T, f = [x \in DOMAIN f |-> f[x]], \A x \in DOMAIN f : f[x] \in S
      PROVE  f \in Partial(T, S)
  <2>1. f \in [DOMAIN f -> S]
    BY <1>2
  <2> QED
    BY <1>2, <2>1 DEF Partial
<1> QED
  BY <1>1, <1>2

LEMMA PartialUpdates ==
  ASSUME NEW T, NEW U, T \subseteq U, NEW S, NEW f \in Partial(T, S)
  PROVE  /\ \A x : Without(f, x) \in Partial(U, S)
         /\ \A x \in U, v \in S : With(f, x, v) \in Partial(U, S)
         /\ f \in Partial(U, S)
<1>1. /\ DOMAIN f \subseteq U /\ f = [x \in DOMAIN f |-> f[x]] /\ \A x \in DOMAIN f : f[x] \in S
  BY PartialFunction
<1>2. ASSUME NEW x PROVE Without(f, x) \in Partial(U, S)
  <2>1. /\ DOMAIN Without(f, x) \subseteq U
        /\ Without(f, x) = [y \in DOMAIN Without(f, x) |-> Without(f, x)[y]]
        /\ \A y \in DOMAIN Without(f, x) : Without(f, x)[y] \in S
    BY <1>1 DEF Without
  <2> QED
    BY <2>1, PartialFunction
<1>3. ASSUME NEW x \in U, NEW v \in S PROVE With(f, x, v) \in Partial(U, S)
  <2>1. /\ DOMAIN With(f, x, v) \subseteq U
        /\ With(f, x, v) = [y \in DOMAIN With(f, x, v) |-> With(f, x, v)[y]]
        /\ \A y \in DOMAIN With(f, x, v) : With(f, x, v)[y] \in S
    BY <1>1 DEF With
  <2> QED
    BY <2>1, PartialFunction
<1> QED
  BY <1>1, <1>2, <1>3, PartialFunction

-----------------------------------------------------------------------------
(* What the worker says of a search. *)

LEMMA Messages ==
  /\ \A r \in Response :
       /\ r.token \in Tokens
       /\ r.type \in {"progress", "result", "cancelled", "error"}
       /\ r.type # "error" => r.hash \in Hashes
       /\ r.type \in {"progress", "result"} => r.found \in Found
  /\ \A c \in Command :
       /\ c.token \in Tokens /\ c.type \in {"optimize", "cancel"}
       /\ c.type = "optimize" => c.input \in Inputs
  /\ \A t \in Tokens : [type |-> "cancel", token |-> t] \in Command
  /\ \A t \in Tokens, i \in Inputs : [type |-> "optimize", token |-> t, input |-> i] \in Command
BY DEF Response, Command

LEMMA Spoken ==
  ASSUME NEW t \in Tokens, NEW found \in Found
  PROVE  /\ Progress(t, found) \in Response /\ Result(t, found) \in Response
         /\ [type |-> "error", token |-> t] \in Response
         /\ [type |-> "cancelled", token |-> t, hash |-> HashOf[found.of]] \in Response
         /\ Progress(t, found).type = "progress" /\ Result(t, found).type = "result"
         /\ Progress(t, found).token = t /\ Result(t, found).token = t
         /\ Progress(t, found).found = found /\ Result(t, found).found = found
<1>1. HashOf[found.of] \in Hashes
  BY SearchAssumption DEF Found
<1> QED
  BY <1>1 DEF Progress, Result, Response

(* A message of the search t for the inputs i, once t is as it is now. *)
Says(r, t, i) ==
  /\ r.token = t
  /\ r.type \in {"progress", "result"} => r.found.of = i
  /\ r.type = "result" => r.found.chunks = Chunks

LEMMA FoundIs ==
  ASSUME NEW found \in Found, found.chunks = Chunks
  PROVE  found = Complete(found.of)
BY DEF Found, Complete

(* A chunk that is evaluated, or that throws, concerns its own search only. *)
LEMMA ChunkEffect ==
  ASSUME TypeOK, NEW t \in 1..token, NEW found \in Found, found.chunks < Chunks,
         NEW before \in Seq(Response),
         \A r \in ToSet(before) : r.type = "progress" /\ Says(r, t, found.of),
         EvaluateChunk(t, found, before) \/ EvaluationThrows(t, before)
  PROVE  /\ responses' \in Seq(Response)
         /\ \A r \in Sent' : \/ r \in Sent
                             \/ Says(r, t, found.of) /\ (r.type # "progress" => t \notin DOMAIN suspended')
         /\ suspended' \in Partial(1..token, Found)
         /\ \A u \in DOMAIN suspended' :
              \/ u # t /\ u \in DOMAIN suspended /\ suspended'[u] = suspended[u]
              \/ u = t /\ suspended'[u].of = found.of /\ suspended'[u].chunks < Chunks
         /\ cache' \in Partial(Hashes, Found)
         /\ \A h \in DOMAIN cache' :
              \/ h \in DOMAIN cache /\ cache'[h] = cache[h]
              \/ h = HashOf[found.of] /\ cache'[h] = Complete(found.of)
<1> DEFINE next == [found EXCEPT !.chunks = @ + 1]
<1>1. /\ t \in Tokens /\ responses \in Seq(Response)
      /\ suspended \in Partial(1..token, Found) /\ cache \in Partial(Hashes, Found)
      /\ token \in 0..MaxSearches /\ MaxSearches \in Nat /\ Chunks \in Nat
  BY SearchAssumption DEF TypeOK, Tokens
<1>2. /\ next \in Found /\ next.of = found.of /\ next.chunks = found.chunks + 1
      /\ next.chunks \in Nat /\ found.of \in Inputs
  BY <1>1 DEF Found
<1>3. HashOf[next.of] \in Hashes
  BY <1>2, SearchAssumption
<1>4. ASSUME EvaluateChunk(t, found, before)
      PROVE  \/ /\ next.chunks = Chunks
                /\ responses' = responses \o (before \o <<Progress(t, next), Result(t, next)>>)
                /\ cache' = With(cache, HashOf[found.of], next)
                /\ suspended' = Without(suspended, t)
             \/ /\ next.chunks # Chunks
                /\ responses' = responses \o (before \o <<Progress(t, next)>>)
                /\ cache' = cache /\ suspended' = With(suspended, t, next)
  BY <1>4 DEF EvaluateChunk, Post
<1> HIDE DEF next
<1>5. ASSUME NEW last \in Seq(Response), responses' = responses \o (before \o last)
      PROVE  responses' \in Seq(Response) /\ Sent' = Sent \cup ToSet(before) \cup ToSet(last)
  <2>1. before \o last \in Seq(Response) /\ ToSet(before \o last) = ToSet(before) \cup ToSet(last)
    BY PutAll
  <2> DEFINE posted == before \o last
  <2>2. posted \in Seq(Response) /\ ToSet(posted) = ToSet(before) \cup ToSet(last)
        /\ responses' = responses \o posted
    BY <2>1, <1>5
  <2> HIDE DEF posted
  <2>3. ToSet(responses') = ToSet(responses) \cup ToSet(posted) /\ responses' \in Seq(Response)
    BY <2>2, <1>1, PutAll
  <2> QED
    BY <2>2, <2>3 DEF Sent
<1>6. /\ Progress(t, next) \in Response /\ Result(t, next) \in Response
      /\ Progress(t, next).type = "progress" /\ Result(t, next).type = "result"
      /\ Progress(t, next).token = t /\ Result(t, next).token = t
      /\ Progress(t, next).found = next /\ Result(t, next).found = next
  <2>1. t \in Tokens /\ next \in Found
    BY <1>1, <1>2
  <2> QED
    BY <1>1, <1>2, Spoken DEF Progress, Result
<1>7. CASE suspended' = Without(suspended, t)
  <2>1. t \notin DOMAIN suspended'
        /\ \A u \in DOMAIN suspended' : u \in DOMAIN suspended /\ suspended'[u] = suspended[u]
    BY <1>7 DEF Without
  <2>2. suspended' \in Partial(1..token, Found)
    BY <1>7, <1>1, PartialUpdates
  <2>3. CASE /\ next.chunks = Chunks
             /\ responses' = responses \o (before \o <<Progress(t, next), Result(t, next)>>)
             /\ cache' = With(cache, HashOf[found.of], next)
    <3>1. <<Progress(t, next), Result(t, next)>> \in Seq(Response)
          /\ ToSet(<<Progress(t, next), Result(t, next)>>) = {Progress(t, next), Result(t, next)}
      BY <1>6, Listed
    <3>2. Says(Progress(t, next), t, found.of) /\ Says(Result(t, next), t, found.of)
      BY <1>2, <1>6, <2>3 DEF Says
    <3>3. cache' \in Partial(Hashes, Found)
      BY <2>3, <1>1, <1>2, <1>3, PartialUpdates
    <3>4. next = Complete(found.of)
      BY <1>2, <2>3, FoundIs
    <3>5. \A h \in DOMAIN cache' : \/ h \in DOMAIN cache /\ cache'[h] = cache[h]
                                   \/ h = HashOf[found.of] /\ cache'[h] = Complete(found.of)
      BY <2>3, <3>4 DEF With
    <3>6. responses' \in Seq(Response)
          /\ Sent' = Sent \cup ToSet(before) \cup {Progress(t, next), Result(t, next)}
      BY <1>5, <2>3, <3>1
    <3> QED
      BY <3>2, <3>3, <3>5, <3>6, <2>1, <2>2
  <2>4. CASE EvaluationThrows(t, before)
    <3> DEFINE e == [type |-> "error", token |-> t]
    <3>1. e \in Response /\ Says(e, t, found.of)
      BY <1>1, Spoken DEF Says
    <3>2. responses' = responses \o (before \o <<e>>) /\ cache' = cache
      BY <2>4 DEF EvaluationThrows, Post
    <3> HIDE DEF e
    <3>3. <<e>> \in Seq(Response) /\ ToSet(<<e>>) = {e}
      BY <3>1, Listed
    <3>4. responses' \in Seq(Response) /\ Sent' = Sent \cup ToSet(before) \cup {e}
      BY <1>5, <3>2, <3>3
    <3> QED
      BY <3>1, <3>2, <3>4, <2>1, <2>2, <1>1
  <2>5. CASE EvaluateChunk(t, found, before) /\ next.chunks # Chunks
    <3>1. suspended' = With(suspended, t, next)
      BY <2>5, <1>4
    <3>2. t \in DOMAIN suspended'
      BY <3>1 DEF With
    <3> QED
      BY <2>1, <3>2
  <2> QED
    BY <2>3, <2>4, <2>5, <1>4
<1>8. CASE EvaluateChunk(t, found, before) /\ next.chunks # Chunks
  <2>1. /\ responses' = responses \o (before \o <<Progress(t, next)>>)
        /\ cache' = cache /\ suspended' = With(suspended, t, next)
    BY <1>4, <1>8
  <2>2. <<Progress(t, next)>> \in Seq(Response) /\ ToSet(<<Progress(t, next)>>) = {Progress(t, next)}
    BY <1>6, Listed
  <2>3. Says(Progress(t, next), t, found.of) /\ Progress(t, next).type = "progress"
    BY <1>2, <1>6 DEF Says
  <2>4. responses' \in Seq(Response) /\ Sent' = Sent \cup ToSet(before) \cup {Progress(t, next)}
    BY <1>5, <2>1, <2>2
  <2>5. next.chunks < Chunks
    BY <1>1, <1>2, <1>8 DEF Found
  <2>6. suspended' \in Partial(1..token, Found)
    BY <2>1, <1>1, <1>2, PartialUpdates
  <2>7. \A u \in DOMAIN suspended' :
          \/ u # t /\ u \in DOMAIN suspended /\ suspended'[u] = suspended[u]
          \/ u = t /\ suspended'[u].of = found.of /\ suspended'[u].chunks < Chunks
    BY <2>1, <2>5, <1>2 DEF With
  <2> QED
    BY <2>1, <2>3, <2>4, <2>6, <2>7, <1>1
<1>9. CASE EvaluateChunk(t, found, before) /\ next.chunks = Chunks
  BY <1>4, <1>7, <1>9
<1>10. CASE EvaluationThrows(t, before)
  BY <1>7, <1>10 DEF EvaluationThrows
<1> QED
  BY <1>8, <1>9, <1>10

-----------------------------------------------------------------------------
(* The steps of the page. *)

LEMMA Typed ==
  ASSUME IInv
  PROVE  /\ commands \in Seq(Command) /\ responses \in Seq(Response)
         /\ token \in Nat /\ token <= MaxSearches /\ MaxSearches \in Nat /\ Chunks \in Nat \ {0}
         /\ search \in 0..token /\ 1..token \subseteq Tokens /\ None \notin Inputs
         /\ DOMAIN loading \subseteq 1..token /\ DOMAIN suspended \subseteq 1..token
         /\ loading \in Partial(1..token, Inputs) /\ suspended \in Partial(1..token, Found)
         /\ \A t \in DOMAIN loading : loading[t] \in Inputs
         /\ \A t \in DOMAIN suspended : suspended[t] \in Found
         /\ cache \in Partial(Hashes, Found)
<1>1. TypeOK /\ SearchAssumption
  BY SearchAssumption DEF IInv
<1>2. loading \in Partial(1..token, Inputs) /\ suspended \in Partial(1..token, Found)
  BY <1>1 DEF TypeOK
<1>3. token \in 0..MaxSearches
  BY <1>1 DEF TypeOK
<1> QED
  BY <1>1, <1>2, <1>3, PartialFunction DEF TypeOK, SearchAssumption, Tokens

LEMMA InitHolds == Init => IInv
<1> SUFFICES ASSUME Init PROVE IInv
  OBVIOUS
<1>1. DOMAIN <<>> = {} /\ Len(<<>>) = 0 /\ ToSet(<<>>) = {}
  BY DEF ToSet
<1>2. <<>> = [x \in DOMAIN <<>> |-> <<>>[x]]
  OBVIOUS
<1>3. \A T, S : <<>> \in Partial(T, S)
  BY <1>1, <1>2, PartialFunction
<1>4. TypeOK
  <2>1. running = (search # 0)
    BY DEF Init
  <2>2. commands \in Seq(Command) /\ responses \in Seq(Response)
    BY DEF Init
  <2>3. 0 \in 0..MaxSearches /\ 0 \in 0..0
    BY SearchAssumption
  <2> QED
    BY <1>3, <2>1, <2>2, <2>3 DEF Init, TypeOK
<1>5. Sent = {}
  BY <1>1 DEF Init, Sent
<1> QED
  BY <1>1, <1>4, <1>5 DEF Init, IInv, Stages, CurrentInput, Completeness, CancelFollows, ResultCurrent,
     Supervised

LEMMA ChangeInputKeeps ==
  ASSUME IInv, NEW i \in Inputs, ChangeInput(i) PROVE IInv'
<1>1. TypeOK'
  BY DEF IInv, ChangeInput, TypeOK, worker
<1>2. Stages' /\ Completeness' /\ CancelFollows' /\ Supervised'
  BY DEF IInv, ChangeInput, Stages, Completeness, CancelFollows, Supervised, Asks, Sent, IsActive, worker
<1>3. CurrentInput' /\ ResultCurrent'
  BY DEF IInv, ChangeInput, CurrentInput, ResultCurrent, worker
<1> QED
  BY <1>1, <1>2, <1>3 DEF IInv

(* The page ends its search and says so. *)
LEMMA CancelKeeps ==
  ASSUME IInv, CancelOptimizer, UNCHANGED <<token, loading, deserted, responses, worker>>
  PROVE  /\ commands' \in Seq(Command) /\ search' = 0 /\ ~running' /\ progress' = None
         /\ hash' = None
         /\ Stages' /\ CurrentInput' /\ Completeness' /\ CancelFollows' /\ Supervised'
<1>1. /\ search' = 0 /\ ~running' /\ progress' = None /\ hash' = None
      /\ Sent' = Sent /\ suspended' = suspended
  BY DEF CancelOptimizer, EndSearch, Sent, worker
<1>2. CASE search = 0
  <2>1. commands' = commands
    BY <1>2 DEF CancelOptimizer
  <2> QED
    BY <1>1, <1>2, <2>1, Typed DEF IInv, Stages, CurrentInput, Completeness, CancelFollows, Supervised,
       Asks, IsActive, worker
<1>3. CASE search # 0
  <2> DEFINE e == [type |-> "cancel", token |-> search]
  <2>1. e \in Command /\ e.type = "cancel" /\ e.token = search
    BY <1>3, Typed, Messages
  <2>2. commands' = Append(commands, e)
    BY <1>3 DEF CancelOptimizer
  <2>e. e = [type |-> "cancel", token |-> search]
    OBVIOUS
  <2> HIDE DEF e
  <2>3. /\ commands' \in Seq(Command) /\ Len(commands) \in Nat /\ Len(commands') = Len(commands) + 1
        /\ DOMAIN commands' = 1 .. Len(commands) + 1 /\ DOMAIN commands = 1 .. Len(commands)
        /\ commands'[Len(commands) + 1] = e /\ \A k \in DOMAIN commands : commands'[k] = commands[k]
    BY <2>1, <2>2, Typed, PutLast
  <2>4. \A c \in DOMAIN commands' : Asks(c)' =>
          c \in DOMAIN commands /\ commands'[c] = commands[c] /\ Asks(c)
    BY <2>1, <2>3 DEF Asks
  <2>5. Stages'
    BY <1>1, <2>4 DEF IInv, Stages
  <2>6. CurrentInput' /\ Completeness'
    BY <1>1 DEF IInv, CurrentInput, Completeness
  <2>7. CancelFollows'
    <3> SUFFICES ASSUME NEW c \in DOMAIN commands', Asks(c)', commands'[c].token \notin deserted
                 PROVE  \E d \in c + 1 .. Len(commands') :
                          commands'[d] = [type |-> "cancel", token |-> commands'[c].token]
      BY DEF CancelFollows
    <3>1. CASE commands[c].token = search
      BY <2>3, <2>4, <2>e, <3>1
    <3>2. CASE commands[c].token # search
      <4>1. PICK d \in c + 1 .. Len(commands) :
              commands[d] = [type |-> "cancel", token |-> commands[c].token]
        BY <2>4, <3>2 DEF IInv, CancelFollows
      <4> QED
        BY <2>3, <2>4, <4>1
    <3> QED
      BY <3>1, <3>2
  <2>8. Supervised'
    <3> SUFFICES ASSUME NEW t \in DOMAIN suspended, IsActive(t), t \notin deserted
                 PROVE  \E c \in 1 .. Len(commands') : commands'[c] = [type |-> "cancel", token |-> t]
      BY <1>1 DEF Supervised, IsActive, worker
    <3>1. CASE t = search
      BY <2>3, <2>e, <3>1
    <3>2. CASE t # search
      <4>1. PICK c \in 1 .. Len(commands) : commands[c] = [type |-> "cancel", token |-> t]
        BY <3>2 DEF IInv, Supervised
      <4> QED
        BY <2>3, <4>1
    <3> QED
      BY <3>1, <3>2
  <2> QED
    BY <1>1, <2>3, <2>5, <2>6, <2>7, <2>8
<1> QED
  BY <1>2, <1>3

LEMMA InputEffectKeeps ==
  ASSUME IInv, InputEffect PROVE IInv'
<1>1. /\ commands' \in Seq(Command) /\ search' = 0 /\ ~running' /\ progress' = None /\ hash' = None
      /\ Stages' /\ CurrentInput' /\ Completeness' /\ CancelFollows' /\ Supervised'
  BY CancelKeeps DEF InputEffect
<1>2. running' \in BOOLEAN
  BY DEF InputEffect, CancelOptimizer, EndSearch
<1>3. TypeOK'
  BY <1>1, <1>2, Typed DEF IInv, InputEffect, CancelOptimizer, EndSearch, TypeOK, worker
<1>4. ResultCurrent'
  BY DEF IInv, InputEffect, ResultCurrent, worker
<1> QED
  BY <1>1, <1>3, <1>4 DEF IInv

LEMMA CancelButtonKeeps ==
  ASSUME IInv, CancelButton PROVE IInv'
<1>1. /\ commands' \in Seq(Command) /\ search' = 0 /\ ~running' /\ progress' = None /\ hash' = None
      /\ Stages' /\ CurrentInput' /\ Completeness' /\ CancelFollows' /\ Supervised'
  BY CancelKeeps DEF CancelButton
<1>a. running' \in BOOLEAN
  BY DEF CancelButton, CancelOptimizer, EndSearch
<1>2. TypeOK'
  BY <1>1, <1>a, Typed DEF IInv, CancelButton, CancelOptimizer, EndSearch, TypeOK, worker
<1>3. ResultCurrent'
  BY DEF IInv, CancelButton, ResultCurrent, worker
<1> QED
  BY <1>1, <1>2, <1>3 DEF IInv

LEMMA RunOptimizerKeeps ==
  ASSUME IInv, RunOptimizer PROVE IInv'
<1>1. /\ search = 0 /\ token' = token + 1 /\ search' = token + 1
      /\ loading' = With(loading, token + 1, input)
      /\ UNCHANGED <<input, seenInput, deserted, commands, responses, suspended, activeRun, cancelled, cache>>
      /\ Sent' = Sent
  BY DEF RunOptimizer, Sent, worker
<1>2. /\ DOMAIN loading' = DOMAIN loading \cup {token + 1} /\ loading'[token + 1] = input
      /\ \A t \in DOMAIN loading : t # token + 1 => loading'[t] = loading[t]
  BY <1>1 DEF With
<1>3. input \in Inputs /\ token + 1 \in 1..token' /\ 1..token \subseteq 1..token' /\ token' \in 0..MaxSearches
  BY <1>1, Typed DEF RunOptimizer, IInv, TypeOK
<1>4. loading' \in Partial(1..token', Inputs) /\ suspended' \in Partial(1..token', Found)
  BY <1>1, <1>3, Typed, PartialUpdates
<1>5. TypeOK'
  <2>1. running' = (search' # 0)
    <3>1. search' # 0 /\ running' = TRUE
      BY <1>1, Typed DEF RunOptimizer
    <3> QED
      BY <3>1
  <2>2. search' \in 0..token' /\ activeRun' \in 0..token' /\ cancelled' \subseteq 1..token'
        /\ deserted' \subseteq 1..token'
    BY <1>1, <1>3, Typed DEF IInv, TypeOK
  <2>3. progress' = None /\ result' = None /\ hash' = None
    BY DEF RunOptimizer
  <2> QED
    BY <1>1, <1>3, <1>4, <2>1, <2>2, <2>3, Typed DEF IInv, TypeOK
<1>6. token + 1 \notin DOMAIN suspended
  BY Typed
<1>7. \A c \in DOMAIN commands : Asks(c) =>
        commands[c].token # token + 1 /\ commands[c].token <= token' /\ commands[c].token # 0
  <2>1. \A c \in DOMAIN commands : commands[c] \in Command
    BY Typed
  <2> QED
    BY <1>1, <2>1, Typed, Messages DEF IInv, Stages, Tokens
<1>8. \A r \in Sent : r.token # token + 1 /\ r.token <= token'
  <2>1. \A r \in Sent : r \in Response
    BY Typed DEF Sent, ToSet
  <2> QED
    BY <1>1, <2>1, Typed, Messages DEF IInv, Stages, Tokens
<1>9. Stages'
  BY <1>1, <1>2, <1>6, <1>7, <1>8 DEF IInv, Stages, Asks
<1>10. CurrentInput'
  BY <1>1, <1>2, <1>6, <1>7, <1>8 DEF CurrentInput, Asks
<1>11. Completeness' /\ CancelFollows'
  BY <1>1, <1>7 DEF IInv, Completeness, CancelFollows, Asks
<1>12. Supervised'
  BY <1>1, <1>6, Typed DEF IInv, Supervised, IsActive
<1>13. ResultCurrent'
  BY <1>1 DEF RunOptimizer, IInv, ResultCurrent
<1> QED
  BY <1>5, <1>9, <1>10, <1>11, <1>12, <1>13 DEF IInv

LEMMA CohortLoadedKeeps ==
  ASSUME IInv, NEW t \in Tokens, CohortLoaded(t) PROVE IInv'
<1>1. /\ t \in DOMAIN loading /\ loading' = Without(loading, t)
      /\ UNCHANGED <<input, seenInput, token, search, hash, running, progress, result, deserted, responses>>
      /\ UNCHANGED <<suspended, activeRun, cancelled, cache>> /\ Sent' = Sent
  BY DEF CohortLoaded, Sent, worker
<1>2. /\ DOMAIN loading' = DOMAIN loading \ {t}
      /\ \A u \in DOMAIN loading' : loading'[u] = loading[u]
  BY <1>1 DEF Without
<1>3. loading' \in Partial(1..token, Inputs) /\ loading[t] \in Inputs /\ t \in 1..token
  BY <1>1, Typed, PartialUpdates
<1>4. CASE search # t
  <2>1. commands' = commands
    BY <1>4 DEF CohortLoaded
  <2>2. TypeOK'
    BY <1>1, <1>3, <2>1 DEF IInv, TypeOK
  <2>3. Stages' /\ CurrentInput' /\ Completeness' /\ CancelFollows'
    BY <1>1, <1>2, <2>1 DEF IInv, Stages, CurrentInput, Completeness, CancelFollows, Asks
  <2>4. ResultCurrent' /\ Supervised'
    BY <1>1, <2>1 DEF IInv, ResultCurrent, Supervised, IsActive
  <2> QED
    BY <2>2, <2>3, <2>4 DEF IInv
<1>5. CASE search = t
  <2> DEFINE e == [type |-> "optimize", token |-> t, input |-> loading[t]]
  <2>1. e \in Command /\ e.type = "optimize" /\ e.token = t /\ e.input = loading[t]
    BY <1>3, Typed, Messages
  <2>2. commands' = Append(commands, e)
    BY <1>5 DEF CohortLoaded
  <2> HIDE DEF e
  <2>3. /\ commands' \in Seq(Command) /\ Len(commands) \in Nat /\ Len(commands') = Len(commands) + 1
        /\ DOMAIN commands' = 1 .. Len(commands) + 1 /\ DOMAIN commands = 1 .. Len(commands)
        /\ commands'[Len(commands) + 1] = e /\ \A k \in DOMAIN commands : commands'[k] = commands[k]
    BY <2>1, <2>2, Typed, PutLast
  <2>4. \A c \in DOMAIN commands' : Asks(c)' =>
          \/ c = Len(commands) + 1 /\ commands'[c] = e
          \/ c \in DOMAIN commands /\ commands'[c] = commands[c] /\ Asks(c)
    BY <2>3 DEF Asks
  <2>5. \A c \in DOMAIN commands : Asks(c) => commands[c].token # t
    BY <1>1 DEF IInv, Stages
  <2>6. TypeOK'
    BY <1>1, <1>3, <2>3 DEF IInv, TypeOK
  <2>7. Stages'
    <3>1. \A u \in DOMAIN loading' : u \notin DOMAIN suspended'
      BY <1>1, <1>2 DEF IInv, Stages
    <3>2. \A c \in DOMAIN commands' : Asks(c)' =>
            /\ commands'[c].token <= token'
            /\ commands'[c].token \notin DOMAIN loading' \cup DOMAIN suspended'
      BY <1>1, <1>2, <1>3, <2>1, <2>4 DEF IInv, Stages
    <3>3. \A c, d \in DOMAIN commands' :
            Asks(c)' /\ Asks(d)' /\ commands'[c].token = commands'[d].token => c = d
      BY <2>1, <2>4, <2>5 DEF IInv, Stages
    <3>4. \A r \in Sent' :
            /\ r.token <= token' /\ r.token \notin DOMAIN loading'
            /\ r.type # "progress" =>
                 /\ r.token \notin DOMAIN suspended'
                 /\ \A c \in DOMAIN commands' : Asks(c)' => commands'[c].token # r.token
      BY <1>1, <1>2, <2>1, <2>4 DEF IInv, Stages
    <3> QED
      BY <3>1, <3>2, <3>3, <3>4 DEF Stages
  <2>8. CurrentInput'
    BY <1>1, <1>2, <1>5, <2>1, <2>4 DEF IInv, CurrentInput
  <2>9. Completeness'
    BY <1>1 DEF IInv, Completeness
  <2>10. CancelFollows'
    <3> SUFFICES ASSUME NEW c \in DOMAIN commands', Asks(c)', search # commands'[c].token,
                        commands'[c].token \notin deserted
                 PROVE  \E d \in c + 1 .. Len(commands') :
                          commands'[d] = [type |-> "cancel", token |-> commands'[c].token]
      BY <1>1 DEF CancelFollows
    <3>1. c \in DOMAIN commands /\ commands'[c] = commands[c] /\ Asks(c)
      BY <1>5, <2>1, <2>4
    <3>2. PICK d \in c + 1 .. Len(commands) :
            commands[d] = [type |-> "cancel", token |-> commands[c].token]
      BY <3>1 DEF IInv, CancelFollows
    <3> QED
      BY <2>3, <3>1, <3>2
  <2>11. ResultCurrent'
    BY <1>1 DEF IInv, ResultCurrent
  <2>12. Supervised'
    <3> SUFFICES ASSUME NEW u \in DOMAIN suspended, IsActive(u), search # u, u \notin deserted
                 PROVE  \E c \in 1 .. Len(commands') : commands'[c] = [type |-> "cancel", token |-> u]
      BY <1>1 DEF Supervised, IsActive
    <3>1. PICK c \in 1 .. Len(commands) : commands[c] = [type |-> "cancel", token |-> u]
      BY DEF IInv, Supervised
    <3> QED
      BY <2>3, <3>1
  <2> QED
    BY <2>6, <2>7, <2>8, <2>9, <2>10, <2>11, <2>12 DEF IInv
<1> QED
  BY <1>4, <1>5

(* A search may end once nothing of it is asked for or suspended. *)
LEMMA EndKeeps ==
  ASSUME IInv, EndSearch,
         UNCHANGED <<input, seenInput, token, deserted, commands, worker>>,
         search \notin DOMAIN suspended,
         \A c \in DOMAIN commands : Asks(c) => commands[c].token # search
  PROVE  /\ search' = 0 /\ ~running' /\ running' \in BOOLEAN /\ progress' = None /\ hash' = None
         /\ CurrentInput' /\ CancelFollows' /\ Supervised'
<1>1. search' = 0 /\ ~running' /\ running' \in BOOLEAN /\ progress' = None /\ hash' = None
  BY DEF EndSearch
<1>2. CurrentInput'
  BY <1>1 DEF CurrentInput
<1>3. CancelFollows' /\ Supervised'
  BY <1>1 DEF IInv, CancelFollows, Supervised, Asks, IsActive, worker
<1> QED
  BY <1>1, <1>2, <1>3

LEMMA CohortFailedKeeps ==
  ASSUME IInv, NEW t \in Tokens, CohortFailed(t) PROVE IInv'
<1>1. /\ t \in DOMAIN loading /\ loading' = Without(loading, t)
      /\ UNCHANGED <<input, seenInput, token, result, deserted, commands, responses, worker>>
      /\ UNCHANGED <<suspended, activeRun, cancelled, cache>> /\ Sent' = Sent
  BY DEF CohortFailed, Sent, worker
<1>2. /\ DOMAIN loading' = DOMAIN loading \ {t}
      /\ \A u \in DOMAIN loading' : loading'[u] = loading[u]
  BY <1>1 DEF Without
<1>3. loading' \in Partial(1..token, Inputs)
  BY <1>1, Typed, PartialUpdates
<1>4. Stages' /\ Completeness' /\ ResultCurrent'
  BY <1>1, <1>2 DEF IInv, Stages, Completeness, ResultCurrent, Asks
<1>5. CASE search = t
  <2>1. EndSearch /\ t \notin DOMAIN suspended
        /\ \A c \in DOMAIN commands : Asks(c) => commands[c].token # t
    BY <1>1, <1>5 DEF CohortFailed, IInv, Stages
  <2>2. /\ search' = 0 /\ ~running' /\ running' \in BOOLEAN /\ progress' = None /\ hash' = None
        /\ CurrentInput' /\ CancelFollows' /\ Supervised'
    BY <1>1, <1>5, <2>1, EndKeeps
  <2>3. TypeOK'
    BY <1>1, <1>3, <2>2, Typed DEF IInv, TypeOK
  <2> QED
    BY <1>4, <2>2, <2>3 DEF IInv
<1>6. CASE search # t
  <2>1. UNCHANGED <<search, hash, running, progress>>
    BY <1>6 DEF CohortFailed
  <2>2. TypeOK' /\ Supervised'
    BY <1>1, <1>3, <2>1 DEF IInv, TypeOK, Supervised, IsActive
  <2>3. CurrentInput' /\ CancelFollows'
    BY <1>1, <1>2, <2>1 DEF IInv, CurrentInput, CancelFollows, Asks
  <2> QED
    BY <1>4, <2>2, <2>3 DEF IInv
<1> QED
  BY <1>5, <1>6

LEMMA OnMessageKeeps ==
  ASSUME IInv, OnMessage PROVE IInv'
<1> DEFINE message == Head(responses)
<1>1. /\ responses # <<>> /\ responses' = Tail(responses)
      /\ UNCHANGED <<input, seenInput, token, loading, deserted, commands, worker>>
      /\ UNCHANGED <<suspended, activeRun, cancelled, cache>>
  BY DEF OnMessage, worker
<1>2. /\ responses' \in Seq(Response) /\ message \in Response /\ message \in Sent /\ Sent' \subseteq Sent
  BY <1>1, Typed, Taken DEF Sent
<1>3. \/ UNCHANGED <<search, hash, running, progress, result>>
      \/ /\ Accepts(message) /\ message.type = "progress"
         /\ hash' = message.hash /\ progress' = message.found /\ UNCHANGED <<search, running, result>>
      \/ Accepts(message) /\ message.type = "result" /\ EndSearch /\ result' = message.found
      \/ Accepts(message) /\ message.type # "progress" /\ EndSearch /\ UNCHANGED result
  BY DEF OnMessage
<1> HIDE DEF message
<1>4. Stages' /\ Completeness'
  BY <1>1, <1>2 DEF IInv, Stages, Completeness, Asks
<1>5. CASE UNCHANGED <<search, hash, running, progress, result>>
  <2>1. TypeOK' /\ ResultCurrent' /\ Supervised'
    BY <1>1, <1>2, <1>5 DEF IInv, TypeOK, ResultCurrent, Supervised, IsActive
  <2>2. CurrentInput' /\ CancelFollows'
    BY <1>1, <1>2, <1>5 DEF IInv, CurrentInput, CancelFollows, Asks
  <2> QED
    BY <1>4, <2>1, <2>2 DEF IInv
<1>6. CASE /\ Accepts(message) /\ message.type = "progress"
           /\ hash' = message.hash /\ progress' = message.found /\ UNCHANGED <<search, running, result>>
  <2>1. message.hash \in Hashes /\ message.found \in Found /\ search # 0
    BY <1>2, <1>6, Messages DEF Accepts
  <2>2. TypeOK' /\ ResultCurrent' /\ Supervised'
    BY <1>1, <1>2, <1>6, <2>1 DEF IInv, TypeOK, ResultCurrent, Supervised, IsActive
  <2>3. CurrentInput' /\ CancelFollows'
    BY <1>1, <1>2, <1>6 DEF IInv, CurrentInput, CancelFollows, Asks
  <2> QED
    BY <1>4, <2>2, <2>3 DEF IInv
<1>7. ASSUME Accepts(message), message.type # "progress", EndSearch
      PROVE  /\ search' = 0 /\ ~running' /\ running' \in BOOLEAN /\ progress' = None /\ hash' = None
             /\ CurrentInput' /\ CancelFollows' /\ Supervised'
  <2>1. /\ message.token = search /\ search \notin DOMAIN suspended
        /\ \A c \in DOMAIN commands : Asks(c) => commands[c].token # search
    BY <1>2, <1>7 DEF Accepts, IInv, Stages
  <2> QED
    BY <1>1, <1>7, <2>1, EndKeeps
<1>8. CASE Accepts(message) /\ message.type = "result" /\ EndSearch /\ result' = message.found
  <2>1. message.found \in Found /\ search # 0 /\ message.token = search
    BY <1>2, <1>8, Messages DEF Accepts
  <2>2. message.found = Complete(message.found.of)
    BY <1>2, <1>8, <2>1, FoundIs DEF IInv, Completeness
  <2>3. seenInput = input => message.found.of = input
    BY <1>2, <1>8, <2>1 DEF IInv, CurrentInput
  <2>4. ResultCurrent'
    BY <1>1, <1>8, <2>2, <2>3 DEF IInv, ResultCurrent
  <2>5. TypeOK'
    BY <1>1, <1>2, <1>7, <1>8, <2>1, Typed DEF IInv, TypeOK
  <2> QED
    BY <1>4, <1>7, <1>8, <2>4, <2>5 DEF IInv
<1>9. CASE Accepts(message) /\ message.type # "progress" /\ EndSearch /\ UNCHANGED result
  <2>1. TypeOK' /\ ResultCurrent'
    BY <1>1, <1>2, <1>7, <1>9, Typed DEF IInv, TypeOK, ResultCurrent
  <2> QED
    BY <1>4, <1>7, <1>9, <2>1 DEF IInv
<1> QED
  BY <1>3, <1>5, <1>6, <1>8, <1>9

LEMMA OnErrorKeeps ==
  ASSUME IInv, OnError PROVE IInv'
<1>1. /\ search # 0 /\ search' = 0 /\ ~running' /\ running' \in BOOLEAN /\ progress' = None /\ hash' = None
      /\ deserted' = deserted \cup {search}
      /\ UNCHANGED <<input, seenInput, token, result, loading, commands, responses>>
      /\ UNCHANGED <<suspended, activeRun, cancelled, cache>> /\ Sent' = Sent
  BY DEF OnError, EndSearch, Sent, worker
<1>2. search \in 1..token
  BY <1>1, Typed
<1>3. TypeOK'
  <2>1. running' = (search' # 0)
    BY <1>1
  <2>2. deserted' \subseteq 1..token' /\ search' \in 0..token'
    BY <1>1, <1>2, Typed DEF IInv, TypeOK
  <2> QED
    BY <1>1, <2>1, <2>2 DEF IInv, TypeOK
<1>4. Stages' /\ CurrentInput' /\ Completeness' /\ ResultCurrent'
  BY <1>1 DEF IInv, Stages, CurrentInput, Completeness, ResultCurrent, Asks
<1>5. CancelFollows' /\ Supervised'
  BY <1>1 DEF IInv, CancelFollows, Supervised, Asks, IsActive
<1> QED
  BY <1>3, <1>4, <1>5 DEF IInv

-----------------------------------------------------------------------------
(* The steps of the worker. *)

(* A command is taken: the others move up. *)
LEMMA CommandTaken ==
  ASSUME IInv, commands # <<>>, commands' = Tail(commands)
  PROVE  /\ commands' \in Seq(Command) /\ Head(commands) \in Command /\ Head(commands) = commands[1]
         /\ 1 \in DOMAIN commands /\ DOMAIN commands = 1 .. Len(commands)
         /\ Len(commands) \in Nat \ {0} /\ Len(commands') = Len(commands) - 1
         /\ DOMAIN commands' = 1 .. Len(commands) - 1
         /\ \A k \in DOMAIN commands' : k + 1 \in DOMAIN commands /\ commands'[k] = commands[k + 1]
         /\ \A c \in DOMAIN commands' : Asks(c)' => c + 1 \in DOMAIN commands /\ Asks(c + 1)
BY Typed, Taken DEF Asks

LEMMA ShiftKeeps ==
  ASSUME IInv, commands # <<>>, commands' = Tail(commands), UNCHANGED <<search, deserted>>
  PROVE  /\ CancelFollows'
         /\ \A t : (\E c \in 2 .. Len(commands) : commands[c] = [type |-> "cancel", token |-> t])
              => \E c \in 1 .. Len(commands') : commands'[c] = [type |-> "cancel", token |-> t]
<1>1. \A t : \A d \in 2 .. Len(commands) : commands[d] = [type |-> "cancel", token |-> t]
        => d - 1 \in 1 .. Len(commands') /\ commands'[d - 1] = [type |-> "cancel", token |-> t]
  BY CommandTaken
<1>2. CancelFollows'
  <2> SUFFICES ASSUME NEW c \in DOMAIN commands', Asks(c)', search # commands'[c].token,
                      commands'[c].token \notin deserted
               PROVE  \E d \in c + 1 .. Len(commands') :
                        commands'[d] = [type |-> "cancel", token |-> commands'[c].token]
    BY DEF CancelFollows
  <2>1. /\ c + 1 \in DOMAIN commands /\ Asks(c + 1) /\ commands'[c] = commands[c + 1] /\ c \in Nat \ {0}
    BY CommandTaken
  <2>2. PICK d \in c + 2 .. Len(commands) :
          commands[d] = [type |-> "cancel", token |-> commands[c + 1].token]
    BY <2>1 DEF IInv, CancelFollows
  <2>3. d - 1 \in c + 1 .. Len(commands')
    BY <2>1, CommandTaken
  <2>4. commands'[d - 1] = [type |-> "cancel", token |-> commands'[c].token]
    BY <1>1, <2>1, <2>2
  <2> QED
    BY <2>3, <2>4
<1> QED
  BY <1>1, <1>2

LEMMA ReceiveCancelKeeps ==
  ASSUME IInv, ReceiveCancel PROVE IInv'
<1>1. /\ commands # <<>> /\ Head(commands).type = "cancel" /\ commands' = Tail(commands)
      /\ cancelled' = IF Head(commands).token = activeRun THEN cancelled \cup {activeRun} ELSE cancelled
      /\ UNCHANGED <<input, seenInput, token, search, hash, running, progress, result, loading, deserted>>
      /\ UNCHANGED <<responses, activeRun, suspended, cache>> /\ Sent' = Sent
  BY DEF ReceiveCancel, page, Sent
<1>2. /\ commands' \in Seq(Command) /\ Head(commands) \in Command /\ Head(commands) = commands[1]
      /\ DOMAIN commands = 1 .. Len(commands) /\ Len(commands) \in Nat \ {0}
      /\ \A k \in DOMAIN commands' : k + 1 \in DOMAIN commands /\ commands'[k] = commands[k + 1]
      /\ \A c \in DOMAIN commands' : Asks(c)' => c + 1 \in DOMAIN commands /\ Asks(c + 1)
      /\ DOMAIN commands' = 1 .. Len(commands) - 1
  BY <1>1, CommandTaken
<1>3. cancelled' \subseteq 1..token
  BY <1>1, <1>2, Typed, Messages DEF IInv, TypeOK, Tokens
<1>4. TypeOK'
  BY <1>1, <1>2, <1>3 DEF IInv, TypeOK
<1>5. Stages'
  <2>1. \A c, d \in DOMAIN commands' :
          Asks(c)' /\ Asks(d)' /\ commands'[c].token = commands'[d].token => c = d
    BY <1>2 DEF IInv, Stages
  <2> QED
    BY <1>1, <1>2, <2>1 DEF IInv, Stages
<1>6. CurrentInput' /\ Completeness' /\ ResultCurrent'
  BY <1>1, <1>2 DEF IInv, CurrentInput, Completeness, ResultCurrent
<1>7. Supervised'
  <2> SUFFICES ASSUME NEW t \in DOMAIN suspended, IsActive(t)', search # t, t \notin deserted
               PROVE  \E c \in 1 .. Len(commands') : commands'[c] = [type |-> "cancel", token |-> t]
    BY <1>1 DEF Supervised
  <2>1. IsActive(t) /\ Head(commands).token # t
    BY <1>1 DEF IsActive
  <2>2. PICK c \in 1 .. Len(commands) : commands[c] = [type |-> "cancel", token |-> t]
    BY <2>1 DEF IInv, Supervised
  <2>3. c # 1
    BY <1>2, <2>1, <2>2
  <2>4. c \in 2 .. Len(commands)
    BY <1>2, <2>3
  <2> QED
    BY <1>1, <2>2, <2>4, ShiftKeeps
<1> QED
  BY <1>1, <1>4, <1>5, <1>6, <1>7, ShiftKeeps DEF IInv

(* What the worker says of a search is what the invariant asks for. *)
LEMMA WorkerKeeps ==
  ASSUME IInv, NEW t \in 1..token, NEW i \in Inputs,
         UNCHANGED <<input, seenInput, token, search, hash, running, progress, result, loading, deserted>>,
         commands' \in Seq(Command),
         activeRun' \in 0..token, cancelled' \subseteq 1..token,
         responses' \in Seq(Response), suspended' \in Partial(1..token, Found),
         cache' \in Partial(Hashes, Found),
         t \notin DOMAIN loading,
         search = t /\ seenInput = input => i = input,
         \A c \in DOMAIN commands' : Asks(c)' =>
           /\ commands'[c].token # t
           /\ \E d \in DOMAIN commands : Asks(d) /\ commands'[c] = commands[d],
         \A c, d \in DOMAIN commands' :
           Asks(c)' /\ Asks(d)' /\ commands'[c].token = commands'[d].token => c = d,
         \A r \in Sent' : \/ r \in Sent /\ (r.type # "progress" => r.token # t)
                          \/ Says(r, t, i) /\ (r.type # "progress" => t \notin DOMAIN suspended'),
         \A u \in DOMAIN suspended' :
           \/ u # t /\ u \in DOMAIN suspended /\ suspended'[u] = suspended[u]
           \/ u = t /\ suspended'[u].of = i /\ suspended'[u].chunks < Chunks,
         \A h \in DOMAIN cache' :
           \/ h \in DOMAIN cache /\ cache'[h] = cache[h]
           \/ h = HashOf[i] /\ cache'[h] = Complete(i)
  PROVE  TypeOK' /\ Stages' /\ CurrentInput' /\ Completeness' /\ ResultCurrent'
<1>1. TypeOK'
  BY DEF IInv, TypeOK
<1>2. Stages'
  <2>1. \A u \in DOMAIN loading' : u \notin DOMAIN suspended'
    BY DEF IInv, Stages
  <2>2. \A c \in DOMAIN commands' : Asks(c)' =>
          /\ commands'[c].token <= token'
          /\ commands'[c].token \notin DOMAIN loading' \cup DOMAIN suspended'
    BY DEF IInv, Stages
  <2>3. \A r \in Sent' :
          /\ r.token <= token' /\ r.token \notin DOMAIN loading'
          /\ r.type # "progress" =>
               /\ r.token \notin DOMAIN suspended'
               /\ \A c \in DOMAIN commands' : Asks(c)' => commands'[c].token # r.token
    <3> SUFFICES ASSUME NEW r \in Sent'
                 PROVE  /\ r.token <= token' /\ r.token \notin DOMAIN loading'
                        /\ r.type # "progress" =>
                             /\ r.token \notin DOMAIN suspended'
                             /\ \A c \in DOMAIN commands' : Asks(c)' => commands'[c].token # r.token
      OBVIOUS
    <3>1. CASE r \in Sent /\ (r.type # "progress" => r.token # t)
      BY <3>1 DEF IInv, Stages
    <3>2. CASE Says(r, t, i) /\ (r.type # "progress" => t \notin DOMAIN suspended')
      BY <3>2, Typed DEF Says
    <3> QED
      BY <3>1, <3>2
  <2> QED
    BY <2>1, <2>2, <2>3 DEF Stages
<1>3. CurrentInput'
  <2> SUFFICES ASSUME search # 0, seenInput = input
               PROVE  /\ search \in DOMAIN loading => loading[search] = input
                      /\ search \in DOMAIN suspended' => suspended'[search].of = input
                      /\ \A c \in DOMAIN commands' :
                           Asks(c)' /\ commands'[c].token = search => commands'[c].input = input
                      /\ \A r \in Sent' : r.token = search /\ r.type \in {"progress", "result"}
                           => r.found.of = input
    BY DEF CurrentInput
  <2> QED
    BY DEF IInv, CurrentInput, Says
<1>4. Completeness'
  BY DEF IInv, Completeness, Says
<1>5. ResultCurrent'
  BY DEF IInv, ResultCurrent
<1> QED
  BY <1>1, <1>2, <1>3, <1>4, <1>5

LEMMA ReceiveRequestKeeps ==
  ASSUME IInv, ReceiveRequest PROVE IInv'
<1> DEFINE t == Head(commands).token
           i == Head(commands).input
           start == [of |-> i, chunks |-> 0]
           h == HashOf[i]
<1>1. /\ commands # <<>> /\ Head(commands).type = "optimize" /\ commands' = Tail(commands)
      /\ activeRun' = t
      /\ cancelled' = IF activeRun = 0 THEN cancelled ELSE cancelled \cup {activeRun}
      /\ UNCHANGED <<input, seenInput, token, search, hash, running, progress, result, loading, deserted>>
      /\ \/ /\ h \in DOMAIN cache /\ UNCHANGED <<suspended, cache>>
            /\ Post(<<Progress(t, cache[h]), Result(t, cache[h])>>)
         \/ EvaluateChunk(t, start, <<Progress(t, start)>>)
         \/ EvaluationThrows(t, <<Progress(t, start)>>)
  BY DEF ReceiveRequest, page
<1>2. /\ commands' \in Seq(Command) /\ Head(commands) \in Command /\ Head(commands) = commands[1]
      /\ 1 \in DOMAIN commands /\ DOMAIN commands = 1 .. Len(commands) /\ Len(commands) \in Nat \ {0}
      /\ \A k \in DOMAIN commands' : k + 1 \in DOMAIN commands /\ commands'[k] = commands[k + 1]
      /\ \A c \in DOMAIN commands' : Asks(c)' => c + 1 \in DOMAIN commands /\ Asks(c + 1)
      /\ DOMAIN commands' = 1 .. Len(commands) - 1
  BY <1>1, CommandTaken
<1>3. Asks(1) /\ t = commands[1].token /\ i = commands[1].input
  BY <1>1, <1>2 DEF Asks
<1>4. t \in 1..token /\ i \in Inputs
  BY <1>1, <1>2, <1>3, Typed, Messages DEF IInv, Stages, Tokens
<1>5. /\ start \in Found /\ start.chunks < Chunks /\ start.of = i /\ start.chunks = 0
  BY <1>4, Typed DEF Found
<1>6. h \in Hashes /\ HashOf[start.of] = h
  BY <1>4, <1>5, SearchAssumption
<1> HIDE DEF t, i, start, h
<1>7. /\ t \notin DOMAIN loading /\ t \notin DOMAIN suspended
      /\ \A r \in Sent : r.type # "progress" => r.token # t
      /\ search = t /\ seenInput = input => i = input
  <2>1. \A r \in Sent : r.type # "progress" => t # r.token
    BY <1>2, <1>3 DEF IInv, Stages
  <2>2. search = t /\ seenInput = input => i = input
    <3>1. t # 0
      BY <1>4, Typed
    <3> QED
      BY <1>2, <1>3, <3>1 DEF IInv, CurrentInput
  <2> QED
    BY <2>1, <2>2, <1>2, <1>3 DEF IInv, Stages
<1>8. /\ \A c \in DOMAIN commands' : Asks(c)' =>
           /\ commands'[c].token # t
           /\ \E d \in DOMAIN commands : Asks(d) /\ commands'[c] = commands[d]
      /\ \A c, d \in DOMAIN commands' :
           Asks(c)' /\ Asks(d)' /\ commands'[c].token = commands'[d].token => c = d
  <2>1. ASSUME NEW c \in DOMAIN commands', Asks(c)'
        PROVE  c + 1 \in DOMAIN commands /\ Asks(c + 1) /\ commands'[c] = commands[c + 1] /\ c + 1 # 1
               /\ c \in Nat
    BY <1>2, <2>1
  <2>2. ASSUME NEW c \in DOMAIN commands', Asks(c)'
        PROVE  commands'[c].token # t
    BY <1>2, <1>3, <2>1, <2>2 DEF IInv, Stages
  <2>3. ASSUME NEW c \in DOMAIN commands', NEW d \in DOMAIN commands', Asks(c)', Asks(d)',
               commands'[c].token = commands'[d].token
        PROVE  c = d
    <3>1. c + 1 = d + 1
      BY <2>1, <2>3 DEF IInv, Stages
    <3> QED
      BY <3>1, <2>1, <2>3
  <2> QED
    BY <2>1, <2>2, <2>3
<1>9. activeRun' \in 0..token /\ cancelled' \subseteq 1..token
  BY <1>1, <1>4, Typed DEF IInv, TypeOK
<1>10. /\ responses' \in Seq(Response) /\ suspended' \in Partial(1..token, Found)
       /\ cache' \in Partial(Hashes, Found)
       /\ \A r \in Sent' : \/ r \in Sent
                           \/ Says(r, t, i) /\ (r.type # "progress" => t \notin DOMAIN suspended')
       /\ \A u \in DOMAIN suspended' :
            \/ u # t /\ u \in DOMAIN suspended /\ suspended'[u] = suspended[u]
            \/ u = t /\ suspended'[u].of = i /\ suspended'[u].chunks < Chunks
       /\ \A k \in DOMAIN cache' : \/ k \in DOMAIN cache /\ cache'[k] = cache[k]
                                   \/ k = HashOf[i] /\ cache'[k] = Complete(i)
  <2>1. CASE /\ h \in DOMAIN cache /\ UNCHANGED <<suspended, cache>>
             /\ Post(<<Progress(t, cache[h]), Result(t, cache[h])>>)
    <3> DEFINE found == cache[h]
    <3>1. found = Complete(i)
      BY <2>1, <1>4, <1>5, <1>6, HashAssumption DEF IInv, ResultCurrent
    <3>2. found \in Found /\ found.of = i /\ found.chunks = Chunks /\ t \in Tokens
      BY <3>1, <1>4, Typed DEF Complete, Found
    <3> HIDE DEF found
    <3> DEFINE last == <<Progress(t, found), Result(t, found)>>
    <3>3. /\ Progress(t, found) \in Response /\ Result(t, found) \in Response
          /\ Says(Progress(t, found), t, i) /\ Says(Result(t, found), t, i)
      BY <3>2, Spoken DEF Says, Progress, Result
    <3>4. last \in Seq(Response) /\ ToSet(last) = {Progress(t, found), Result(t, found)}
      BY <3>3, Listed
    <3>5. responses' = responses \o last
      BY <2>1 DEF Post, found
    <3> HIDE DEF last
    <3>6. responses' \in Seq(Response) /\ Sent' = Sent \cup {Progress(t, found), Result(t, found)}
      BY <3>4, <3>5, Typed, PutAll DEF Sent
    <3> QED
      BY <2>1, <3>3, <3>6, <1>7, Typed
  <2>2. CASE EvaluateChunk(t, start, <<Progress(t, start)>>) \/ EvaluationThrows(t, <<Progress(t, start)>>)
    <3> DEFINE p == Progress(t, start)
    <3>1. p \in Response /\ p.type = "progress" /\ Says(p, t, start.of) /\ TypeOK
      BY <1>4, <1>5, Typed, Spoken DEF Says, Progress, IInv
    <3> HIDE DEF p
    <3>2. <<p>> \in Seq(Response) /\ ToSet(<<p>>) = {p}
      BY <3>1, Listed
    <3>3. EvaluateChunk(t, start, <<p>>) \/ EvaluationThrows(t, <<p>>)
      BY <2>2 DEF p
    <3>4. \A r \in ToSet(<<p>>) : r.type = "progress" /\ Says(r, t, start.of)
      BY <3>1, <3>2
    <3> QED
      BY ZenonT(30), <3>1, <3>2, <3>3, <3>4, <1>4, <1>5, ChunkEffect
  <2> QED
    BY <1>1, <2>1, <2>2 DEF t, start, h, i
<1>11. \A r \in Sent' : \/ r \in Sent /\ (r.type # "progress" => r.token # t)
                        \/ Says(r, t, i) /\ (r.type # "progress" => t \notin DOMAIN suspended')
  BY <1>7, <1>10
<1>12. TypeOK' /\ Stages' /\ CurrentInput' /\ Completeness' /\ ResultCurrent'
  BY <1>1, <1>2, <1>4, <1>7, <1>8, <1>9, <1>10, <1>11, WorkerKeeps
<1>13. CancelFollows'
  BY <1>1, ShiftKeeps
<1>14. Supervised'
  <2> SUFFICES ASSUME NEW u \in DOMAIN suspended', IsActive(u)', search # u, u \notin deserted
               PROVE  \E c \in 1 .. Len(commands') : commands'[c] = [type |-> "cancel", token |-> u]
    BY <1>1 DEF Supervised
  <2>1. u = t
    BY <1>1 DEF IsActive, t
  <2>2. PICK d \in 2 .. Len(commands) : commands[d] = [type |-> "cancel", token |-> u]
    BY <1>2, <1>3, <2>1 DEF IInv, CancelFollows
  <2> QED
    BY <1>1, <2>2, ShiftKeeps
<1> QED
  BY <1>12, <1>13, <1>14 DEF IInv

LEMMA ContinueRunKeeps ==
  ASSUME IInv, NEW t \in Tokens, ContinueRun(t) PROVE IInv'
<1> DEFINE i == suspended[t].of
           e == [type |-> "cancelled", token |-> t, hash |-> HashOf[i]]
<1>1. /\ t \in DOMAIN suspended
      /\ UNCHANGED <<input, seenInput, token, search, hash, running, progress, result, loading, deserted>>
      /\ UNCHANGED <<commands, activeRun, cancelled>>
  BY DEF ContinueRun, page
<1>2. /\ t \in 1..token /\ suspended[t] \in Found /\ suspended[t].chunks < Chunks
      /\ i \in Inputs /\ i = suspended[t].of /\ TypeOK
  BY <1>1, Typed DEF IInv, Completeness, Found
<1>3. /\ t \notin DOMAIN loading
      /\ \A c \in DOMAIN commands : Asks(c) => commands[c].token # t
      /\ \A r \in Sent : r.type # "progress" => r.token # t
      /\ search = t /\ seenInput = input => i = input
  <2>1. \A r \in Sent : r.type # "progress" => r.token # t
    BY <1>1 DEF IInv, Stages
  <2>2. search = t /\ seenInput = input => i = input
    BY <1>1, <1>2, Typed DEF IInv, CurrentInput
  <2> QED
    BY <2>1, <2>2, <1>1 DEF IInv, Stages
<1>4. e \in Response /\ Says(e, t, i)
  BY <1>2, Spoken DEF Says
<1>5. \/ EvaluateChunk(t, suspended[t], <<>>) \/ EvaluationThrows(t, <<>>)
      \/ /\ suspended' = Without(suspended, t) /\ cache' = cache
         /\ responses' = responses \o <<e>> \/ responses' = responses \o <<>>
  BY DEF ContinueRun, Post
<1> HIDE DEF i, e
<1>6. /\ responses' \in Seq(Response) /\ suspended' \in Partial(1..token, Found)
      /\ cache' \in Partial(Hashes, Found)
      /\ \A r \in Sent' : \/ r \in Sent
                          \/ Says(r, t, i) /\ (r.type # "progress" => t \notin DOMAIN suspended')
      /\ \A u \in DOMAIN suspended' :
           \/ u # t /\ u \in DOMAIN suspended /\ suspended'[u] = suspended[u]
           \/ u = t /\ suspended'[u].of = i /\ suspended'[u].chunks < Chunks
      /\ \A k \in DOMAIN cache' : \/ k \in DOMAIN cache /\ cache'[k] = cache[k]
                                  \/ k = HashOf[i] /\ cache'[k] = Complete(i)
  <2>1. <<>> \in Seq(Response) /\ ToSet(<<>>) = {}
    BY Listed
  <2>2. CASE EvaluateChunk(t, suspended[t], <<>>) \/ EvaluationThrows(t, <<>>)
    <3> DEFINE found == suspended[t]
    <3>1. found \in Found /\ found.chunks < Chunks /\ found.of = i
      BY <1>2
    <3> DEFINE none == <<>>
    <3>2. EvaluateChunk(t, found, none) \/ EvaluationThrows(t, none)
      BY <2>2
    <3>3. none \in Seq(Response) /\ ToSet(none) = {}
      BY <2>1
    <3> HIDE DEF found, none
    <3> QED
      BY <1>2, <3>1, <3>2, <3>3, ChunkEffect
  <2>3. CASE /\ suspended' = Without(suspended, t) /\ cache' = cache
             /\ responses' = responses \o <<e>> \/ responses' = responses \o <<>>
    <3>1. <<e>> \in Seq(Response) /\ ToSet(<<e>>) = {e}
      BY <1>4, Listed
    <3>2. responses' \in Seq(Response) /\ Sent' \subseteq Sent \cup {e}
      <4>1. ASSUME NEW more \in Seq(Response), responses' = responses \o more
            PROVE  responses' \in Seq(Response) /\ Sent' = Sent \cup ToSet(more)
        BY <4>1, Typed, PutAll DEF Sent
      <4> QED
        BY <4>1, <2>1, <2>3, <3>1
    <3>3. t \notin DOMAIN suspended'
          /\ \A u \in DOMAIN suspended' : u \in DOMAIN suspended /\ suspended'[u] = suspended[u]
      BY <2>3 DEF Without
    <3>4. suspended' \in Partial(1..token, Found)
      BY <2>3, Typed, PartialUpdates
    <3> QED
      BY <1>4, <2>3, <3>2, <3>3, <3>4, Typed
  <2> QED
    BY <1>5, <2>2, <2>3
<1>7. \A r \in Sent' : \/ r \in Sent /\ (r.type # "progress" => r.token # t)
                       \/ Says(r, t, i) /\ (r.type # "progress" => t \notin DOMAIN suspended')
  BY <1>3, <1>6
<1>8. /\ \A c \in DOMAIN commands' : Asks(c)' =>
           /\ commands'[c].token # t
           /\ \E d \in DOMAIN commands : Asks(d) /\ commands'[c] = commands[d]
      /\ \A c, d \in DOMAIN commands' :
           Asks(c)' /\ Asks(d)' /\ commands'[c].token = commands'[d].token => c = d
  BY <1>1, <1>3 DEF Asks, IInv, Stages
<1>9. commands' \in Seq(Command) /\ activeRun' \in 0..token /\ cancelled' \subseteq 1..token
  BY <1>1, Typed DEF IInv, TypeOK
<1>10. TypeOK' /\ Stages' /\ CurrentInput' /\ Completeness' /\ ResultCurrent'
  BY <1>1, <1>2, <1>3, <1>6, <1>7, <1>8, <1>9, WorkerKeeps
<1>11. CancelFollows'
  BY <1>1 DEF IInv, CancelFollows, Asks
<1>12. Supervised'
  BY <1>1, <1>6 DEF IInv, Supervised, IsActive
<1> QED
  BY <1>10, <1>11, <1>12 DEF IInv

-----------------------------------------------------------------------------
LEMMA StepKeeps == IInv /\ [Next]_vars => IInv'
<1> SUFFICES ASSUME IInv, [Next]_vars PROVE IInv'
  OBVIOUS
<1>1. CASE UNCHANGED vars
  <2>1. /\ UNCHANGED <<input, seenInput, token, search, hash, running, progress, result, loading, deserted>>
        /\ UNCHANGED <<commands, responses, activeRun, cancelled, suspended, cache>> /\ Sent' = Sent
    BY <1>1 DEF vars, page, worker, Sent
  <2> QED
    BY <2>1 DEF IInv, TypeOK, Stages, CurrentInput, Completeness, CancelFollows, ResultCurrent,
       Supervised, Asks, IsActive
<1>2. CASE Next
  BY <1>2, ChangeInputKeeps, InputEffectKeeps, RunOptimizerKeeps, CancelButtonKeeps, CohortLoadedKeeps,
     CohortFailedKeeps, OnMessageKeeps, OnErrorKeeps, ReceiveCancelKeeps, ReceiveRequestKeeps,
     ContinueRunKeeps DEF Next
<1> QED
  BY <1>1, <1>2

THEOREM SearchInvariant == Spec => []IInv
BY InitHolds, StepKeeps, PTL DEF Spec

(* What page and worker keep, and what is under way between them, is well  *)
(* formed; a search is running exactly while there is a token of one.      *)
THEOREM SearchTyped == Spec => []TypeOK
<1>1. IInv => TypeOK
  BY DEF IInv
<1> QED
  BY <1>1, SearchInvariant, PTL

(* Whatever messages of abandoned searches are under way, a ranking on     *)
(* display is the complete one of the inputs on display, and the cache     *)
(* holds complete rankings under the hash of their own inputs              *)
(* (acceptsOptimizerUiResponse, the effect on the inputs, runInChunks).    *)
THEOREM RankingIsCurrent == Spec => []ResultCurrent
<1>1. IInv => ResultCurrent
  BY DEF IInv
<1> QED
  BY <1>1, SearchInvariant, PTL

(* A worker that goes on with a search the page has ended is about to hear *)
(* of it, unless the page gave up on an error event (cancelOptimizer).     *)
THEOREM WorkerIsSupervised == Spec => []Supervised
<1>1. IInv => Supervised
  BY DEF IInv
<1> QED
  BY <1>1, SearchInvariant, PTL


-----------------------------------------------------------------------------
(* What the lab says of a comparison does not contradict itself            *)
(* (Comparison).  The argument: every weight is positive, so the masses of *)
(* the two sides are compared like the rows that make them up: exchanged   *)
(* with the builds, added up over the champions, and, at the median, from  *)
(* the rows whose difference has its sign.                                 *)

-----------------------------------------------------------------------------
(* The rows of a comparison. *)
Rows == {[target |-> e, a |-> f.a, b |-> f.b] : e \in Targets, f \in Fought}
Sides == {"a", "b", "tie", "censored"}

LEMMA RowFacts ==
  ASSUME NEW r \in Rows, metric \in {"damage", "ttk"}
  PROVE  /\ Weight(r.target) \in Nat \ {0}
         /\ \A x \in {r.a, r.b} : x.killed \in BOOLEAN /\ x.damage \in Nat /\ x.ttk \in Nat
         /\ r.a.damage = 0 <=> r.b.damage = 0
         /\ r.a.killed => r.a.damage >= r.b.damage
         /\ r.b.killed => r.b.damage >= r.a.damage
         /\ Outcome(r) \in Sides
         /\ Compare(r.b, r.a, metric) = Mirror(Outcome(r))
<1>1. PICK e \in Targets, f \in Fought : r = [target |-> e, a |-> f.a, b |-> f.b]
  BY DEF Rows
<1>2. /\ Weight(r.target) \in Nat \ {0}
      /\ \A x \in {r.a, r.b} : x.killed \in BOOLEAN /\ x.damage \in Nat /\ x.ttk \in Nat
      /\ r.a.damage = 0 <=> r.b.damage = 0
      /\ r.a.killed => r.a.damage >= r.b.damage
      /\ r.b.killed => r.b.damage >= r.a.damage
  BY <1>1, ComparisonAssumption DEF Weight
<1>3. ASSUME NEW a, NEW b, a.killed \in BOOLEAN, a.damage \in Nat, a.ttk \in Nat,
             b.killed \in BOOLEAN, b.damage \in Nat, b.ttk \in Nat
      PROVE  Compare(a, b, metric) \in Sides /\ Compare(b, a, metric) = Mirror(Compare(a, b, metric))
  <2>1. CASE a.killed /\ ~b.killed
    BY <1>3, <2>1 DEF Compare, Sides, Mirror
  <2>2. CASE ~a.killed /\ b.killed
    BY <1>3, <2>2 DEF Compare, Sides, Mirror
  <2>3. CASE a.killed /\ b.killed
    BY <1>3, <2>3 DEF Compare, Sides, Mirror
  <2>4. CASE ~a.killed /\ ~b.killed
    BY <1>3, <2>4 DEF Compare, Sides, Mirror
  <2> QED BY <1>3, <2>1, <2>2, <2>3, <2>4
<1> QED BY <1>2, <1>3 DEF Outcome

LEMMA MassFacts ==
  ASSUME NEW rows \in Seq(Rows), metric \in {"damage", "ttk"}
  PROVE  /\ IsFiniteSet(DOMAIN rows)
         /\ \A k \in DOMAIN rows : rows[k] \in Rows /\ Weights(rows)[k] \in Nat \ {0}
         /\ \A K : Weigh(rows, K) = SumOf(Weights(rows), K)
         /\ \A K \in SUBSET DOMAIN rows :
              /\ IsFiniteSet(K)
              /\ \A T \in SUBSET K :
                   /\ Weigh(rows, K) \in Nat /\ Weigh(rows, T) \in Nat /\ Weigh(rows, K \ T) \in Nat
                   /\ Weigh(rows, T) <= Weigh(rows, K)
                   /\ Weigh(rows, K) = Weigh(rows, T) + Weigh(rows, K \ T)
              /\ K # {} => Weigh(rows, K) > 0
              /\ K = {} => Weigh(rows, K) = 0
<1>1. IsFiniteSet(DOMAIN rows)
  <2>1. DOMAIN rows = 1..Len(rows) /\ Len(rows) \in Nat
    BY LenProperties
  <2> QED BY <2>1, FS_Interval
<1>2. \A k \in DOMAIN rows : rows[k] \in Rows /\ Weights(rows)[k] \in Nat \ {0}
  <2>1. \A k \in DOMAIN rows : rows[k] \in Rows
    BY ElementOfSeq, LenProperties
  <2>2. \A k \in DOMAIN rows : Weights(rows)[k] = Weight(rows[k].target)
    BY DEF Weights
  <2> QED BY <2>1, <2>2, RowFacts
<1>3. \A K : Weigh(rows, K) = SumOf(Weights(rows), K)
  BY DEF Weigh, SumOf
<1>4. ASSUME NEW K \in SUBSET DOMAIN rows
      PROVE  /\ IsFiniteSet(K)
             /\ \A x \in K : Weights(rows)[x] \in Nat \ {0}
             /\ K # {} => Weigh(rows, K) > 0
             /\ K = {} => Weigh(rows, K) = 0
  <2>1. IsFiniteSet(K) /\ \A x \in K : Weights(rows)[x] \in Nat \ {0}
    BY <1>1, <1>2, FS_Subset
  <2> QED BY <1>3, <2>1, SumPositive
<1>5. ASSUME NEW K \in SUBSET DOMAIN rows, NEW T \in SUBSET K
      PROVE  /\ Weigh(rows, K) \in Nat /\ Weigh(rows, T) \in Nat /\ Weigh(rows, K \ T) \in Nat
             /\ Weigh(rows, T) <= Weigh(rows, K)
             /\ Weigh(rows, K) = Weigh(rows, T) + Weigh(rows, K \ T)
  <2>1. /\ IsFiniteSet(K)
        /\ \A x \in K : Weights(rows)[x] \in Nat \ {0}
        /\ \A x \in K : Weights(rows)[x] \in Int
    <3>1. IsFiniteSet(K) /\ \A x \in K : Weights(rows)[x] \in Nat \ {0}
      BY <1>4
    <3> QED BY <3>1
  <2>2. SumOf(Weights(rows), K) = SumOf(Weights(rows), T) + SumOf(Weights(rows), K \ T)
    BY <2>1, SumParts
  <2>3. \A U \in SUBSET K : /\ SumOf(Weights(rows), U) \in Nat /\ SumOf(Weights(rows), K) \in Nat
                            /\ SumOf(Weights(rows), U) <= SumOf(Weights(rows), K)
    BY <2>1, SumGrows
  <2>4. K \ T \in SUBSET K
    OBVIOUS
  <2> QED BY <1>3, <2>2, <2>3, <2>4
<1> QED BY <1>1, <1>2, <1>3, <1>4, <1>5

LEMMA SidedFacts ==
  ASSUME NEW rows \in Seq(Rows), metric \in {"damage", "ttk"}, NEW K \in SUBSET DOMAIN rows
  PROVE  /\ \A side : Sided(rows, K, side) \in SUBSET K /\ IsFiniteSet(Sided(rows, K, side))
         /\ \A side : /\ MassOf(rows, K, side) \in Nat
                      /\ Sided(rows, K, side) # {} => MassOf(rows, K, side) > 0
                      /\ Sided(rows, K, side) = {} => MassOf(rows, K, side) = 0
                      /\ Count(rows, K, side) \in Nat
                      /\ Count(rows, K, side) = 0 <=> Sided(rows, K, side) = {}
         /\ MassOf(rows, K, "a") + MassOf(rows, K, "b") <= Weigh(rows, K)
<1>1. \A side : Sided(rows, K, side) \in SUBSET K
  BY DEF Sided
<1>2. ASSUME NEW side
      PROVE  /\ IsFiniteSet(Sided(rows, K, side))
             /\ MassOf(rows, K, side) \in Nat
             /\ Sided(rows, K, side) # {} => MassOf(rows, K, side) > 0
             /\ Sided(rows, K, side) = {} => MassOf(rows, K, side) = 0
  <2>1. Sided(rows, K, side) \in SUBSET DOMAIN rows
    BY <1>1
  <2> QED BY <1>1, <2>1, MassFacts DEF MassOf
<1>3. \A side : Count(rows, K, side) \in Nat /\ (Count(rows, K, side) = 0 <=> Sided(rows, K, side) = {})
  BY <1>2, FS_CardinalityType, FS_EmptySet DEF Count
<1>4. MassOf(rows, K, "a") + MassOf(rows, K, "b") <= Weigh(rows, K)
  <2> DEFINE A == Sided(rows, K, "a")
             B == Sided(rows, K, "b")
  <2>1. A \in SUBSET K /\ B \in SUBSET (K \ A) /\ K \ A \in SUBSET DOMAIN rows
    BY <1>1 DEF Sided
  <2>2. /\ Weigh(rows, K) = Weigh(rows, A) + Weigh(rows, K \ A)
        /\ Weigh(rows, K) \in Nat /\ Weigh(rows, A) \in Nat /\ Weigh(rows, K \ A) \in Nat
    <3> HIDE DEF A, B
    <3> QED BY <2>1, MassFacts
  <2>3. Weigh(rows, B) \in Nat /\ Weigh(rows, B) <= Weigh(rows, K \ A)
    <3> HIDE DEF A, B
    <3> QED BY <2>1, MassFacts
  <2>4. MassOf(rows, K, "a") = Weigh(rows, A) /\ MassOf(rows, K, "b") = Weigh(rows, B)
    BY DEF MassOf
  <2> HIDE DEF A, B
  <2> QED BY <2>2, <2>3, <2>4
<1> QED BY <1>1, <1>2, <1>3, <1>4

(* The headline by the masses of its sides. *)
LEMMA HeadlineOf ==
  ASSUME NEW rows \in Seq(Rows), metric \in {"damage", "ttk"}, NEW K \in SUBSET DOMAIN rows
  PROVE  /\ Headline(rows, K) = "a" <=> MassOf(rows, K, "a") > MassOf(rows, K, "b")
         /\ Headline(rows, K) = "b" <=> MassOf(rows, K, "b") > MassOf(rows, K, "a")
         /\ Headline(rows, K) = "tie" <=> MassOf(rows, K, "b") = MassOf(rows, K, "a")
         /\ Headline(rows, K) \in {"a", "b", "tie"}
<1>1. MassOf(rows, K, "a") \in Nat /\ MassOf(rows, K, "b") \in Nat
  BY SidedFacts
<1> QED BY <1>1 DEF Headline

(* The builds change sides. *)
LEMMA SwapSides ==
  ASSUME NEW rows \in Seq(Rows), metric \in {"damage", "ttk"}
  PROVE  LET all == DOMAIN rows
         IN  /\ DOMAIN Swapped(rows) = all
             /\ Sided(Swapped(rows), all, "a") = Sided(rows, all, "b")
             /\ Sided(Swapped(rows), all, "b") = Sided(rows, all, "a")
             /\ Sided(Swapped(rows), all, "tie") = Sided(rows, all, "tie")
             /\ Sided(Swapped(rows), all, "censored") = Sided(rows, all, "censored")
             /\ Headline(Swapped(rows), all) = Mirror(Headline(rows, all))
             /\ Verdict(Swapped(rows)) = Mirror(Verdict(rows))
<1> DEFINE all == DOMAIN rows
           s == Swapped(rows)
<1>1. DOMAIN s = all /\ \A k \in all : s[k].a = rows[k].b /\ s[k].b = rows[k].a /\ s[k].target = rows[k].target
  BY DEF Swapped
<1>2. \A k \in all : Outcome(s[k]) = Mirror(Outcome(rows[k])) /\ Outcome(rows[k]) \in Sides
  <2>1. \A k \in all : rows[k] \in Rows
    BY MassFacts
  <2>2. \A k \in all : Outcome(s[k]) = Compare(rows[k].b, rows[k].a, metric)
    BY <1>1 DEF Outcome
  <2> HIDE DEF s, all
  <2> QED BY <2>1, <2>2, RowFacts
<1>3. \A k \in all : /\ Outcome(s[k]) = "a" <=> Outcome(rows[k]) = "b"
                     /\ Outcome(s[k]) = "b" <=> Outcome(rows[k]) = "a"
                     /\ Outcome(s[k]) = "tie" <=> Outcome(rows[k]) = "tie"
                     /\ Outcome(s[k]) = "censored" <=> Outcome(rows[k]) = "censored"
  <2> HIDE DEF s, all
  <2> QED BY <1>2 DEF Mirror, Sides
<1> HIDE DEF s, all
<1>4. /\ Sided(s, all, "a") = Sided(rows, all, "b")
      /\ Sided(s, all, "b") = Sided(rows, all, "a")
      /\ Sided(s, all, "tie") = Sided(rows, all, "tie")
      /\ Sided(s, all, "censored") = Sided(rows, all, "censored")
  BY <1>3 DEF Sided
<1>5. Weights(s) = Weights(rows)
  BY <1>1 DEF Weights, all
<1>6. MassOf(s, all, "a") = MassOf(rows, all, "b") /\ MassOf(s, all, "b") = MassOf(rows, all, "a")
  BY <1>4, <1>5 DEF MassOf, Weigh
<1>7. Headline(s, all) = Mirror(Headline(rows, all))
  <2>1. MassOf(rows, all, "a") \in Nat /\ MassOf(rows, all, "b") \in Nat
    BY SidedFacts DEF all
  <2> QED BY <1>6, <2>1 DEF Headline, Mirror
<1>8. s # <<>> <=> rows # <<>>
  <2>1. Len(rows) \in Nat /\ DOMAIN rows = 1..Len(rows) /\ rows \in Seq(Rows)
    BY LenProperties
  <2>2. \E n \in Nat : s = [k \in 1..n |-> s[k]] /\ 1..n = DOMAIN rows
    BY <2>1 DEF s, Swapped
  <2>3. rows = <<>> <=> DOMAIN rows = {}
    <3>1. rows = <<>> <=> Len(rows) = 0
      BY <2>1, EmptySeq
    <3>2. CASE Len(rows) = 0
      <4>1. 1..Len(rows) = {}
        BY <3>2
      <4> QED BY <2>1, <3>1, <3>2, <4>1
    <3>3. CASE Len(rows) # 0
      <4>1. 1 \in 1..Len(rows)
        BY <2>1, <3>3
      <4> QED BY <2>1, <3>1, <3>3, <4>1
    <3> QED BY <3>2, <3>3
  <2>4. s = <<>> <=> DOMAIN s = {}
    BY <2>2, <1>1
  <2> QED BY <1>1, <2>3, <2>4 DEF all
<1>9. Headline(rows, all) \in {"a", "b", "tie"}
  BY HeadlineOf DEF all
<1>10. Verdict(s) = Mirror(Verdict(rows))
  <2>1. (\A k \in all : s[k].a.killed /\ s[k].b.killed) <=> (\A k \in all : rows[k].a.killed /\ rows[k].b.killed)
    BY <1>1
  <2>2. DOMAIN s = all /\ DOMAIN rows = all
    BY <1>1 DEF all
  <2> DEFINE none == metric = "ttk" /\ rows # <<>> /\ Sided(rows, all, "censored") = all
             every == /\ metric = "damage" /\ rows # <<>>
                      /\ \A k \in all : rows[k].a.killed /\ rows[k].b.killed
                      /\ Sided(rows, all, "tie") = all
  <2>3. Verdict(rows) = CASE none -> "no-kills" [] every -> "all-killed" [] OTHER -> Headline(rows, all)
    BY <2>2 DEF Verdict
  <2>4. Verdict(s) = CASE none -> "no-kills" [] every -> "all-killed" [] OTHER -> Headline(s, all)
    BY <1>4, <1>8, <2>1, <2>2 DEF Verdict
  <2>5. none => ~every
    OBVIOUS
  <2> HIDE DEF none, every
  <2>6. CASE none
    BY <2>3, <2>4, <2>5, <2>6 DEF Mirror
  <2>7. CASE ~none /\ every
    BY <2>3, <2>4, <2>7 DEF Mirror
  <2>8. CASE ~none /\ ~every
    BY <1>7, <2>3, <2>4, <2>8
  <2> QED BY <2>6, <2>7, <2>8
<1> QED BY <1>1, <1>4, <1>7, <1>10 DEF s, all

(* A reason why there is no verdict is given only if no build leads.        *)
LEMMA VerdictOrTie ==
  ASSUME NEW rows \in Seq(Rows), metric \in {"damage", "ttk"}
  PROVE  Verdict(rows) # Headline(rows, DOMAIN rows) => Headline(rows, DOMAIN rows) = "tie"
<1> DEFINE all == DOMAIN rows
<1> SUFFICES ASSUME Verdict(rows) # Headline(rows, all) PROVE Headline(rows, all) = "tie"
  OBVIOUS
<1>1. Sided(rows, all, "censored") = all \/ Sided(rows, all, "tie") = all
  BY DEF Verdict
<1>2. Sided(rows, all, "a") = {} /\ Sided(rows, all, "b") = {}
  BY <1>1 DEF Sided
<1>3. MassOf(rows, all, "a") = 0 /\ MassOf(rows, all, "b") = 0
  BY <1>2, SidedFacts
<1> QED BY <1>3, HeadlineOf

(* A part of the rows that is all of one opinion.                           *)
LEMMA OneOpinion ==
  ASSUME NEW rows \in Seq(Rows), metric \in {"damage", "ttk"}, NEW side \in {"a", "b"},
         Sided(rows, DOMAIN rows, side) = DOMAIN rows, NEW K \in SUBSET DOMAIN rows, K # {}
  PROVE  Headline(rows, K) = side
<1> DEFINE other == IF side = "a" THEN "b" ELSE "a"
<1>1. Sided(rows, K, side) # {} /\ Sided(rows, K, other) = {}
  BY DEF Sided
<1>2. MassOf(rows, K, side) > 0 /\ MassOf(rows, K, other) = 0
  BY <1>1, SidedFacts
<1> QED BY <1>2, HeadlineOf

-----------------------------------------------------------------------------
(* The slices add up. *)
OfChampions(rows, C) == {k \in DOMAIN rows : rows[k].target.champion \in C}

LEMMA SlicesAddUp ==
  ASSUME NEW rows \in Seq(Rows), metric \in {"damage", "ttk"}, NEW x \in {"a", "b"}, NEW y \in {"a", "b"},
         \A c \in ChampionsOf(rows) :
           MassOf(rows, OfChampion(rows, c), x) >= MassOf(rows, OfChampion(rows, c), y),
         \E c \in ChampionsOf(rows) :
           MassOf(rows, OfChampion(rows, c), x) > MassOf(rows, OfChampion(rows, c), y)
  PROVE  MassOf(rows, DOMAIN rows, x) > MassOf(rows, DOMAIN rows, y)
<1> DEFINE S == ChampionsOf(rows)
           mass(C, z) == MassOf(rows, OfChampions(rows, C), z)
           part(c, z) == MassOf(rows, OfChampion(rows, c), z)
           Good == {C \in SUBSET S : mass(C, x) >= mass(C, y)
                                     /\ ((\E c \in C : part(c, x) > part(c, y)) => mass(C, x) > mass(C, y))}
<1>0. IsFiniteSet(S)
  <2>1. S = {rows[k].target.champion : k \in DOMAIN rows} /\ IsFiniteSet(DOMAIN rows)
    BY MassFacts DEF ChampionsOf
  <2> DEFINE f == [k \in DOMAIN rows |-> rows[k].target.champion]
  <2>2. f \in Surjection(DOMAIN rows, S)
    BY <2>1 DEF Surjection
  <2> HIDE DEF f, S
  <2> QED BY <2>1, <2>2, FS_Surjection DEF ExistsSurjection
<1>1. \A C : OfChampions(rows, C) \in SUBSET DOMAIN rows
  BY DEF OfChampions
<1>2. \A c : OfChampion(rows, c) \in SUBSET DOMAIN rows
  BY DEF OfChampion
<1>3. {} \in Good
  <2>1. \A z : mass({}, z) = 0
    <3>1. OfChampions(rows, {}) = {}
      BY DEF OfChampions
    <3>2. \A z : Sided(rows, {}, z) = {}
      BY DEF Sided
    <3> QED BY <3>1, <3>2, SidedFacts
  <2>2. mass({}, x) >= mass({}, y)
    BY <2>1
  <2> HIDE DEF mass, part
  <2> QED BY <2>2
<1>4. ASSUME NEW C \in SUBSET S, NEW c \in S \ C, NEW z \in {"a", "b"}
      PROVE  /\ mass(C \cup {c}, z) = mass(C, z) + part(c, z)
             /\ mass(C, z) \in Nat /\ part(c, z) \in Nat
  <2> DEFINE K == Sided(rows, OfChampions(rows, C \cup {c}), z)
             T == Sided(rows, OfChampions(rows, C), z)
             P == Sided(rows, OfChampion(rows, c), z)
  <2>1. K \in SUBSET DOMAIN rows /\ T \in SUBSET K /\ K \ T = P
    BY DEF Sided, OfChampions, OfChampion
  <2>2. Weigh(rows, K) = Weigh(rows, T) + Weigh(rows, P) /\ Weigh(rows, T) \in Nat /\ Weigh(rows, P) \in Nat
    <3> HIDE DEF K, T, P
    <3> QED BY <2>1, MassFacts
  <2> QED BY <2>2 DEF MassOf
<1>5. ASSUME NEW C \in SUBSET S, NEW c \in S \ C, C \in Good PROVE C \cup {c} \in Good
  <2>1. /\ mass(C \cup {c}, x) = mass(C, x) + part(c, x)
        /\ mass(C \cup {c}, y) = mass(C, y) + part(c, y)
        /\ mass(C, x) \in Nat /\ part(c, x) \in Nat /\ mass(C, y) \in Nat /\ part(c, y) \in Nat
    <3> HIDE DEF mass, part, Good, S
    <3> QED BY <1>4
  <2>2. part(c, x) >= part(c, y)
    OBVIOUS
  <2>3. /\ mass(C, x) >= mass(C, y)
        /\ (\E d \in C : part(d, x) > part(d, y)) => mass(C, x) > mass(C, y)
    <3> HIDE DEF mass, part
    <3> QED BY <1>5
  <2> HIDE DEF mass, part, S
  <2>4. mass(C \cup {c}, x) >= mass(C \cup {c}, y)
    BY <2>1, <2>2, <2>3
  <2>5. ASSUME NEW d \in C \cup {c}, part(d, x) > part(d, y)
        PROVE  mass(C \cup {c}, x) > mass(C \cup {c}, y)
    <3>1. CASE d = c
      BY <2>1, <2>3, <2>5, <3>1
    <3>2. CASE d \in C
      BY <2>1, <2>2, <2>3, <2>5, <3>2
    <3> QED BY <3>1, <3>2
  <2>6. C \cup {c} \in SUBSET S
    OBVIOUS
  <2> QED BY <2>4, <2>5, <2>6
<1>6. S \in Good
  <2> HIDE DEF Good, S, mass, part
  <2> QED BY <1>0, <1>3, <1>5, ByElements
<1>7. OfChampions(rows, S) = DOMAIN rows
  BY DEF OfChampions, ChampionsOf
<1>8. \E c \in S : part(c, x) > part(c, y)
  OBVIOUS
<1>9. mass(S, x) > mass(S, y)
  <2> HIDE DEF mass, part, S
  <2> QED BY <1>6, <1>8
<1> QED BY <1>7, <1>9

LEMMA TierMeans ==
  ASSUME NEW rows \in Seq(Rows), metric \in {"damage", "ttk"}, NEW K \in SUBSET DOMAIN rows
  PROVE  /\ Tier(rows, K) = "settled" => MassOf(rows, K, "a") > MassOf(rows, K, "b")
         /\ Tier(rows, K) = "close" => MassOf(rows, K, "a") >= MassOf(rows, K, "b")
         /\ Tier(rows, K) = "flips" => MassOf(rows, K, "b") > MassOf(rows, K, "a")
         /\ Tier(rows, K) = "undecided" => MassOf(rows, K, "a") = 0 /\ MassOf(rows, K, "b") = 0
<1> DEFINE A == MassOf(rows, K, "a")
           B == MassOf(rows, K, "b")
           n == Count(rows, K, "a")
           m == Count(rows, K, "b")
<1>1. /\ A \in Nat /\ B \in Nat /\ n \in Nat /\ m \in Nat
      /\ n = 0 <=> A = 0
      /\ m = 0 <=> B = 0
  <2>1. ASSUME NEW side
        PROVE  /\ MassOf(rows, K, side) \in Nat
               /\ Count(rows, K, side) \in Nat
               /\ Count(rows, K, side) = 0 <=> MassOf(rows, K, side) = 0
    <3>1. /\ MassOf(rows, K, side) \in Nat
          /\ Count(rows, K, side) \in Nat
          /\ Sided(rows, K, side) # {} => MassOf(rows, K, side) > 0
          /\ Sided(rows, K, side) = {} => MassOf(rows, K, side) = 0
      BY SidedFacts
    <3>2. Count(rows, K, side) = 0 <=> Sided(rows, K, side) = {}
      BY SidedFacts
    <3> QED BY <3>1, <3>2
  <2> QED BY <2>1
<1>2. Tier(rows, K) = IF n + m = 0 THEN "undecided"
                      ELSE IF 2 * A < A + B THEN "flips"
                      ELSE IF 4 * A < 3 * (A + B) THEN "close"
                      ELSE "settled"
  BY DEF Tier, WinRate
<1> HIDE DEF A, B, n, m
<1>3. CASE n + m = 0
  <2>1. n = 0 /\ m = 0
    BY <1>1, <1>3
  <2>2. A = 0 /\ B = 0
    BY <1>1, <2>1
  <2>3. Tier(rows, K) = "undecided"
    BY <1>1, <1>2, <1>3, <2>2
  <2> QED BY <2>2, <2>3 DEF A, B
<1>4. CASE n + m # 0
  <2>1. A + B > 0
    BY <1>1, <1>4
  <2>2. CASE 2 * A < A + B
    <3>1. Tier(rows, K) = "flips"
      BY <1>2, <1>4, <2>2
    <3>2. B > A
      BY <1>1, <2>2
    <3> QED BY <3>1, <3>2 DEF A, B
  <2>3. CASE ~(2 * A < A + B) /\ 4 * A < 3 * (A + B)
    BY <1>1, <1>2, <1>4, <2>3 DEF A, B
  <2>4. CASE ~(2 * A < A + B) /\ ~(4 * A < 3 * (A + B))
    BY <1>1, <1>2, <1>4, <2>1, <2>4 DEF A, B
  <2> QED BY <2>2, <2>3, <2>4
<1> QED BY <1>3, <1>4

LEMMA SlicesCarryHeadline ==
  ASSUME NEW rows \in Seq(Rows), metric \in {"damage", "ttk"},
         \A c \in ChampionsOf(rows) : c \in Slices(rows)
  PROVE  LET tiers == {Tier(rows, OfChampion(rows, c)) : c \in Slices(rows)}
         IN  /\ "settled" \in tiers /\ tiers \subseteq {"settled", "close", "undecided"}
                  => Headline(rows, DOMAIN rows) = "a"
             /\ "flips" \in tiers /\ tiers \subseteq {"flips", "undecided"}
                  => Headline(rows, DOMAIN rows) = "b"
<1> DEFINE tiers == {Tier(rows, OfChampion(rows, c)) : c \in Slices(rows)}
           S == ChampionsOf(rows)
           A(c) == MassOf(rows, OfChampion(rows, c), "a")
           B(c) == MassOf(rows, OfChampion(rows, c), "b")
<1>1. S = Slices(rows)
  BY DEF Slices
<1>2. \A c : /\ Tier(rows, OfChampion(rows, c)) = "settled" => A(c) > B(c)
             /\ Tier(rows, OfChampion(rows, c)) = "close" => A(c) >= B(c)
             /\ Tier(rows, OfChampion(rows, c)) = "flips" => B(c) > A(c)
             /\ Tier(rows, OfChampion(rows, c)) = "undecided" => A(c) = 0 /\ B(c) = 0
             /\ A(c) \in Nat /\ B(c) \in Nat
  <2>1. \A c : OfChampion(rows, c) \in SUBSET DOMAIN rows
    BY DEF OfChampion
  <2> QED BY <2>1, TierMeans, SidedFacts
<1>3. ASSUME "settled" \in tiers, tiers \subseteq {"settled", "close", "undecided"}
      PROVE  Headline(rows, DOMAIN rows) = "a"
  <2>1. \A c \in S : Tier(rows, OfChampion(rows, c)) \in {"settled", "close", "undecided"}
    BY <1>1, <1>3
  <2>2. PICK d \in S : Tier(rows, OfChampion(rows, d)) = "settled"
    BY <1>1, <1>3
  <2>3. (\A c \in S : A(c) >= B(c)) /\ A(d) > B(d)
    <3> HIDE DEF A, B, S, tiers
    <3> QED BY <1>2, <2>1, <2>2
  <2>4. MassOf(rows, DOMAIN rows, "a") > MassOf(rows, DOMAIN rows, "b")
    BY <2>2, <2>3, SlicesAddUp
  <2> QED BY <2>4, HeadlineOf
<1>4. ASSUME "flips" \in tiers, tiers \subseteq {"flips", "undecided"}
      PROVE  Headline(rows, DOMAIN rows) = "b"
  <2>1. \A c \in S : Tier(rows, OfChampion(rows, c)) \in {"flips", "undecided"}
    BY <1>1, <1>4
  <2>2. PICK d \in S : Tier(rows, OfChampion(rows, d)) = "flips"
    BY <1>1, <1>4
  <2>3. (\A c \in S : B(c) >= A(c)) /\ B(d) > A(d)
    <3> HIDE DEF A, B, S, tiers
    <3> QED BY <1>2, <2>1, <2>2
  <2>4. MassOf(rows, DOMAIN rows, "b") > MassOf(rows, DOMAIN rows, "a")
    BY <2>2, <2>3, SlicesAddUp
  <2> QED BY <2>4, HeadlineOf
<1> QED BY <1>3, <1>4

-----------------------------------------------------------------------------
(* The median: fractions of positive denominators are ordered.              *)
LEMMA Cancels ==
  ASSUME NEW a \in Int, NEW b \in Int, NEW c \in Int, c > 0
  PROVE  a * c <= b * c <=> a <= b
<1>1. CASE a <= b
  <2>1. (b - a) * c >= 0
    BY <1>1
  <2>2. (b - a) * c = b * c - a * c
    OBVIOUS
  <2> QED BY <1>1, <2>1, <2>2
<1>2. CASE a > b
  <2>1. (a - b) * c > 0
    BY <1>2
  <2>2. (a - b) * c = a * c - b * c
    OBVIOUS
  <2> QED BY <1>2, <2>1, <2>2
<1> QED BY <1>1, <1>2

Fractions == {q \in Int \X Int : q[2] > 0}

LEMMA FractionsOrdered ==
  ASSUME NEW x \in Fractions, NEW y \in Fractions, NEW z \in Fractions
  PROVE  /\ AtMost(x, y) \/ AtMost(y, x)
         /\ AtMost(x, y) /\ AtMost(y, z) => AtMost(x, z)
         /\ AtMost(x, y) /\ y[1] < 0 => x[1] < 0
         /\ AtMost(x, y) /\ y[1] <= 0 => x[1] <= 0
<1>1. PICK a \in Int, b \in Int : x = <<a, b>> /\ b > 0
  BY DEF Fractions
<1>2. PICK c \in Int, d \in Int : y = <<c, d>> /\ d > 0
  BY DEF Fractions
<1>3. PICK e \in Int, f \in Int : z = <<e, f>> /\ f > 0
  BY DEF Fractions
<1>4. /\ AtMost(x, y) <=> a * d <= c * b
      /\ AtMost(y, x) <=> c * b <= a * d
      /\ AtMost(y, z) <=> c * f <= e * d
      /\ AtMost(x, z) <=> a * f <= e * b
  BY <1>1, <1>2, <1>3 DEF AtMost
<1>5. a * d \in Int /\ c * b \in Int /\ c * f \in Int /\ e * d \in Int /\ a * f \in Int /\ e * b \in Int
  OBVIOUS
<1>6. AtMost(x, y) \/ AtMost(y, x)
  BY <1>4, <1>5
<1>7. ASSUME a * d <= c * b, c * f <= e * d PROVE a * f <= e * b
  <2>1. (a * d) * f <= (c * b) * f
    BY <1>3, <1>5, <1>7, Cancels
  <2>2. (c * f) * b <= (e * d) * b
    BY <1>1, <1>5, <1>7, Cancels
  <2>3. (a * d) * f = (a * f) * d /\ (c * b) * f = (c * f) * b /\ (e * d) * b = (e * b) * d
    OBVIOUS
  <2>4. (a * f) * d \in Int /\ (e * b) * d \in Int /\ (c * f) * b \in Int
    OBVIOUS
  <2>5. (a * f) * d <= (e * b) * d
    BY <2>1, <2>2, <2>3, <2>4
  <2> QED BY <1>2, <1>5, <2>5, Cancels
<1>8. ASSUME a * d <= c * b, c <= 0 PROVE a <= 0 /\ (c < 0 => a < 0)
  <2>1. c * b <= 0 * b
    BY <1>1, <1>8, Cancels
  <2>2. 0 * b = 0 /\ 0 * d = 0
    OBVIOUS
  <2>3. a * d <= 0 * d
    BY <1>5, <1>8, <2>1, <2>2
  <2>4. a <= 0
    BY <1>2, <2>3, Cancels
  <2>5. ASSUME c < 0, a = 0 PROVE FALSE
    <3>1. 0 * b <= c * b
      BY <1>5, <1>8, <2>2, <2>5
    <3> QED BY <1>1, <2>5, <3>1, Cancels
  <2> QED BY <2>4, <2>5
<1> QED BY <1>1, <1>2, <1>4, <1>6, <1>7, <1>8

(* Of applied damage there is always a difference; its sign says who won,  *)
(* unless it is outweighed by a kill, which nobody wins with less.         *)
LEMMA DamageDelta ==
  ASSUME NEW r \in Rows, metric = "damage"
  PROVE  /\ HasDelta(r, metric)
         /\ Delta(r, metric) \in Fractions
         /\ Delta(r, metric)[1] < 0 => Outcome(r) = "b"
         /\ Delta(r, metric)[1] > 0 => Outcome(r) = "a"
<1>1. /\ \A x \in {r.a, r.b} : x.killed \in BOOLEAN /\ x.damage \in Nat /\ x.ttk \in Nat
      /\ r.a.damage = 0 <=> r.b.damage = 0
      /\ r.a.killed => r.a.damage >= r.b.damage
      /\ r.b.killed => r.b.damage >= r.a.damage
  BY RowFacts
<1>2. HasDelta(r, metric)
  BY <1>1 DEF HasDelta
<1>3. CASE r.b.damage = 0
  <2>1. Delta(r, metric) = <<0, 1>>
    BY <1>3 DEF Delta
  <2> QED BY <1>2, <2>1 DEF Fractions
<1>4. CASE r.b.damage # 0
  <2>1. Delta(r, metric) = <<r.a.damage - r.b.damage, r.b.damage>>
    BY <1>4 DEF Delta
  <2>2. /\ r.a.damage \in Nat /\ r.b.damage \in Nat
        /\ r.a.killed \in BOOLEAN /\ r.b.killed \in BOOLEAN
    BY <1>1
  <2>3. Delta(r, metric) \in Fractions
    BY <1>4, <2>1, <2>2 DEF Fractions
  <2>4. r.a.damage < r.b.damage => Outcome(r) = "b"
    BY <1>1, <2>2 DEF Outcome, Compare
  <2>5. r.a.damage > r.b.damage => Outcome(r) = "a"
    BY <1>1, <2>2 DEF Outcome, Compare
  <2>6. Delta(r, metric)[1] = r.a.damage - r.b.damage
    BY <2>1
  <2> QED BY <1>2, <2>2, <2>3, <2>4, <2>5, <2>6
<1> QED BY <1>3, <1>4

LEMMA MedianSides ==
  ASSUME NEW rows \in Seq(Rows), metric = "damage"
  PROVE  /\ Headline(rows, DOMAIN rows) = "a" => Median(rows)[1] >= 0
         /\ Headline(rows, DOMAIN rows) = "b" => Median(rows)[1] <= 0
<1> DEFINE all == DOMAIN rows
           D(k) == Delta(rows[k], metric)
           upTo(k) == {j \in all : AtMost(D(j), D(k))}
           half == {k \in all : 2 * Weigh(rows, upTo(k)) >= Weigh(rows, all)}
           A == MassOf(rows, all, "a")
           B == MassOf(rows, all, "b")
<1>0. IsFiniteSet(all) /\ metric \in {"damage", "ttk"}
  BY MassFacts
<1>1. \A k \in all : /\ HasDelta(rows[k], metric) /\ D(k) \in Fractions
                     /\ D(k)[1] < 0 => Outcome(rows[k]) = "b"
                     /\ D(k)[1] > 0 => Outcome(rows[k]) = "a"
  <2>1. \A k \in all : rows[k] \in Rows
    BY MassFacts
  <2> QED BY <2>1, DamageDelta
<1>2. {k \in all : HasDelta(rows[k], metric)} = all
  BY <1>1
<1>3. Median(rows) = IF all = {} THEN <<0, 1>>
                     ELSE D(CHOOSE k \in half : \A j \in half : AtMost(D(k), D(j)))
  <2> DEFINE halfOf(K) == {k \in K : 2 * Weigh(rows, {j \in K : AtMost(D(j), D(k))}) >= Weigh(rows, K)}
             medianOf(K) == IF K = {} THEN <<0, 1>>
                            ELSE D(CHOOSE k \in halfOf(K) : \A j \in halfOf(K) : AtMost(D(k), D(j)))
  <2>1. Median(rows) = medianOf({k \in all : HasDelta(rows[k], metric)})
    BY DEF Median
  <2>2. medianOf(all) = IF all = {} THEN <<0, 1>>
                        ELSE D(CHOOSE k \in half : \A j \in half : AtMost(D(k), D(j)))
    OBVIOUS
  <2> HIDE DEF medianOf, half, all
  <2> QED BY <1>2, <2>1, <2>2
<1> HIDE DEF D
<1>4. \A x, y, z \in all : /\ AtMost(D(x), D(y)) \/ AtMost(D(y), D(x))
                           /\ AtMost(D(x), D(y)) /\ AtMost(D(y), D(z)) => AtMost(D(x), D(z))
                           /\ AtMost(D(x), D(y)) /\ D(y)[1] < 0 => D(x)[1] < 0
                           /\ AtMost(D(x), D(y)) /\ D(y)[1] <= 0 => D(x)[1] <= 0
  BY <1>1, FractionsOrdered
<1>5. /\ A \in Nat /\ B \in Nat /\ A + B <= Weigh(rows, all)
      /\ \A K \in SUBSET all :
           /\ Weigh(rows, K) \in Nat /\ Weigh(rows, all \ K) \in Nat /\ Weigh(rows, all) \in Nat
           /\ Weigh(rows, all) = Weigh(rows, K) + Weigh(rows, all \ K)
           /\ K = {} => Weigh(rows, K) = 0
  BY ZenonT(30), <1>0, MassFacts, SidedFacts
<1>6. ASSUME NEW S \in SUBSET all, S # {}
      PROVE  /\ \E m \in S : \A x \in S : AtMost(D(m), D(x))
             /\ \E m \in S : \A x \in S : AtMost(D(x), D(m))
  <2> DEFINE up == {p \in all \X all : AtMost(D(p[1]), D(p[2]))}
             down == {p \in all \X all : AtMost(D(p[2]), D(p[1]))}
  <2>1. \A x, y \in all : /\ <<x, y>> \in up <=> AtMost(D(x), D(y))
                          /\ <<x, y>> \in down <=> AtMost(D(y), D(x))
    OBVIOUS
  <2>2. IsFiniteSet(S)
    BY <1>0, FS_Subset
  <2> HIDE DEF up, down
  <2>3. \E m \in S : \A x \in S : <<m, x>> \in up
    <3>1. /\ \A x, y \in S : <<x, y>> \in up \/ <<y, x>> \in up
          /\ \A x, y, z \in S : <<x, y>> \in up /\ <<y, z>> \in up => <<x, z>> \in up
      BY <1>4, <2>1
    <3> QED BY <1>6, <2>2, <3>1, LeastOf
  <2>4. \E m \in S : \A x \in S : <<m, x>> \in down
    <3>1. /\ \A x, y \in S : <<x, y>> \in down \/ <<y, x>> \in down
          /\ \A x, y, z \in S : <<x, y>> \in down /\ <<y, z>> \in down => <<x, z>> \in down
      BY <1>4, <2>1
    <3> QED BY <1>6, <2>2, <3>1, LeastOf
  <2> QED BY <2>1, <2>3, <2>4
<1>7. \A K \in SUBSET all : /\ (\A k \in K : Outcome(rows[k]) = "a") => Weigh(rows, K) <= A
                            /\ (\A k \in K : Outcome(rows[k]) = "b") => Weigh(rows, K) <= B
  <2>1. ASSUME NEW K \in SUBSET all, NEW side, \A k \in K : Outcome(rows[k]) = side
        PROVE  Weigh(rows, K) <= MassOf(rows, all, side)
    <3>1. K \in SUBSET Sided(rows, all, side) /\ Sided(rows, all, side) \in SUBSET all
      BY <2>1 DEF Sided
    <3> QED BY <1>0, <3>1, MassFacts DEF MassOf
  <2> QED BY <2>1
<1>8. all # {} => half # {}
  <2> SUFFICES ASSUME all # {} PROVE half # {}
    OBVIOUS
  <2>1. PICK m \in all : \A x \in all : AtMost(D(x), D(m))
    BY <1>6
  <2>2. upTo(m) = all
    BY <2>1
  <2>3. Weigh(rows, all) \in Nat
    BY <1>5
  <2>4. 2 * Weigh(rows, upTo(m)) >= Weigh(rows, all)
    BY <2>2, <2>3
  <2> QED BY <2>4
<1> DEFINE least == CHOOSE k \in half : \A j \in half : AtMost(D(k), D(j))
<1>9. all # {} => least \in half /\ \A j \in half : AtMost(D(least), D(j))
  <2>1. half \in SUBSET all
    OBVIOUS
  <2> HIDE DEF half
  <2> QED BY <1>6, <1>8, <2>1
<1>10. all = {} => Median(rows)[1] = 0
  BY <1>3
<1>11. all # {} => Median(rows) = D(least) /\ D(least) \in Fractions
  <2>1. all # {} => Median(rows) = D(least)
    BY <1>3
  <2>2. all # {} => least \in all
    <3> HIDE DEF least
    <3> QED BY <1>9
  <2> HIDE DEF least
  <2> QED BY <1>1, <2>1, <2>2
<1> HIDE DEF least
<1>12. ASSUME all # {}, A > B, D(least)[1] < 0 PROVE FALSE
  <2>1. least \in all /\ 2 * Weigh(rows, upTo(least)) >= Weigh(rows, all)
    BY <1>9, <1>12
  <2>2. upTo(least) \in SUBSET all /\ \A k \in upTo(least) : Outcome(rows[k]) = "b"
    BY <1>1, <1>4, <1>12, <2>1
  <2> HIDE DEF upTo
  <2>3. Weigh(rows, upTo(least)) <= B /\ Weigh(rows, upTo(least)) \in Nat /\ Weigh(rows, all) \in Nat
    BY <1>5, <1>7, <2>2
  <2> HIDE DEF A, B
  <2> QED BY <1>5, <1>12, <2>1, <2>3
<1>13. ASSUME all # {}, B > A, D(least)[1] > 0 PROVE FALSE
  <2> DEFINE L == {k \in all : D(k)[1] <= 0}
  <2>1. L \in SUBSET all /\ all \ L \in SUBSET all
    OBVIOUS
  <2>2. \A k \in all \ L : Outcome(rows[k]) = "a"
    <3>1. \A k \in all : D(k)[1] \in Int
      BY <1>1 DEF Fractions
    <3> QED BY <1>1, <3>1
  <2>3. L # {} /\ 2 * Weigh(rows, L) >= Weigh(rows, all)
    <3> HIDE DEF L
    <3>1. Weigh(rows, all \ L) <= A
      BY <1>7, <2>1, <2>2
    <3>2. /\ Weigh(rows, L) \in Nat /\ Weigh(rows, all \ L) \in Nat /\ Weigh(rows, all) \in Nat
          /\ Weigh(rows, all) = Weigh(rows, L) + Weigh(rows, all \ L)
          /\ L = {} => Weigh(rows, L) = 0
      BY <1>5, <2>1
    <3>3. A \in Nat /\ B \in Nat /\ A + B <= Weigh(rows, all)
      BY <1>5
    <3> HIDE DEF A, B
    <3> QED BY <1>13, <3>1, <3>2, <3>3
  <2>4. PICK l \in L : \A x \in L : AtMost(D(x), D(l))
    <3> HIDE DEF L
    <3> QED BY <1>6, <2>1, <2>3
  <2>5. l \in all /\ D(l)[1] <= 0
    OBVIOUS
  <2>6. l \in half
    <3>1. L \in SUBSET upTo(l) /\ upTo(l) \in SUBSET all
      BY <2>4
    <3>2. /\ Weigh(rows, L) <= Weigh(rows, upTo(l))
          /\ Weigh(rows, L) \in Nat /\ Weigh(rows, upTo(l)) \in Nat /\ Weigh(rows, all) \in Nat
      <4> HIDE DEF L, upTo
      <4> QED BY <1>0, <1>5, <2>1, <3>1, MassFacts
    <3>3. 2 * Weigh(rows, upTo(l)) >= Weigh(rows, all)
      <4> HIDE DEF L, upTo
      <4> QED BY <2>3, <3>2
    <3> QED BY <2>5, <3>3
  <2>7. AtMost(D(least), D(l)) /\ least \in all
    <3>1. \A j \in half : j \in all
      OBVIOUS
    <3> HIDE DEF half
    <3> QED BY <1>9, <1>13, <2>6, <3>1
  <2>8. D(least)[1] <= 0 /\ D(least)[1] \in Int
    <3>1. D(least)[1] <= 0
      BY <1>4, <2>5, <2>7
    <3>2. D(least)[1] \in Int
      BY <1>1, <2>7 DEF Fractions
    <3> QED BY <3>1, <3>2
  <2> QED BY <1>13, <2>8
<1>14. all # {} => D(least)[1] \in Int
  BY <1>11 DEF Fractions
<1>15. Headline(rows, all) = "a" => Median(rows)[1] >= 0
  <2>1. Headline(rows, all) = "a" => A > B
    BY <1>0, HeadlineOf
  <2> HIDE DEF A, B, half, upTo, all
  <2> QED BY <1>10, <1>11, <1>12, <1>14, <2>1
<1>16. Headline(rows, all) = "b" => Median(rows)[1] <= 0
  <2>1. Headline(rows, all) = "b" => B > A
    BY <1>0, HeadlineOf
  <2> HIDE DEF A, B, half, upTo, all
  <2> QED BY <1>10, <1>11, <1>13, <1>14, <2>1
<1> QED BY <1>15, <1>16

-----------------------------------------------------------------------------
LEMMA ComparedAgree ==
  ASSUME compared \in Seq(Rows), metric \in {"damage", "ttk"}
  PROVE  VerdictsAgree
<1> DEFINE rows == compared
           all == DOMAIN rows
<1>1. /\ Headline(Swapped(rows), all) = Mirror(Headline(rows, all))
      /\ Verdict(Swapped(rows)) = Mirror(Verdict(rows))
  BY SwapSides
<1>2. Verdict(rows) # Headline(rows, all) => Headline(rows, all) = "tie"
  BY VerdictOrTie
<1>3. \A side \in {"a", "b"} :
        Sided(rows, all, side) = all /\ Heavy(rows) # {} => Headline(rows, Heavy(rows)) = side
  <2>1. Heavy(rows) \in SUBSET all
    BY DEF Heavy
  <2> QED BY <2>1, OneOpinion
<1>4. metric = "damage" =>
        /\ Headline(rows, all) = "a" => Median(rows)[1] >= 0
        /\ Headline(rows, all) = "b" => Median(rows)[1] <= 0
  BY MedianSides
<1>5. LET covered == \A c \in ChampionsOf(rows) : c \in Slices(rows)
          tiers == {Tier(rows, OfChampion(rows, c)) : c \in Slices(rows)}
      IN  /\ covered /\ "settled" \in tiers /\ tiers \subseteq {"settled", "close", "undecided"}
               => Headline(rows, all) = "a"
          /\ covered /\ "flips" \in tiers /\ tiers \subseteq {"flips", "undecided"}
               => Headline(rows, all) = "b"
  BY SlicesCarryHeadline
<1> QED BY <1>1, <1>2, <1>3, <1>4, <1>5 DEF VerdictsAgree

(* VerdictsAgree, whatever was fought with how many targets.               *)
THEOREM AlwaysVerdictsAgree == ComparisonSpec => []VerdictsAgree
<1> DEFINE Inv == compared \in Seq(Rows) /\ metric \in {"damage", "ttk"}
<1>1. ComparisonInit => Inv
  BY EmptySeq DEF ComparisonInit
<1>2. Inv /\ [ComparisonNext]_<<metric, compared>> => Inv'
  <2> SUFFICES ASSUME Inv, [ComparisonNext]_<<metric, compared>> PROVE Inv'
    OBVIOUS
  <2>1. ASSUME NEW target \in Targets, NEW f \in Fought, CompareTarget(target, f) PROVE Inv'
    <3>1. [target |-> target, a |-> f.a, b |-> f.b] \in Rows
      BY DEF Rows
    <3>2. compared' \in Seq(Rows) /\ metric' = metric
      BY <2>1, <3>1, AppendProperties DEF CompareTarget
    <3>3. Rows' = Rows
      BY DEF Rows
    <3> QED BY <3>2
  <2>2. CASE UNCHANGED <<metric, compared>>
    BY <2>2
  <2> QED BY <2>1, <2>2 DEF ComparisonNext
<1>3. Inv => VerdictsAgree
  BY ComparedAgree
<1> QED BY <1>1, <1>2, <1>3, PTL DEF ComparisonSpec


-----------------------------------------------------------------------------
(* The fight: an engine as the proofs need it, and what its parts leave     *)
(* alone.                                                                   *)

FieldNames ==
  {"qUntil", "rUntil", "rExitHandled", "wReadyAt", "eReadyAt", "rReadyAt", "attacks",
   "targetHealth", "nextAttackReady", "yunTalStacks", "flurryUntil", "flurryReadyAt",
   "fiendhunterUntil", "fiendhunterReadyAt", "fiendhunterAttacks", "stormrazorStacks",
   "stormrazorLastEnergizeTime", "terminusNextMode", "lightStacks", "lightUntil",
   "darkStacks", "darkUntil", "pendingDamage", "events"}

Shape(e) ==
  /\ DOMAIN e = FieldNames
  /\ e.rUntil \in Int /\ e.wReadyAt \in Int /\ e.eReadyAt \in Int /\ e.rReadyAt \in Int
  /\ e.nextAttackReady \in Int /\ e.rExitHandled \in BOOLEAN
  /\ e.fiendhunterUntil \in Int /\ e.fiendhunterReadyAt \in Int /\ e.fiendhunterAttacks \in Int
  /\ e.pendingDamage \in Seq(Int)
  /\ e.events \in Seq({e.events[i] : i \in DOMAIN e.events})
  /\ \A i \in DOMAIN e.events : e.events[i].time \in Int /\ e.events[i].barrage \in BOOLEAN

(* The events, the pending ticks and the target are as they were. *)
SameDamage(e, f) ==
  /\ f.events = e.events /\ f.pendingDamage = e.pendingDamage /\ f.targetHealth = e.targetHealth
SameAbilities(e, f) ==
  /\ f.rUntil = e.rUntil /\ f.rExitHandled = e.rExitHandled
  /\ f.wReadyAt = e.wReadyAt /\ f.eReadyAt = e.eReadyAt /\ f.rReadyAt = e.rReadyAt
SameBarrage(e, f) ==
  /\ f.fiendhunterUntil = e.fiendhunterUntil /\ f.fiendhunterReadyAt = e.fiendhunterReadyAt
  /\ f.fiendhunterAttacks = e.fiendhunterAttacks
(* A barrage may have run out. *)
LessBarrage(e, f) ==
  /\ f.fiendhunterUntil = e.fiendhunterUntil /\ f.fiendhunterReadyAt = e.fiendhunterReadyAt
  /\ f.fiendhunterAttacks = e.fiendhunterAttacks \/ f.fiendhunterAttacks = 0

(* One event more. *)
Logged(e, f, time, source, barrage) ==
  /\ Len(f.events) = Len(e.events) + 1 /\ DOMAIN f.events = 1 .. Len(e.events) + 1
  /\ \A i \in DOMAIN e.events : f.events[i] = e.events[i]
  /\ LET new == f.events[Len(e.events) + 1]
     IN  new.time = time /\ new.source = source /\ new.barrage = barrage

LEMMA EventsGrow ==
  ASSUME NEW s, s \in Seq({s[i] : i \in DOMAIN s}), NEW x
  PROVE  LET t == Append(s, x)
         IN  /\ t \in Seq({t[i] : i \in DOMAIN t})
             /\ Len(s) \in Nat /\ DOMAIN s = 1 .. Len(s)
             /\ Len(t) = Len(s) + 1 /\ DOMAIN t = 1 .. Len(s) + 1
             /\ t[Len(s) + 1] = x /\ \A i \in DOMAIN s : t[i] = s[i]
<1> DEFINE S == {s[i] : i \in DOMAIN s} \cup {x}
           t == Append(s, x)
<1>1. s \in Seq(S)
  <2>1. Len(s) \in Nat /\ DOMAIN s = 1 .. Len(s) /\ s = [i \in 1 .. Len(s) |-> s[i]]
    OBVIOUS
  <2>2. \A i \in 1 .. Len(s) : s[i] \in S
    BY <2>1
  <2> HIDE DEF S
  <2> QED
    BY <2>1, <2>2, SeqDef
<1>2. x \in S
  OBVIOUS
<1>3. /\ t \in Seq(S) /\ Len(s) \in Nat /\ Len(t) = Len(s) + 1
      /\ DOMAIN t = 1 .. Len(s) + 1 /\ DOMAIN s = 1 .. Len(s)
      /\ t[Len(s) + 1] = x /\ \A i \in DOMAIN s : t[i] = s[i]
  <2> HIDE DEF S
  <2> QED
    BY <1>1, <1>2
<1>4. t \in Seq({t[i] : i \in DOMAIN t})
  <2> HIDE DEF S, t
  <2>1. t = [i \in 1 .. Len(s) + 1 |-> t[i]]
    <3>1. t \in [1 .. Len(t) -> S]
      BY <1>3, LenProperties
    <3> QED
      BY <3>1, <1>3
  <2>2. \A i \in 1 .. Len(s) + 1 : t[i] \in {t[j] : j \in DOMAIN t}
    BY <1>3
  <2> QED
    BY <1>3, <2>1, <2>2, SeqDef
<1> QED
  BY <1>3, <1>4

LEMMA UnitFacts ==
  /\ Second \in Nat /\ Grid \in Nat /\ Epsilon \in Nat
  /\ 1 <= Epsilon /\ Epsilon < Grid /\ Grid <= Second
  /\ \A d \in Rounding : d \in Nat /\ d < Epsilon
<1>1. Second \in Nat \ {0} /\ Grid \in Nat \ {0} /\ Second % Grid = 0 /\ Epsilon \in 1 .. Grid - 1
  BY UnitsAssumption
<1>2. Grid <= Second
  <2>1. CASE Second < Grid
    <3>1. Second % Grid = Second
      BY <1>1, <2>1
    <3> QED
      BY <1>1, <3>1
  <2> QED
    BY <1>1, <2>1
<1> QED
  BY <1>1, <1>2, UnitsAssumption

LEMMA SecondsFacts ==
  \A n \in Int : Seconds(n) \in Int /\ Seconds(n) = n * Second
BY UnitFacts DEF Seconds

LEMMA AddEffect ==
  ASSUME NEW e, Shape(e), NEW time \in Int, NEW source, NEW raw, NEW barrage \in BOOLEAN
  PROVE  LET f == Add(e, time, source, raw, barrage)
             refused == time > fight.duration \/ raw <= 0 \/ IsDead(e)
         IN  /\ Shape(f) /\ f.pendingDamage = e.pendingDamage
             /\ SameAbilities(e, f) /\ f.nextAttackReady = e.nextAttackReady
             /\ LessBarrage(e, f)
             /\ time <= e.fiendhunterUntil + Epsilon => SameBarrage(e, f)
             /\ refused => f = e
             /\ ~refused => Logged(e, f, time, source, barrage)
<1> DEFINE f == Add(e, time, source, raw, barrage)
           refused == time > fight.duration \/ raw <= 0 \/ IsDead(e)
           x == ExpireTimedItemStates(e, time)
<1>1. CASE refused
  <2>1. f = e
    BY <1>1 DEF Add
  <2> QED
    BY <1>1, <2>1 DEF SameAbilities, LessBarrage, SameBarrage, Shape
<1>2. CASE ~refused
  <2>1. PICK final, new :
          /\ f = [x EXCEPT !.targetHealth = final, !.events = Append(@, new)]
          /\ new.time = time /\ new.source = source /\ new.barrage = barrage
    <3> DEFINE n == [time |-> time, source |-> source,
                     final |-> IF fight.targetMode = "mortal" THEN Min({raw, e.targetHealth}) ELSE raw,
                     pen |-> x.darkStacks, mode |-> e.terminusNextMode, barrage |-> barrage]
               h == x.targetHealth
                      - IF fight.targetMode = "mortal" THEN Min({raw, e.targetHealth}) ELSE raw
    <3>1. f = [x EXCEPT !.targetHealth = h, !.events = Append(@, n)]
      BY <1>2 DEF Add
    <3>2. n.time = time /\ n.source = source /\ n.barrage = barrage
      OBVIOUS
    <3> HIDE DEF n, h
    <3> QED
      BY <3>1, <3>2
  <2>2. /\ DOMAIN x = FieldNames
        /\ x.events = e.events /\ x.pendingDamage = e.pendingDamage
        /\ SameAbilities(e, x) /\ x.nextAttackReady = e.nextAttackReady /\ LessBarrage(e, x)
        /\ x.fiendhunterAttacks \in Int
        /\ time <= e.fiendhunterUntil + Epsilon => SameBarrage(e, x)
    <3>1. e.fiendhunterUntil + Epsilon \in Int
      BY UnitFacts DEF Shape
    <3> QED
      BY <3>1 DEF ExpireTimedItemStates, Shape, FieldNames, SameAbilities, LessBarrage, SameBarrage
  <2> HIDE DEF x, f
  <2>3. /\ DOMAIN f = FieldNames
        /\ f.events = Append(e.events, new) /\ f.pendingDamage = e.pendingDamage
        /\ SameAbilities(x, f) /\ f.nextAttackReady = x.nextAttackReady /\ SameBarrage(x, f)
    BY <2>1, <2>2 DEF FieldNames, SameAbilities, SameBarrage
  <2>4. /\ f.events \in Seq({f.events[i] : i \in DOMAIN f.events})
        /\ Len(e.events) \in Nat /\ DOMAIN e.events = 1 .. Len(e.events)
        /\ Len(f.events) = Len(e.events) + 1 /\ DOMAIN f.events = 1 .. Len(e.events) + 1
        /\ f.events[Len(e.events) + 1] = new
        /\ \A i \in DOMAIN e.events : f.events[i] = e.events[i]
    <3>1. e.events \in Seq({e.events[i] : i \in DOMAIN e.events})
      BY DEF Shape
    <3> DEFINE s == e.events
               t == Append(s, new)
    <3>2. /\ t \in Seq({t[i] : i \in DOMAIN t})
          /\ Len(s) \in Nat /\ DOMAIN s = 1 .. Len(s)
          /\ Len(t) = Len(s) + 1 /\ DOMAIN t = 1 .. Len(s) + 1
          /\ t[Len(s) + 1] = new /\ \A i \in DOMAIN s : t[i] = s[i]
      BY <3>1, EventsGrow, SMTT(30)
    <3>3. f.events = t
      BY <2>3
    <3> HIDE DEF t
    <3> QED
      BY <3>2, <3>3
  <2>5. Logged(e, f, time, source, barrage)
    BY <2>1, <2>4 DEF Logged
  <2>6. \A i \in DOMAIN f.events : f.events[i].time \in Int /\ f.events[i].barrage \in BOOLEAN
    <3>1. \A i \in DOMAIN f.events : i \in DOMAIN e.events \/ i = Len(e.events) + 1
      BY <2>4
    <3>2. \A i \in DOMAIN e.events : e.events[i].time \in Int /\ e.events[i].barrage \in BOOLEAN
      BY DEF Shape
    <3> QED
      BY <2>1, <2>4, <3>1, <3>2
  <2>7. Shape(f)
    BY <2>2, <2>3, <2>4, <2>6 DEF Shape, SameAbilities, SameBarrage, LessBarrage
  <2>8. /\ SameAbilities(e, f) /\ f.nextAttackReady = e.nextAttackReady /\ LessBarrage(e, f)
        /\ time <= e.fiendhunterUntil + Epsilon => SameBarrage(e, f)
    BY <2>2, <2>3 DEF SameAbilities, SameBarrage, LessBarrage
  <2> QED
    BY <1>2, <2>3, <2>5, <2>7, <2>8 DEF f
<1> QED
  BY <1>1, <1>2

-----------------------------------------------------------------------------
(* What the other parts of a turn do to an engine. *)

Quiet(e, f) ==
  /\ DOMAIN f = FieldNames /\ SameDamage(e, f) /\ SameAbilities(e, f) /\ LessBarrage(e, f)
  /\ f.nextAttackReady = e.nextAttackReady

LEMMA QuietShape ==
  ASSUME NEW e, Shape(e), NEW f, Quiet(e, f)
  PROVE  Shape(f)
BY DEF Quiet, Shape, SameDamage, SameAbilities, LessBarrage

LEMMA QuietParts ==
  ASSUME NEW e, Shape(e), NEW time \in Int
  PROVE  /\ LET f == ExpireTimedItemStates(e, time)
            IN  /\ Quiet(e, f)
                /\ time <= e.fiendhunterUntil + Epsilon => SameBarrage(e, f)
         /\ LET f == AdvanceStormrazorMovement(e, time) IN Quiet(e, f) /\ SameBarrage(e, f)
         /\ \A n : LET f == [StartFlurry(e, time) EXCEPT !.attacks = n]
                   IN  Quiet(e, f) /\ SameBarrage(e, f)
         /\ \A n : LET f == [e EXCEPT !.stormrazorStacks = n] IN Quiet(e, f) /\ SameBarrage(e, f)
         /\ LET f == TurnTerminus(e, time) IN Quiet(e, f) /\ SameBarrage(e, f)
         /\ \A c : LET f == StackYunTal(e, time, c) IN Quiet(e, f) /\ SameBarrage(e, f)
<1>1. /\ DOMAIN e = FieldNames /\ e.fiendhunterUntil + Epsilon \in Int
  BY UnitFacts DEF Shape
<1>2. LET f == ExpireTimedItemStates(e, time)
      IN  Quiet(e, f) /\ (time <= e.fiendhunterUntil + Epsilon => SameBarrage(e, f))
  BY <1>1 DEF ExpireTimedItemStates, FieldNames, Quiet, SameDamage, SameAbilities, LessBarrage, SameBarrage
<1>3. LET f == AdvanceStormrazorMovement(e, time) IN Quiet(e, f) /\ SameBarrage(e, f)
  <2>1. PICK a : AdvanceStormrazorMovement(e, time) = e
                 \/ AdvanceStormrazorMovement(e, time) =
                      [e EXCEPT !.stormrazorStacks = a, !.stormrazorLastEnergizeTime = time]
    BY DEF AdvanceStormrazorMovement
  <2> QED
    BY <1>1, <2>1 DEF FieldNames, Quiet, SameDamage, SameAbilities, LessBarrage, SameBarrage
<1>4. ASSUME NEW n
      PROVE  LET f == [StartFlurry(e, time) EXCEPT !.attacks = n] IN Quiet(e, f) /\ SameBarrage(e, f)
  BY <1>1 DEF StartFlurry, FieldNames, Quiet, SameDamage, SameAbilities, LessBarrage, SameBarrage
<1>5. ASSUME NEW n
      PROVE  LET f == [e EXCEPT !.stormrazorStacks = n] IN Quiet(e, f) /\ SameBarrage(e, f)
  BY <1>1 DEF FieldNames, Quiet, SameDamage, SameAbilities, LessBarrage, SameBarrage
<1>6. LET f == TurnTerminus(e, time) IN Quiet(e, f) /\ SameBarrage(e, f)
  BY <1>1 DEF TurnTerminus, FieldNames, Quiet, SameDamage, SameAbilities, LessBarrage, SameBarrage
<1>7. ASSUME NEW c PROVE LET f == StackYunTal(e, time, c) IN Quiet(e, f) /\ SameBarrage(e, f)
  <2>1. PICK a, b : StackYunTal(e, time, c) = e
                    \/ StackYunTal(e, time, c) = [e EXCEPT !.yunTalStacks = a, !.flurryReadyAt = b]
    BY DEF StackYunTal
  <2> QED
    BY <1>1, <2>1 DEF FieldNames, Quiet, SameDamage, SameAbilities, LessBarrage, SameBarrage
<1> QED
  BY <1>2, <1>3, <1>4, <1>5, <1>6, <1>7

LEMMA GridFacts ==
  \A t \in Int : OnGrid(t) \in Int /\ OnGrid(t) <= t /\ t < OnGrid(t) + Grid
<1> SUFFICES ASSUME NEW t \in Int
             PROVE  OnGrid(t) \in Int /\ OnGrid(t) <= t /\ t < OnGrid(t) + Grid
  OBVIOUS
<1>1. Grid \in Nat /\ Grid > 0
  BY UnitFacts
<1>2. t \div Grid \in Int
  BY <1>1
<1>3. Grid * (t \div Grid) <= t /\ t < Grid * (t \div Grid) + Grid
  BY <1>1
<1> QED
  BY <1>1, <1>2, <1>3 DEF OnGrid

LEMMA ReducedIs ==
  ASSUME NEW w \in Int, NEW t \in Int
  PROVE  /\ Reduced(w, t) \in Int
         /\ w <= t => Reduced(w, t) = w
         /\ w > t => Reduced(w, t) = t + OnGrid((w - t) \div 5) /\ Reduced(w, t) >= t
<1>1. (w - t) \div 5 \in Int
  OBVIOUS
<1>2. OnGrid((w - t) \div 5) \in Int
  BY <1>1, GridFacts
<1>3. CASE w <= t
  BY <1>3 DEF Reduced
<1>4. CASE w > t
  <2>1. (w - t) \div 5 \in Nat
    BY <1>4
  <2>2. OnGrid((w - t) \div 5) >= 0
    <3>1. PICK x \in Nat : x = (w - t) \div 5
      BY <2>1
    <3>2. x \div Grid \in Nat /\ Grid \in Nat
      BY UnitFacts
    <3>3. Grid * (x \div Grid) \in Nat
      BY <3>2
    <3> QED
      BY <3>1, <3>3 DEF OnGrid
  <2> QED
    BY <1>2, <1>4, <2>2 DEF Reduced
<1> QED
  BY <1>3, <1>4

(* The end of R, where it has come and was not handled yet. *)
Ends(e, time) == ~e.rExitHandled /\ e.rUntil >= 0 /\ time >= e.rUntil - Epsilon

LEMMA ExitEffect ==
  ASSUME NEW e, Shape(e), NEW time \in Int
  PROVE  LET f == ApplyRExitEffects(e, time)
         IN  /\ Shape(f) /\ SameDamage(e, f) /\ SameBarrage(e, f)
             /\ f.nextAttackReady = e.nextAttackReady
             /\ f.rUntil = e.rUntil /\ f.rReadyAt = e.rReadyAt
             /\ ~Ends(e, time) => f = e
             /\ Ends(e, time) => /\ f.rExitHandled = TRUE /\ f.eReadyAt = e.rUntil
                                 /\ f.wReadyAt = Reduced(e.wReadyAt, e.rUntil)
<1> DEFINE f == ApplyRExitEffects(e, time)
<1>1. e.rUntil \in Int /\ e.rUntil - Epsilon \in Int /\ e.rExitHandled \in BOOLEAN /\ e.wReadyAt \in Int
  BY UnitFacts DEF Shape
<1>2. CASE ~Ends(e, time)
  <2>1. f = e
    BY <1>1, <1>2 DEF ApplyRExitEffects, Ends
  <2> QED
    BY <1>2, <2>1 DEF SameDamage, SameBarrage
<1>3. CASE Ends(e, time)
  <2>1. f = [e EXCEPT !.wReadyAt = Reduced(@, e.rUntil), !.eReadyAt = e.rUntil, !.rExitHandled = TRUE]
    BY <1>1, <1>3 DEF ApplyRExitEffects, Ends
  <2>2. DOMAIN e = FieldNames
    BY DEF Shape
  <2>3. /\ DOMAIN f = FieldNames /\ SameDamage(e, f) /\ SameBarrage(e, f)
        /\ f.nextAttackReady = e.nextAttackReady
        /\ f.rUntil = e.rUntil /\ f.rReadyAt = e.rReadyAt
        /\ f.rExitHandled = TRUE /\ f.eReadyAt = e.rUntil
        /\ f.wReadyAt = Reduced(e.wReadyAt, e.rUntil)
    BY <2>1, <2>2 DEF FieldNames, SameDamage, SameBarrage
  <2> HIDE DEF f
  <2>4. Reduced(e.wReadyAt, e.rUntil) \in Int
    BY <1>1, ReducedIs
  <2>5. Shape(f)
    BY <2>3, <2>4 DEF Shape, SameDamage, SameBarrage
  <2> QED
    BY <1>3, <2>3, <2>5 DEF f
<1> QED
  BY <1>2, <1>3

-----------------------------------------------------------------------------
(* The pending ticks that are due land one by one. *)

LandStep(e, n, f, k) ==
  IF k = 0 THEN e ELSE Add(f[k - 1], e.pendingDamage[k], "linger", Raw["linger"], FALSE)
LandIter(e, n) == CHOOSE f : f = [k \in 0 .. n |-> LandStep(e, n, f, k)]

LEMMA LandedIsIter == \A e, n : Landed(e, n) = LandIter(e, n)[n]
BY DEF Landed, LandIter, LandStep

LEMMA LandIterAt ==
  ASSUME NEW e, NEW n \in Nat
  PROVE  \A k \in 0 .. n : LandIter(e, n)[k] = LandStep(e, n, LandIter(e, n), k)
<1> DEFINE Upto(f, m) == \A k \in 0 .. n : k <= m => f[k] = LandStep(e, n, f, k)
           Bad == {m \in Nat : ~ \E f : Upto(f, m)}
<1>1. 0 \notin Bad
  <2> DEFINE f == [k \in 0 .. n |-> e]
  <2>1. ASSUME NEW k \in 0 .. n, k <= 0 PROVE f[k] = LandStep(e, n, f, k)
    <3>1. k = 0
      BY <2>1
    <3> QED
      BY <3>1 DEF LandStep
  <2> HIDE DEF f
  <2> QED
    BY <2>1
<1>2. ASSUME NEW m \in Nat, NEW f, Upto(f, m)
      PROVE  \E g : Upto(g, m + 1)
  <2> DEFINE g == [k \in 0 .. n |-> IF k <= m THEN f[k] ELSE LandStep(e, n, f, k)]
  <2>1. ASSUME NEW k \in 0 .. n, k <= m + 1
        PROVE  g[k] = LandStep(e, n, g, k)
    <3>1. g[k] = LandStep(e, n, f, k)
      BY <1>2
    <3>2. CASE k = 0
      BY <3>1, <3>2 DEF LandStep
    <3>3. CASE k # 0
      <4>1. k - 1 \in 0 .. n /\ k - 1 <= m
        BY <2>1, <3>3
      <4>2. g[k - 1] = f[k - 1]
        BY <4>1
      <4> QED
        BY <3>1, <3>3, <4>2 DEF LandStep
    <3> QED
      BY <3>2, <3>3
  <2> HIDE DEF g
  <2> QED
    BY <2>1
<1>3. Bad = {}
  <2> SUFFICES ASSUME Bad # {} PROVE FALSE
    OBVIOUS
  <2>0. Bad \subseteq Nat
    OBVIOUS
  <2>1. PICK m \in Bad : \A k \in Bad : m <= k
    <3> HIDE DEF Bad
    <3> QED
      BY <2>0, LeastNatural
  <2>2. m - 1 \in Nat /\ m - 1 \notin Bad
    <3> HIDE DEF Bad
    <3> QED
      BY <1>1, <2>0, <2>1
  <2>3. \E f : Upto(f, m - 1)
    BY <2>2
  <2>4. \E g : Upto(g, (m - 1) + 1)
    <3> HIDE DEF Upto
    <3> QED
      BY <1>2, <2>2, <2>3
  <2> QED
    BY <2>1, <2>4
<1>4. PICK f : Upto(f, n)
  BY <1>3
<1> DEFINE h == [k \in 0 .. n |-> f[k]]
<1>5. h = [k \in 0 .. n |-> LandStep(e, n, h, k)]
  <2> SUFFICES ASSUME NEW k \in 0 .. n
               PROVE  f[k] = LandStep(e, n, h, k)
    OBVIOUS
  <2>1. f[k] = LandStep(e, n, f, k)
    BY <1>4
  <2>2. k # 0 => k - 1 \in 0 .. n
    OBVIOUS
  <2> QED
    BY <2>1, <2>2 DEF LandStep
<1> HIDE DEF h
<1> DEFINE g == LandIter(e, n)
<1>6. g = [k \in 0 .. n |-> LandStep(e, n, g, k)]
  BY <1>5 DEF LandIter
<1> HIDE DEF g
<1>7. \A k \in 0 .. n : g[k] = LandStep(e, n, g, k)
  BY <1>6
<1> QED
  BY <1>7 DEF g

(* The engines between the first tick and the last. *)
LEMMA LandedSteps ==
  ASSUME NEW e, NEW n \in Nat
  PROVE  \E f : /\ f[0] = e /\ f[n] = Landed(e, n)
                /\ \A k \in 1 .. n :
                     f[k] = Add(f[k - 1], e.pendingDamage[k], "linger", Raw["linger"], FALSE)
<1> DEFINE f == LandIter(e, n)
<1>1. \A k \in 0 .. n : f[k] = LandStep(e, n, f, k)
  BY LandIterAt
<1>2. f[n] = Landed(e, n)
  BY LandedIsIter
<1>3. f[0] = e
  <2>1. f[0] = LandStep(e, n, f, 0)
    <3> HIDE DEF f
    <3> QED
      BY <1>1
  <2> QED
    BY <2>1 DEF LandStep
<1>4. ASSUME NEW k \in 1 .. n
      PROVE  f[k] = Add(f[k - 1], e.pendingDamage[k], "linger", Raw["linger"], FALSE)
  <2>1. f[k] = LandStep(e, n, f, k) /\ k # 0
    <3> HIDE DEF f
    <3> QED
      BY <1>1
  <2> QED
    BY <2>1 DEF LandStep
<1> HIDE DEF f
<1> QED
  BY <1>2, <1>3, <1>4

(* Which of the pending ticks are due, and what is left of a list when its  *)
(* first n are taken away.                                                  *)
LEMMA DueIs ==
  ASSUME NEW e, e.pendingDamage \in Seq(Int), NEW time \in Int
  PROVE  LET p == e.pendingDamage
             n == Due(e, time)
         IN  /\ n \in 0 .. Len(p)
             /\ \A i \in 1 .. n : p[i] <= time
             /\ n < Len(p) => p[n + 1] > time
<1> DEFINE p == e.pendingDamage
           S == {n \in 0 .. Len(p) : \A i \in 1 .. n : p[i] <= time}
           n == Due(e, time)
<1>1. Len(p) \in Nat /\ \A i \in 1 .. Len(p) : p[i] \in Int
  OBVIOUS
<1>2. S \in SUBSET Nat /\ 0 \in S /\ IsFiniteSet(S)
  <2>1. S \subseteq 0 .. Len(p)
    OBVIOUS
  <2>2. IsFiniteSet(0 .. Len(p))
    BY <1>1, FS_Interval
  <2>3. IsFiniteSet(S)
    <3> HIDE DEF S
    <3> QED
      BY <2>1, <2>2, FS_Subset
  <2> QED
    BY <1>1, <2>1, <2>3
<1>3. n = Max(S)
  BY DEF Due
<1>4. n \in S /\ \A x \in S : x <= n
  <2> HIDE DEF S, n
  <2>1. S # {}
    BY <1>2
  <2> QED
    BY <1>2, <1>3, <2>1, MaxMinOfNaturals
<1>5. ASSUME n < Len(p), p[n + 1] <= time PROVE FALSE
  <2> HIDE DEF n
  <2>1. n \in 0 .. Len(p) /\ \A i \in 1 .. n : p[i] <= time
    BY <1>4
  <2>2. n + 1 \in 0 .. Len(p)
    BY <1>1, <1>5, <2>1
  <2>3. \A i \in 1 .. n + 1 : p[i] <= time
    <3>1. \A i \in 1 .. n + 1 : i \in 1 .. n \/ i = n + 1
      BY <2>1
    <3> QED
      BY <1>5, <2>1, <3>1
  <2>4. n + 1 \in S
    BY <2>2, <2>3
  <2> HIDE DEF S
  <2> QED
    BY <1>4, <2>1, <2>4
<1>6. n < Len(p) => p[n + 1] > time
  <2>1. n \in 0 .. Len(p)
    BY <1>4
  <2> HIDE DEF n
  <2> QED
    BY <1>1, <1>5, <2>1
<1> QED
  BY <1>4, <1>6

LEMMA Dropped ==
  ASSUME NEW p \in Seq(Int), NEW n \in 0 .. Len(p)
  PROVE  LET q == SubSeq(p, n + 1, Len(p))
         IN  /\ q \in Seq(Int) /\ Len(q) = Len(p) - n
             /\ \A i \in 1 .. Len(q) : q[i] = p[n + i]
<1>1. Len(p) \in Nat
  OBVIOUS
<1> QED
  BY <1>1

-----------------------------------------------------------------------------
(* The ledger of the hits of W: each is followed by its tick, or the tick   *)
(* is still pending, and the first k of those on the list have landed.      *)

Of(e, source) == {i \in DOMAIN e.events : e.events[i].source = source}
Hits(e) == {e.events[i].time : i \in Of(e, "judgment")}
Ticked(e) == {e.events[i].time : i \in Of(e, "linger")}

Ledger(e, k) ==
  /\ \A i, j \in Of(e, "judgment") : e.events[i].time = e.events[j].time => i = j
  /\ \A i, j \in Of(e, "linger") : e.events[i].time = e.events[j].time => i = j
  /\ \A m, n \in DOMAIN e.pendingDamage : m < n => e.pendingDamage[m] < e.pendingDamage[n]
  /\ \A t \in Ticked(e) : t - Second \in Hits(e)
  /\ \A m \in DOMAIN e.pendingDamage : e.pendingDamage[m] - Second \in Hits(e)
  /\ \A t \in Ticked(e), m \in DOMAIN e.pendingDamage : m > k => t < e.pendingDamage[m]
  /\ \A t \in Hits(e) :
       \/ t + Second \in Ticked(e)
       \/ \E m \in DOMAIN e.pendingDamage : m > k /\ e.pendingDamage[m] = t + Second
       \/ t + Second > fight.duration
       \/ IsDead(e)

(* The times of the hits and of the ticks when an event is added.           *)
LEMMA LoggedTimes ==
  ASSUME NEW e, Shape(e), NEW f, NEW time, NEW source, NEW barrage, Logged(e, f, time, source, barrage)
  PROVE  \E n : /\ f.events[n].time = time
                /\ Of(f, source) = Of(e, source) \cup {n}
                /\ \A s : s # source => Of(f, s) = Of(e, s)
                /\ \A s : n \notin Of(e, s)
                /\ \A s : \A i \in Of(e, s) : f.events[i].time = e.events[i].time
<1> DEFINE n == Len(e.events)
<1>1. n \in Nat /\ DOMAIN e.events = 1 .. n /\ DOMAIN f.events = 1 .. n + 1
  BY DEF Shape, Logged
<1>2. \A i \in 1 .. n : f.events[i] = e.events[i]
  BY <1>1 DEF Logged
<1>3. f.events[n + 1].time = time /\ f.events[n + 1].source = source
  BY DEF Logged
<1>4. n + 1 \notin 1 .. n /\ \A i : i \in 1 .. n + 1 <=> (i \in 1 .. n \/ i = n + 1)
  BY <1>1
<1> HIDE DEF n
<1>5. /\ Of(f, source) = Of(e, source) \cup {n + 1}
      /\ \A s : s # source => Of(f, s) = Of(e, s)
  BY <1>1, <1>2, <1>3, <1>4 DEF Of
<1>6. ASSUME NEW s
      PROVE  n + 1 \notin Of(e, s) /\ \A i \in Of(e, s) : f.events[i].time = e.events[i].time
  BY <1>1, <1>2, <1>4 DEF Of
<1> QED
  BY <1>3, <1>5, <1>6

LEMMA LoggedSets ==
  ASSUME NEW e, Shape(e), NEW f, NEW time, NEW source, NEW barrage, Logged(e, f, time, source, barrage)
  PROVE  /\ Hits(f) = IF source = "judgment" THEN Hits(e) \cup {time} ELSE Hits(e)
         /\ Ticked(f) = IF source = "linger" THEN Ticked(e) \cup {time} ELSE Ticked(e)
<1> DEFINE Times(g, s) == {g.events[i].time : i \in Of(g, s)}
<1>0. PICK n : /\ f.events[n].time = time
               /\ Of(f, source) = Of(e, source) \cup {n}
               /\ \A s : s # source => Of(f, s) = Of(e, s)
               /\ \A s : n \notin Of(e, s)
               /\ \A s : \A i \in Of(e, s) : f.events[i].time = e.events[i].time
  BY LoggedTimes
<1>1. ASSUME NEW s PROVE Times(f, s) = IF s = source THEN Times(e, s) \cup {time} ELSE Times(e, s)
  BY <1>0
<1>2. Hits(f) = Times(f, "judgment") /\ Hits(e) = Times(e, "judgment")
  BY DEF Hits
<1>3. Ticked(f) = Times(f, "linger") /\ Ticked(e) = Times(e, "linger")
  BY DEF Ticked
<1> HIDE DEF Times
<1> QED
  BY <1>1, <1>2, <1>3

LEMMA LedgerSame ==
  ASSUME NEW e, NEW f, SameDamage(e, f), NEW k
  PROVE  /\ Ledger(e, k) => Ledger(f, k)
         /\ Hits(f) = Hits(e) /\ Ticked(f) = Ticked(e) /\ (IsDead(f) <=> IsDead(e))
BY DEF SameDamage, Ledger, Hits, Ticked, Of, IsDead

LEMMA TimesAre ==
  ASSUME NEW e, Shape(e)
  PROVE  Hits(e) \subseteq Int /\ Ticked(e) \subseteq Int
BY DEF Shape, Hits, Ticked, Of

(* A hit of another source changes nothing of the ledger.                   *)
LEMMA LedgerOther ==
  ASSUME NEW e, Shape(e), NEW f, NEW time, NEW source, NEW barrage, NEW k,
         source \notin {"judgment", "linger"}, Ledger(e, k),
         Logged(e, f, time, source, barrage), f.pendingDamage = e.pendingDamage, ~IsDead(e)
  PROVE  Ledger(f, k) /\ Hits(f) = Hits(e)
<1>1. Hits(f) = Hits(e) /\ Ticked(f) = Ticked(e)
  BY LoggedSets
<1>2. /\ Of(f, "judgment") = Of(e, "judgment") /\ Of(f, "linger") = Of(e, "linger")
      /\ \A i \in Of(e, "judgment") : f.events[i].time = e.events[i].time
      /\ \A i \in Of(e, "linger") : f.events[i].time = e.events[i].time
  BY LoggedTimes
<1>3. /\ \A i, j \in Of(f, "judgment") : f.events[i].time = f.events[j].time => i = j
      /\ \A i, j \in Of(f, "linger") : f.events[i].time = f.events[j].time => i = j
  BY <1>2 DEF Ledger
<1> QED
  BY <1>1, <1>3 DEF Ledger

(* A tick that lands, or that the end of the fight takes away.              *)
LEMMA LedgerTick ==
  ASSUME NEW e, Shape(e), NEW k \in Nat, k < Len(e.pendingDamage), Ledger(e, k)
  PROVE  LET f == Add(e, e.pendingDamage[k + 1], "linger", Raw["linger"], FALSE)
         IN  Ledger(f, k + 1) /\ Hits(f) = Hits(e)
<1> DEFINE p == e.pendingDamage
           t == p[k + 1]
           f == Add(e, t, "linger", Raw["linger"], FALSE)
<1>1. /\ Len(p) \in Nat /\ DOMAIN p = 1 .. Len(p) /\ k + 1 \in DOMAIN p /\ t \in Int
      /\ \A m \in DOMAIN p : p[m] \in Int
  <2>1. p \in Seq(Int)
    BY DEF Shape
  <2>2. k < Len(p)
    OBVIOUS
  <2> HIDE DEF p
  <2> QED
    BY <2>1, <2>2
<1>2. Raw["linger"] \in Nat \ {0}
  BY FightsAssumption
<1>3. /\ f.pendingDamage = p
      /\ (t > fight.duration \/ IsDead(e)) => f = e
      /\ ~(t > fight.duration \/ IsDead(e)) => Logged(e, f, t, "linger", FALSE)
  <2> DEFINE raw == Raw["linger"]
  <2>1. ~(raw <= 0)
    BY <1>2
  <2>2. t \in Int
    BY <1>1
  <2> HIDE DEF raw, t
  <2>3. LET g == Add(e, t, "linger", raw, FALSE)
        IN  /\ g.pendingDamage = e.pendingDamage
            /\ (t > fight.duration \/ raw <= 0 \/ IsDead(e)) => g = e
            /\ ~(t > fight.duration \/ raw <= 0 \/ IsDead(e)) => Logged(e, g, t, "linger", FALSE)
    <3>1. FALSE \in BOOLEAN
      OBVIOUS
    <3> QED
      BY <2>2, <3>1, AddEffect, ZenonT(90)
  <2> QED
    BY <2>1, <2>3 DEF raw
<1>4. \A m \in DOMAIN p : m > k => m = k + 1 \/ m > k + 1
  BY <1>1
<1>5. CASE t > fight.duration \/ IsDead(e)
  <2>1. f = e
    BY <1>3, <1>5
  <2>2. \A m \in DOMAIN p : m > k + 1 => m > k
    BY <1>1
  <2>3. ASSUME NEW h \in Hits(e)
        PROVE  \/ h + Second \in Ticked(e)
               \/ \E m \in DOMAIN p : m > k + 1 /\ p[m] = h + Second
               \/ h + Second > fight.duration
               \/ IsDead(e)
    <3>1. CASE \E m \in DOMAIN p : m > k /\ p[m] = h + Second
      BY <1>4, <1>5, <3>1
    <3> QED
      BY <3>1 DEF Ledger
  <2>4. Ledger(e, k + 1)
    BY <2>2, <2>3 DEF Ledger
  <2> QED
    BY <2>1, <2>4
<1>6. CASE ~(t > fight.duration \/ IsDead(e))
  <2> HIDE DEF f, t
  <2>1. Logged(e, f, t, "linger", FALSE)
    BY <1>3, <1>6
  <2>2. Hits(f) = Hits(e) /\ Ticked(f) = Ticked(e) \cup {t}
    BY <2>1, LoggedSets
  <2>3. PICK n : /\ f.events[n].time = t
                 /\ Of(f, "linger") = Of(e, "linger") \cup {n}
                 /\ \A s : s # "linger" => Of(f, s) = Of(e, s)
                 /\ \A s : n \notin Of(e, s)
                 /\ \A s : \A i \in Of(e, s) : f.events[i].time = e.events[i].time
    BY <2>1, LoggedTimes, ZenonT(30)
  <2>4. \A i, j \in Of(f, "judgment") : f.events[i].time = f.events[j].time => i = j
    BY <2>3 DEF Ledger
  <2>5. \A u \in Ticked(e) : u < t
    BY <1>1 DEF Ledger, t
  <2>6. \A i, j \in Of(f, "linger") : f.events[i].time = f.events[j].time => i = j
    <3>1. \A i \in Of(e, "linger") : f.events[i].time # t
      <4>1. \A i \in Of(e, "linger") : e.events[i].time \in Ticked(e)
        BY DEF Ticked
      <4>2. Ticked(e) \subseteq Int
        BY TimesAre
      <4> QED
        BY <1>1, <2>3, <2>5, <4>1, <4>2
    <3> QED
      BY <2>3, <3>1 DEF Ledger
  <2>7. \A u \in Ticked(f) : u - Second \in Hits(f)
    <3>1. t - Second \in Hits(e)
      BY <1>1 DEF Ledger, t
    <3> QED
      BY <2>2, <3>1 DEF Ledger
  <2>8. \A u \in Ticked(f), m \in DOMAIN p : m > k + 1 => u < p[m]
    <3>1. \A m \in DOMAIN p : m > k + 1 => t < p[m]
      BY <1>1 DEF Ledger, t
    <3>2. \A m \in DOMAIN p : m > k + 1 => m > k
      BY <1>1
    <3> QED
      BY <2>2, <3>1, <3>2 DEF Ledger
  <2>9. ASSUME NEW h \in Hits(e)
        PROVE  \/ h + Second \in Ticked(f)
               \/ \E m \in DOMAIN p : m > k + 1 /\ p[m] = h + Second
               \/ h + Second > fight.duration
    <3>1. CASE \E m \in DOMAIN p : m > k /\ p[m] = h + Second
      BY <1>4, <2>2, <3>1 DEF t
    <3> QED
      BY <1>6, <2>2, <3>1 DEF Ledger
  <2>10. f.pendingDamage = p
    BY <1>3
  <2>11. Ledger(f, k + 1)
    <3>1. \A m, n_1 \in DOMAIN p : m < n_1 => p[m] < p[n_1]
      BY DEF Ledger
    <3>2. \A m \in DOMAIN p : p[m] - Second \in Hits(f)
      BY <2>2 DEF Ledger
    <3> HIDE DEF p
    <3> QED
      BY <2>2, <2>4, <2>6, <2>7, <2>8, <2>9, <2>10, <3>1, <3>2 DEF Ledger
  <2> QED
    BY <2>2, <2>11 DEF f, t
<1> QED
  BY <1>5, <1>6

-----------------------------------------------------------------------------
(* The events of an Opening Barrage. *)
BarrageOf(e) == {i \in DOMAIN e.events : e.events[i].barrage}
SameVolley(e, f) ==
  /\ BarrageOf(f) = BarrageOf(e)
  /\ \A i \in BarrageOf(e) : f.events[i].time = e.events[i].time

LEMMA LoggedVolley ==
  ASSUME NEW e, Shape(e), NEW f, NEW time, NEW source, NEW barrage \in BOOLEAN,
         Logged(e, f, time, source, barrage)
  PROVE  /\ ~barrage => SameVolley(e, f)
         /\ barrage => \E n : /\ n \notin BarrageOf(e) /\ BarrageOf(f) = BarrageOf(e) \cup {n}
                              /\ f.events[n].time = time
                              /\ \A i \in BarrageOf(e) : f.events[i].time = e.events[i].time
<1> DEFINE n == Len(e.events)
<1>1. n \in Nat /\ DOMAIN e.events = 1 .. n /\ DOMAIN f.events = 1 .. n + 1
  BY DEF Shape, Logged
<1>2. \A i \in 1 .. n : f.events[i] = e.events[i]
  BY <1>1 DEF Logged
<1>3. f.events[n + 1].time = time /\ f.events[n + 1].barrage = barrage
  BY DEF Logged
<1>4. n + 1 \notin 1 .. n /\ \A i : i \in 1 .. n + 1 <=> (i \in 1 .. n \/ i = n + 1)
  BY <1>1
<1> HIDE DEF n
<1>5. n + 1 \notin BarrageOf(e) /\ \A i \in BarrageOf(e) : f.events[i].time = e.events[i].time
  BY <1>1, <1>2, <1>4 DEF BarrageOf
<1>6. CASE ~barrage
  <2>1. BarrageOf(f) = BarrageOf(e)
    BY <1>1, <1>2, <1>3, <1>4, <1>6 DEF BarrageOf
  <2> QED
    BY <1>5, <1>6, <2>1 DEF SameVolley
<1>7. CASE barrage
  <2>1. BarrageOf(f) = BarrageOf(e) \cup {n + 1}
    BY <1>1, <1>2, <1>3, <1>4, <1>7 DEF BarrageOf
  <2> QED
    BY <1>3, <1>5, <1>7, <2>1
<1> QED
  BY <1>6, <1>7

(* What the landing of ticks may change. *)
Waits(e, f) ==
  /\ Shape(f) /\ SameAbilities(e, f) /\ LessBarrage(e, f) /\ SameVolley(e, f)
  /\ f.nextAttackReady = e.nextAttackReady

LEMMA WaitsOn ==
  ASSUME NEW e, NEW f, NEW g, Waits(e, f), Waits(f, g)
  PROVE  Waits(e, g)
BY DEF Waits, SameAbilities, LessBarrage, SameVolley

LEMMA TickWaits ==
  ASSUME NEW e, Shape(e), NEW time \in Int
  PROVE  Waits(e, Add(e, time, "linger", Raw["linger"], FALSE))
<1> DEFINE raw == Raw["linger"]
           refused == time > fight.duration \/ raw <= 0 \/ IsDead(e)
           f == Add(e, time, "linger", raw, FALSE)
<1>1. FALSE \in BOOLEAN
  OBVIOUS
<1> HIDE DEF raw
<1>2. /\ Shape(f) /\ SameAbilities(e, f) /\ f.nextAttackReady = e.nextAttackReady /\ LessBarrage(e, f)
      /\ refused => f = e
      /\ ~refused => Logged(e, f, time, "linger", FALSE)
  BY <1>1, AddEffect, ZenonT(90)
<1> HIDE DEF f
<1>3. SameVolley(e, f)
  <2>1. CASE refused
    BY <1>2, <2>1 DEF SameVolley
  <2>2. CASE ~refused
    BY <1>1, <1>2, <2>2, LoggedVolley
  <2> QED
    BY <2>1, <2>2
<1>4. Waits(e, f)
  BY <1>2, <1>3 DEF Waits
<1> QED
  BY <1>4 DEF f, raw

LEMMA LandedEffect ==
  ASSUME NEW e, Shape(e), NEW n \in 0 .. Len(e.pendingDamage)
  PROVE  LET f == Landed(e, n)
         IN  /\ Waits(e, f) /\ f.pendingDamage = e.pendingDamage
             /\ Ledger(e, 0) => (Ledger(f, n) /\ Hits(f) = Hits(e))
<1> DEFINE p == e.pendingDamage
<1>1. /\ p \in Seq(Int) /\ Len(p) \in Nat /\ \A i \in 1 .. Len(p) : p[i] \in Int
  BY DEF Shape
<1>2. n \in Nat
  BY <1>1
<1>3. PICK f : /\ f[0] = e /\ f[n] = Landed(e, n)
               /\ \A k \in 1 .. n : f[k] = Add(f[k - 1], p[k], "linger", Raw["linger"], FALSE)
  BY <1>2, LandedSteps
<1> DEFINE Good(k) == /\ Waits(e, f[k]) /\ f[k].pendingDamage = p
                      /\ Ledger(e, 0) => (Ledger(f[k], k) /\ Hits(f[k]) = Hits(e))
           Bad == {k \in 0 .. n : ~Good(k)}
<1>4. Good(0)
  <2>1. Waits(e, e)
    BY DEF Waits, SameAbilities, LessBarrage, SameVolley
  <2> QED
    BY <1>3, <2>1
<1>5. ASSUME NEW k \in 0 .. n, k < n, Good(k) PROVE Good(k + 1)
  <2> DEFINE d == f[k]
  <2>1. k + 1 \in 1 .. n /\ (k + 1) - 1 = k /\ k + 1 \in 1 .. Len(p) /\ k \in Nat
    BY <1>1, <1>2, <1>5
  <2>2. f[k + 1] = Add(d, p[k + 1], "linger", Raw["linger"], FALSE)
    BY <1>3, <2>1
  <2>3. Shape(d) /\ d.pendingDamage = p
    BY <1>5 DEF Waits
  <2>4. p[k + 1] \in Int
    BY <1>1, <2>1
  <2>5. Waits(d, f[k + 1])
    <3> HIDE DEF d, p
    <3> QED
      BY <2>2, <2>3, <2>4, TickWaits
  <2>6. f[k + 1].pendingDamage = p
    <3> DEFINE raw == Raw["linger"]
               t == p[k + 1]
    <3>1. FALSE \in BOOLEAN /\ t \in Int
      BY <2>4
    <3> HIDE DEF d, p, raw, t
    <3>2. Add(d, t, "linger", raw, FALSE).pendingDamage = d.pendingDamage
      BY <2>3, <3>1, AddEffect, ZenonT(30)
    <3> QED
      BY <2>2, <2>3, <3>2 DEF raw, t
  <2>7. ASSUME Ledger(e, 0) PROVE Ledger(f[k + 1], k + 1) /\ Hits(f[k + 1]) = Hits(e)
    <3>1. Ledger(d, k) /\ Hits(d) = Hits(e)
      BY <1>5, <2>7
    <3>2. k < Len(d.pendingDamage)
      BY <1>1, <2>1, <2>3
    <3> HIDE DEF d
    <3>3. LET g == Add(d, d.pendingDamage[k + 1], "linger", Raw["linger"], FALSE)
          IN  Ledger(g, k + 1) /\ Hits(g) = Hits(d)
      BY <2>1, <2>3, <3>1, <3>2, LedgerTick
    <3> QED
      BY <2>2, <2>3, <3>1, <3>3
  <2>8. Waits(e, d)
    BY <1>5
  <2>9. Waits(e, f[k + 1])
    <3> HIDE DEF d
    <3> QED
      BY <2>5, <2>8, WaitsOn
  <2> QED
    BY <2>6, <2>7, <2>9
<1>6. Bad = {}
  <2> SUFFICES ASSUME Bad # {} PROVE FALSE
    OBVIOUS
  <2>0. Bad \subseteq Nat /\ Bad \subseteq 0 .. n
    OBVIOUS
  <2>1. PICK m \in Bad : \A k \in Bad : m <= k
    <3> HIDE DEF Bad
    <3> QED
      BY <2>0, LeastNatural
  <2>2. m # 0
    <3> HIDE DEF Good
    <3> QED
      BY <1>4, <2>1
  <2>3. m - 1 \in 0 .. n /\ m - 1 < n /\ m - 1 \notin Bad /\ (m - 1) + 1 = m
    <3> HIDE DEF Bad
    <3> QED
      BY <1>2, <2>0, <2>1, <2>2
  <2> HIDE DEF Good
  <2>4. Good(m - 1)
    BY <2>3
  <2>5. Good(m)
    BY <1>5, <2>3, <2>4
  <2> QED
    BY <2>1, <2>5
<1>7. Good(n)
  <2> HIDE DEF Good
  <2> QED
    BY <1>2, <1>6
<1> QED
  BY <1>3, <1>7

LEMMA DrainEffect ==
  ASSUME NEW e, Shape(e), NEW time \in Int
  PROVE  LET f == DrainDamageThrough(e, time)
         IN  /\ Waits(e, f)
             /\ Ledger(e, 0) => /\ Ledger(f, 0) /\ Hits(f) = Hits(e)
                                /\ \A m \in DOMAIN f.pendingDamage : f.pendingDamage[m] > time
<1> DEFINE p == e.pendingDamage
           n == Due(e, time)
           g == Landed(e, n)
           q == SubSeq(p, n + 1, Len(p))
           f == DrainDamageThrough(e, time)
<1>1. p \in Seq(Int) /\ Len(p) \in Nat /\ DOMAIN p = 1 .. Len(p)
  BY DEF Shape
<1>2. n \in 0 .. Len(p) /\ (n < Len(p) => p[n + 1] > time)
  BY <1>1, DueIs
<1>3. /\ Waits(e, g) /\ g.pendingDamage = p
      /\ Ledger(e, 0) => (Ledger(g, n) /\ Hits(g) = Hits(e))
  <2> HIDE DEF n
  <2> QED
    BY <1>2, LandedEffect
<1>4. /\ q \in Seq(Int) /\ Len(q) = Len(p) - n /\ \A i \in 1 .. Len(q) : q[i] = p[n + i]
  <2> HIDE DEF n, p
  <2> QED
    BY <1>1, <1>2, Dropped
<1>5. f = [g EXCEPT !.pendingDamage = q]
  BY <1>3 DEF DrainDamageThrough
<1> HIDE DEF f, g, n, q
<1>6. Shape(g) /\ DOMAIN g = FieldNames
  BY <1>3 DEF Waits, Shape
<1>7. /\ DOMAIN f = FieldNames /\ f.pendingDamage = q /\ f.events = g.events
      /\ f.targetHealth = g.targetHealth
      /\ SameAbilities(g, f) /\ SameBarrage(g, f) /\ f.nextAttackReady = g.nextAttackReady
  BY <1>5, <1>6 DEF FieldNames, SameAbilities, SameBarrage
<1>8. Waits(g, f)
  <2>1. Shape(f)
    BY <1>4, <1>6, <1>7 DEF Shape, SameAbilities, SameBarrage
  <2>2. LessBarrage(g, f) /\ SameVolley(g, f)
    BY <1>7 DEF SameBarrage, LessBarrage, SameVolley, BarrageOf
  <2> QED
    BY <1>7, <2>1, <2>2 DEF Waits
<1>9. Waits(e, f)
  BY <1>3, <1>8, WaitsOn
<1>10. ASSUME Ledger(e, 0)
       PROVE  /\ Ledger(f, 0) /\ Hits(f) = Hits(e)
              /\ \A m \in DOMAIN q : q[m] > time
  <2>1. Ledger(g, n) /\ Hits(g) = Hits(e)
    BY <1>3, <1>10
  <2>2. Hits(f) = Hits(g) /\ Ticked(f) = Ticked(g) /\ (IsDead(f) <=> IsDead(g))
    BY <1>7 DEF Hits, Ticked, Of, IsDead
  <2>3. /\ DOMAIN q = 1 .. Len(q) /\ Len(q) \in Nat
        /\ \A m \in 1 .. Len(q) : n + m \in DOMAIN p /\ n + m > n /\ q[m] = p[n + m]
        /\ \A m \in DOMAIN p : m > n => m - n \in 1 .. Len(q) /\ q[m - n] = p[m]
    <3>1. Len(q) \in Nat /\ Len(q) = Len(p) - n /\ n \in Nat /\ DOMAIN q = 1 .. Len(q)
      BY <1>1, <1>2, <1>4
    <3> HIDE DEF p
    <3>2. \A m \in 1 .. Len(q) : n + m \in DOMAIN p /\ n + m > n
      BY <1>1, <3>1
    <3>3. ASSUME NEW m \in DOMAIN p, m > n PROVE m - n \in 1 .. Len(q) /\ q[m - n] = p[m]
      <4>1. m - n \in 1 .. Len(q) /\ n + (m - n) = m
        BY <1>1, <3>1, <3>3
      <4> QED
        BY <1>4, <4>1
    <3> QED
      BY <1>4, <3>1, <3>2, <3>3
  <2>4. /\ \A m, j \in DOMAIN p : m < j => p[m] < p[j]
        /\ \A m \in DOMAIN p : p[m] - Second \in Hits(g)
        /\ \A t \in Ticked(g) : t - Second \in Hits(g)
        /\ \A t \in Ticked(g), m \in DOMAIN p : m > n => t < p[m]
        /\ \A t \in Hits(g) :
             \/ t + Second \in Ticked(g)
             \/ \E m \in DOMAIN p : m > n /\ p[m] = t + Second
             \/ t + Second > fight.duration
             \/ IsDead(g)
    BY <1>3, <2>1 DEF Ledger
  <2> HIDE DEF p
  <2>5. /\ \A m, j \in DOMAIN q : m < j => q[m] < q[j]
        /\ \A m \in DOMAIN q : q[m] - Second \in Hits(g)
    <3>1. \A m, j \in 1 .. Len(q) : m < j => n + m < n + j
      BY <1>1, <1>2
    <3> QED
      BY <2>3, <2>4, <3>1
  <2>6. \A t \in Ticked(g), m \in DOMAIN q : t < q[m]
    BY <2>3, <2>4
  <2>7. \A t \in Hits(g) :
             \/ t + Second \in Ticked(g)
             \/ \E m \in DOMAIN q : m > 0 /\ q[m] = t + Second
             \/ t + Second > fight.duration
             \/ IsDead(g)
    <3>1. ASSUME NEW t \in Hits(g), NEW m \in DOMAIN p, m > n, p[m] = t + Second
          PROVE  \E j \in DOMAIN q : j > 0 /\ q[j] = t + Second
      <4>1. m - n \in DOMAIN q /\ q[m - n] = t + Second
        BY <2>3, <3>1
      <4>2. \A j \in DOMAIN q : j > 0
        BY <2>3
      <4> QED
        BY <4>1, <4>2
    <3> QED
      BY <2>4, <3>1
  <2>8. /\ \A i, j \in Of(f, "judgment") : f.events[i].time = f.events[j].time => i = j
        /\ \A i, j \in Of(f, "linger") : f.events[i].time = f.events[j].time => i = j
    BY <1>7, <2>1 DEF Ledger, Of
  <2>9. Ledger(f, 0)
    BY <1>7, <2>2, <2>4, <2>5, <2>6, <2>7, <2>8 DEF Ledger
  <2>10. \A m \in DOMAIN q : q[m] > time
    <3>1. ASSUME NEW m \in 1 .. Len(q) PROVE q[m] > time
      <4>1. n < Len(p) /\ p[n + 1] > time /\ n + 1 \in DOMAIN p
        BY <1>1, <1>2, <1>4, <3>1
      <4>2. p[n + m] \in Int /\ p[n + 1] \in Int /\ n + m \in DOMAIN p
        BY <1>1, <2>3, <4>1
      <4>3. n + m = n + 1 \/ p[n + 1] < p[n + m]
        <5>1. n \in Nat /\ m \in Nat /\ m >= 1
          BY <1>1, <1>2, <3>1
        <5>2. n + m = n + 1 \/ n + 1 < n + m
          BY <5>1
        <5> QED
          BY <2>4, <4>1, <4>2, <5>2
      <4> QED
        BY <2>3, <4>1, <4>2, <4>3
    <3> QED
      BY <2>3, <3>1
  <2> QED
    BY <2>1, <2>2, <2>9, <2>10
<1> QED
  BY <1>7, <1>9, <1>10 DEF f

-----------------------------------------------------------------------------
(* An attack. *)

LEMMA AddedIs ==
  ASSUME NEW t \in Int, NEW d \in Int, NEW u \in Added(t, d)
  PROVE  u \in Int /\ u >= t + d
<1>1. PICK x \in Rounding : u = t + d + x
  BY DEF Added
<1>2. x \in Nat
  BY UnitFacts
<1> QED
  BY <1>1, <1>2

LEMMA OnGridNatural == \A t \in Nat : OnGrid(t) \in Nat
<1> SUFFICES ASSUME NEW t \in Nat PROVE OnGrid(t) \in Nat
  OBVIOUS
<1>1. Grid \in Nat /\ Grid > 0
  BY UnitFacts
<1>2. t \div Grid \in Nat
  BY <1>1
<1>3. Grid * (t \div Grid) \in Nat
  BY <1>1, <1>2
<1> QED
  BY <1>3 DEF OnGrid

LEMMA IntervalIs ==
  ASSUME fight \in Fights, NEW e, NEW time
  PROVE  AttackInterval(e, time) \in Nat
<1>1. PICK bonus \in Nat : AttackSpeedAt(e, time) = Min({250, (65 * (100 + bonus)) \div 100})
  <2> DEFINE a == fight.bonusAttackSpeed
             b == IF time < e.qUntil THEN 60 ELSE 0
             c == IF Has("yunTal") /\ time < e.flurryUntil THEN 30 ELSE 0
             d == IF FiendhunterActiveAt(e, time) THEN 50 ELSE 0
  <2>1. a \in Nat /\ b \in Nat /\ c \in Nat /\ d \in Nat
    BY FightsAssumption
  <2>2. AttackSpeedAt(e, time) = Min({250, (65 * (100 + (a + b + c + d))) \div 100})
    BY DEF AttackSpeedAt
  <2> HIDE DEF a, b, c, d
  <2>3. a + b + c + d \in Nat
    BY <2>1
  <2> QED
    BY <2>2, <2>3
<1> DEFINE v == (65 * (100 + bonus)) \div 100
           w == Min({250, v})
<1>2. v \in Int /\ v >= 65
  OBVIOUS
<1>3. w \in Nat /\ w > 0
  <2> HIDE DEF v
  <2>1. w = IF 250 <= v THEN 250 ELSE v
    BY <1>2, MaxMinOfTwo, SMTT(30)
  <2> QED
    BY <1>2, <2>1
<1> HIDE DEF v, w
<1>4. 100 * Second \in Nat
  BY UnitFacts
<1>5. (100 * Second) \div w \in Nat
  <2>1. PICK x \in Nat : x = 100 * Second
    BY <1>4
  <2>2. x \div w \in Nat
    BY <1>3
  <2> QED
    BY <2>1, <2>2
<1>6. AttackInterval(e, time) = OnGrid((100 * Second) \div w)
  BY <1>1 DEF AttackInterval, v, w
<1> QED
  BY <1>5, <1>6, OnGridNatural

(* Until the attack deals its damage, and after it has. *)
Hushed(e, f) == Quiet(e, f) /\ SameBarrage(e, f)

LEMMA HushedOn ==
  ASSUME NEW e, NEW f, NEW g, Hushed(e, f), Hushed(f, g)
  PROVE  Hushed(e, g)
BY DEF Hushed, Quiet, SameDamage, SameAbilities, LessBarrage, SameBarrage

LEMMA AttackEffect ==
  ASSUME fight \in Fights, NEW e, Shape(e), NEW time \in Int, NEW f \in Attacked(e, time)
  PROVE  /\ Shape(f) /\ f.pendingDamage = e.pendingDamage
         /\ f.nextAttackReady \in Int /\ f.nextAttackReady >= time
         /\ SameAbilities(ApplyRExitEffects(e, time), f)
         /\ f.fiendhunterUntil = e.fiendhunterUntil /\ f.fiendhunterReadyAt = e.fiendhunterReadyAt
         /\ \E had \in BOOLEAN :
              /\ SameDamage(e, f) \/ (Logged(e, f, time, "attack", had) /\ ~IsDead(e))
              /\ had => /\ e.fiendhunterAttacks > 0 /\ time <= e.fiendhunterUntil + Epsilon
                        /\ f.fiendhunterAttacks = e.fiendhunterAttacks - 1
              /\ ~had => f.fiendhunterAttacks \in {e.fiendhunterAttacks, 0}
<1> DEFINE gone == ApplyRExitEffects(e, time)
           aged == ExpireTimedItemStates(gone, time)
           ready == AdvanceStormrazorMovement(aged, time)
           begun == [StartFlurry(ready, time) EXCEPT !.attacks = @ + 1]
           had == FiendhunterActiveAt(begun, time)
           raw == MapThenSumSet(LAMBDA s : Raw[s], AttackSources(begun, time)) + MistsEdge(begun)
           spent == [begun EXCEPT !.stormrazorStacks = IF Energized(begun) THEN 0 ELSE @]
           dealt == Add(spent, time, "attack", raw, had)
           turned == TurnTerminus(dealt, time)
           moved == [turned EXCEPT
                       !.stormrazorStacks = IF Has("stormrazor") THEN Min({100, @ + 6}) ELSE @]
           stacked == StackYunTal(moved, time, CritChance(begun))
<1>1. PICK t \in Added(time, AttackInterval(stacked, time)) :
        f = EndBarrage([stacked EXCEPT !.nextAttackReady = t], had)
  BY DEF Attacked
<1>2. t \in Int /\ t >= time
  <2> HIDE DEF stacked
  <2>1. AttackInterval(stacked, time) \in Nat
    BY IntervalIs
  <2>2. t >= time + AttackInterval(stacked, time) /\ t \in Int
    BY <2>1, AddedIs
  <2> QED
    BY <2>1, <2>2
<1>3. Shape(gone) /\ SameDamage(e, gone) /\ SameBarrage(e, gone)
  BY ExitEffect
<1>4. Quiet(gone, aged) /\ (time <= gone.fiendhunterUntil + Epsilon => SameBarrage(gone, aged))
  <2> HIDE DEF gone
  <2> QED
    BY <1>3, QuietParts
<1>5. Shape(aged)
  <2> HIDE DEF aged, gone
  <2> QED
    BY <1>3, <1>4, QuietShape
<1>6. Hushed(aged, ready) /\ Shape(ready)
  <2> HIDE DEF aged
  <2>1. Hushed(aged, ready)
    BY <1>5, QuietParts DEF Hushed
  <2> HIDE DEF ready
  <2> QED
    BY <1>5, <2>1, QuietShape DEF Hushed
<1>7. Hushed(ready, begun) /\ Shape(begun)
  <2> HIDE DEF ready
  <2>1. begun = [StartFlurry(ready, time) EXCEPT !.attacks = StartFlurry(ready, time).attacks + 1]
    OBVIOUS
  <2> HIDE DEF begun
  <2>2. Hushed(ready, begun)
    BY <1>6, <2>1, QuietParts DEF Hushed
  <2> QED
    BY <1>6, <2>2, QuietShape DEF Hushed
<1>8. Hushed(begun, spent) /\ Shape(spent)
  <2> HIDE DEF begun
  <2>1. spent = [begun EXCEPT !.stormrazorStacks =
                   IF Energized(begun) THEN 0 ELSE begun.stormrazorStacks]
    OBVIOUS
  <2> HIDE DEF spent
  <2>2. Hushed(begun, spent)
    BY <1>7, <2>1, QuietParts DEF Hushed
  <2> QED
    BY <1>7, <2>2, QuietShape DEF Hushed
<1>9. had \in BOOLEAN
  BY DEF FiendhunterActiveAt
<1> DEFINE refused == time > fight.duration \/ raw <= 0 \/ IsDead(spent)
<1>10. /\ Shape(dealt) /\ dealt.pendingDamage = spent.pendingDamage
       /\ SameAbilities(spent, dealt) /\ dealt.nextAttackReady = spent.nextAttackReady
       /\ LessBarrage(spent, dealt)
       /\ time <= spent.fiendhunterUntil + Epsilon => SameBarrage(spent, dealt)
       /\ refused => dealt = spent
       /\ ~refused => Logged(spent, dealt, time, "attack", had)
  <2> HIDE DEF spent, raw, had
  <2> QED
    BY <1>8, <1>9, AddEffect, ZenonT(30)
<1> HIDE DEF dealt
<1>11. Hushed(dealt, turned) /\ Shape(turned)
  <2>1. Hushed(dealt, turned)
    BY <1>10, QuietParts DEF Hushed
  <2> HIDE DEF turned
  <2> QED
    BY <1>10, <2>1, QuietShape DEF Hushed
<1>12. Hushed(turned, moved) /\ Shape(moved)
  <2> HIDE DEF turned
  <2>1. moved = [turned EXCEPT !.stormrazorStacks =
                   IF Has("stormrazor") THEN Min({100, turned.stormrazorStacks + 6})
                   ELSE turned.stormrazorStacks]
    OBVIOUS
  <2> HIDE DEF moved
  <2>2. Hushed(turned, moved)
    BY <1>11, <2>1, QuietParts DEF Hushed
  <2> QED
    BY <1>11, <2>2, QuietShape DEF Hushed
<1>13. Hushed(moved, stacked) /\ Shape(stacked)
  <2> DEFINE c == CritChance(begun)
  <2> HIDE DEF moved, c
  <2>1. Hushed(moved, stacked)
    BY <1>12, QuietParts DEF Hushed
  <2> HIDE DEF stacked
  <2> QED
    BY <1>12, <2>1, QuietShape DEF Hushed
<1> HIDE DEF gone, aged, ready, begun, had, raw, spent, turned, moved, stacked
<1>14. Hushed(dealt, stacked)
  BY <1>11, <1>12, <1>13, HushedOn
<1>15. /\ DOMAIN f = FieldNames /\ f.events = stacked.events
       /\ f.pendingDamage = stacked.pendingDamage /\ f.targetHealth = stacked.targetHealth
       /\ SameAbilities(stacked, f) /\ f.nextAttackReady = t
       /\ f.fiendhunterUntil = stacked.fiendhunterUntil
       /\ f.fiendhunterReadyAt = stacked.fiendhunterReadyAt
       /\ f.fiendhunterAttacks = IF had THEN stacked.fiendhunterAttacks - 1
                                 ELSE stacked.fiendhunterAttacks
  <2>1. DOMAIN stacked = FieldNames
    BY <1>13 DEF Shape
  <2> QED
    BY <1>1, <2>1 DEF EndBarrage, FieldNames, SameAbilities
<1>16. Shape(f)
  <2>1. f.fiendhunterAttacks \in Int
    BY <1>13, <1>15 DEF Shape
  <2> QED
    BY <1>2, <1>13, <1>15, <2>1 DEF Shape, SameAbilities
<1>17. Hushed(aged, spent)
  BY <1>6, <1>7, <1>8, HushedOn
<1>18. /\ SameDamage(e, spent) /\ SameAbilities(gone, spent) /\ LessBarrage(e, spent)
       /\ time <= e.fiendhunterUntil + Epsilon => SameBarrage(e, spent)
  BY <1>3, <1>4, <1>17
     DEF Hushed, Quiet, SameDamage, SameAbilities, LessBarrage, SameBarrage
<1>19. SameAbilities(gone, f) /\ f.pendingDamage = e.pendingDamage
  BY <1>10, <1>14, <1>15, <1>18 DEF Hushed, Quiet, SameDamage, SameAbilities
<1>20. SameDamage(e, f) \/ (Logged(e, f, time, "attack", had) /\ ~IsDead(e))
  <2>1. CASE refused
    BY <1>10, <1>14, <1>15, <1>18, <2>1 DEF Hushed, Quiet, SameDamage
  <2>2. CASE ~refused
    <3>1. f.events = dealt.events /\ spent.events = e.events
      BY <1>14, <1>15, <1>18 DEF Hushed, Quiet, SameDamage
    <3>2. Logged(spent, dealt, time, "attack", had)
      BY <1>10, <2>2
    <3>3. Logged(e, f, time, "attack", had)
      BY <3>1, <3>2 DEF Logged
    <3>4. ~IsDead(e)
      BY <1>18, <2>2 DEF IsDead, SameDamage
    <3> QED
      BY <3>3, <3>4
  <2> QED
    BY <2>1, <2>2
<1>21. /\ f.fiendhunterUntil = e.fiendhunterUntil /\ f.fiendhunterReadyAt = e.fiendhunterReadyAt
       /\ had => /\ e.fiendhunterAttacks > 0 /\ time <= e.fiendhunterUntil + Epsilon
                 /\ f.fiendhunterAttacks = e.fiendhunterAttacks - 1
       /\ ~had => f.fiendhunterAttacks \in {e.fiendhunterAttacks, 0}
  <2>1. /\ stacked.fiendhunterUntil = dealt.fiendhunterUntil
        /\ stacked.fiendhunterReadyAt = dealt.fiendhunterReadyAt
        /\ stacked.fiendhunterAttacks = dealt.fiendhunterAttacks
    BY <1>14 DEF Hushed, SameBarrage
  <2>2. LessBarrage(spent, dealt) /\ LessBarrage(e, spent)
    BY <1>10, <1>18
  <2>3. f.fiendhunterUntil = e.fiendhunterUntil /\ f.fiendhunterReadyAt = e.fiendhunterReadyAt
    BY <1>15, <2>1, <2>2 DEF LessBarrage
  <2>4. ASSUME had
        PROVE  /\ e.fiendhunterAttacks > 0 /\ time <= e.fiendhunterUntil + Epsilon
               /\ f.fiendhunterAttacks = e.fiendhunterAttacks - 1
    <3>1. begun.fiendhunterAttacks > 0 /\ time <= begun.fiendhunterUntil + Epsilon
      BY <2>4 DEF had, FiendhunterActiveAt
    <3>2. SameBarrage(begun, spent)
      BY <1>8 DEF Hushed
    <3>3. time <= e.fiendhunterUntil + Epsilon /\ time <= spent.fiendhunterUntil + Epsilon
      BY <2>2, <3>1, <3>2 DEF LessBarrage, SameBarrage
    <3>4. SameBarrage(e, spent) /\ SameBarrage(spent, dealt)
      BY <1>10, <1>18, <3>3
    <3> QED
      BY <1>15, <2>1, <2>4, <3>1, <3>2, <3>3, <3>4 DEF SameBarrage
  <2>5. ASSUME ~had PROVE f.fiendhunterAttacks \in {e.fiendhunterAttacks, 0}
    BY <1>15, <2>1, <2>2, <2>5 DEF LessBarrage
  <2> QED
    BY <2>3, <2>4, <2>5
<1> QED
  BY <1>2, <1>9, <1>15, <1>16, <1>19, <1>20, <1>21 DEF gone

(* A base W that hits: its tick is the last of those that are pending.      *)
LEMMA LedgerHit ==
  ASSUME NEW e, Shape(e), NEW f, NEW time \in Int, Ledger(e, 0),
         \A t \in Hits(e) : t < time, ~IsDead(e),
         Logged(e, f, time, "judgment", FALSE),
         f.pendingDamage = Append(e.pendingDamage, time + Second)
  PROVE  Ledger(f, 0) /\ Hits(f) = Hits(e) \cup {time}
<1> DEFINE p == e.pendingDamage
           q == Append(p, time + Second)
           last == Len(p) + 1
<1>1. p \in Seq(Int) /\ Second \in Nat
  BY UnitFacts DEF Shape
<1>2. /\ last \in Nat /\ last > 0 /\ DOMAIN q = DOMAIN p \cup {last} /\ q[last] = time + Second
      /\ \A m \in DOMAIN p : q[m] = p[m] /\ m < last /\ m > 0 /\ m \in Nat /\ p[m] \in Int
  <2> HIDE DEF p
  <2>1. Len(p) \in Nat /\ DOMAIN p = 1 .. Len(p) /\ Len(q) = last /\ DOMAIN q = 1 .. Len(q)
    BY <1>1
  <2> QED
    BY <1>1, <2>1
<1> HIDE DEF last
<1>3. Hits(f) = Hits(e) \cup {time} /\ Ticked(f) = Ticked(e)
  BY LoggedSets
<1>4. PICK n : /\ f.events[n].time = time
               /\ Of(f, "judgment") = Of(e, "judgment") \cup {n}
               /\ \A s : s # "judgment" => Of(f, s) = Of(e, s)
               /\ \A s : n \notin Of(e, s)
               /\ \A s : \A i \in Of(e, s) : f.events[i].time = e.events[i].time
  BY LoggedTimes, ZenonT(30)
<1>5. \A i, j \in Of(f, "judgment") : f.events[i].time = f.events[j].time => i = j
  <2>1. \A i \in Of(e, "judgment") : e.events[i].time \in Hits(e)
    BY DEF Hits
  <2>2. Hits(e) \subseteq Int
    BY TimesAre
  <2>3. \A i \in Of(e, "judgment") : f.events[i].time # time
    BY <1>4, <2>1, <2>2
  <2> QED
    BY <1>4, <2>3 DEF Ledger
<1>6. \A i, j \in Of(f, "linger") : f.events[i].time = f.events[j].time => i = j
  BY <1>4 DEF Ledger
<1>7. /\ \A m, k \in DOMAIN p : m < k => p[m] < p[k]
      /\ \A t \in Ticked(e) : t - Second \in Hits(e)
      /\ \A m \in DOMAIN p : p[m] - Second \in Hits(e)
      /\ \A t \in Ticked(e), m \in DOMAIN p : m > 0 => t < p[m]
      /\ \A t \in Hits(e) :
           \/ t + Second \in Ticked(e)
           \/ \E m \in DOMAIN p : m > 0 /\ p[m] = t + Second
           \/ t + Second > fight.duration
  BY DEF Ledger
<1> HIDE DEF p, q
<1>8. \A m, k \in DOMAIN q : m < k => q[m] < q[k]
  <2>1. \A m \in DOMAIN p : p[m] < time + Second
    BY <1>1, <1>2, <1>7
  <2>2. ASSUME NEW m \in DOMAIN q, NEW k \in DOMAIN q, m < k PROVE q[m] < q[k]
    <3>1. m \in DOMAIN p
      BY <1>2, <2>2
    <3> QED
      BY <1>2, <1>7, <2>1, <2>2, <3>1
  <2> QED
    BY <2>2
<1>9. \A m \in DOMAIN q : q[m] - Second \in Hits(f)
  <2>1. q[last] - Second = time
    BY <1>1, <1>2
  <2> QED
    BY <1>2, <1>3, <1>7, <2>1
<1>10. \A t \in Ticked(f), m \in DOMAIN q : m > 0 => t < q[m]
  <2>1. \A t \in Ticked(e) : t < time + Second
    <3>1. Ticked(e) \subseteq Int
      BY TimesAre
    <3> QED
      BY <1>1, <1>7, <3>1
  <2> QED
    BY <1>2, <1>3, <1>7, <2>1
<1>11. ASSUME NEW t \in Hits(f)
       PROVE  \/ t + Second \in Ticked(f)
              \/ \E m \in DOMAIN q : m > 0 /\ q[m] = t + Second
              \/ t + Second > fight.duration
  BY <1>2, <1>3, <1>7
<1>12. f.pendingDamage = q
  BY DEF p, q
<1> QED
  BY <1>3, <1>5, <1>6, <1>7, <1>8, <1>9, <1>10, <1>11, <1>12 DEF Ledger

-----------------------------------------------------------------------------
(* The fight, turn by turn. *)

FightType ==
  /\ fight \in Fights /\ Shape(engine) /\ cursor \in Nat /\ nextAuto \in Int
  /\ phase \in {"script", "autos", "done"}

(* An engine whose hits of W lie before a time. *)
Sound(e, now) == Shape(e) /\ Ledger(e, 0) /\ \A t \in Hits(e) : t < now

LedgerInv ==
  /\ FightType
  /\ Ledger(engine, 0)
  /\ \A t \in Hits(engine) : t < cursor
  /\ phase = "done" => \A m \in DOMAIN engine.pendingDamage : engine.pendingDamage[m] > fight.duration

LEMMA SoundStages ==
  ASSUME NEW e, NEW now, Sound(e, now), NEW time \in Int
  PROVE  Sound(DrainDamageThrough(e, time), now) /\ Sound(ApplyRExitEffects(e, time), now)
<1>1. Sound(DrainDamageThrough(e, time), now)
  BY DrainEffect DEF Sound, Waits
<1>2. Sound(ApplyRExitEffects(e, time), now)
  <2> DEFINE f == ApplyRExitEffects(e, time)
  <2>1. Shape(f) /\ SameDamage(e, f)
    BY ExitEffect DEF Sound
  <2> HIDE DEF f
  <2> QED
    BY <2>1, LedgerSame DEF Sound, f
<1> QED
  BY <1>1, <1>2

LEMMA SoundAttacks ==
  ASSUME fight \in Fights, NEW e, NEW now, Sound(e, now), NEW time \in Int, NEW f \in Attack(e, time)
  PROVE  Sound(f, now)
<1> DEFINE d == DrainDamageThrough(e, time)
<1>1. Sound(d, now)
  BY SoundStages
<1>2. f = e \/ f = d \/ f \in Attacked(d, time)
  BY DEF Attack
<1> HIDE DEF d
<1>3. CASE f \in Attacked(d, time)
  <2>1. Shape(d) /\ Ledger(d, 0)
    BY <1>1 DEF Sound
  <2>2. Shape(f) /\ f.pendingDamage = d.pendingDamage
    BY <1>3, <2>1, AttackEffect
  <2>3. \E had \in BOOLEAN : SameDamage(d, f) \/ (Logged(d, f, time, "attack", had) /\ ~IsDead(d))
    BY <1>3, <2>1, AttackEffect
  <2>4. Ledger(f, 0) /\ Hits(f) = Hits(d)
    BY <2>1, <2>2, <2>3, LedgerSame, LedgerOther
  <2> QED
    BY <1>1, <2>2, <2>4 DEF Sound
<1> QED
  BY <1>1, <1>2, <1>3

(* What a turn begins with. *)
LEMMA SoundTurn ==
  ASSUME LedgerInv, phase = "script"
  PROVE  /\ Sound(Drained, cursor) /\ Sound(Ready, cursor)
         /\ \A time \in Int : /\ Sound(DrainDamageThrough(Ready, time), cursor)
                              /\ Sound(CastReady(time), cursor)
                              /\ IsDead(CastReady(time)) <=> IsDead(DrainDamageThrough(Ready, time))
<1>1. Sound(engine, cursor) /\ cursor \in Int
  BY DEF LedgerInv, FightType, Sound
<1>2. Sound(Drained, cursor)
  BY <1>1, SoundStages DEF Drained
<1>3. Sound(Ready, cursor)
  BY <1>1, <1>2, SoundStages DEF Ready
<1>4. ASSUME NEW time \in Int
      PROVE  /\ Sound(DrainDamageThrough(Ready, time), cursor)
             /\ Sound(CastReady(time), cursor)
             /\ IsDead(CastReady(time)) <=> IsDead(DrainDamageThrough(Ready, time))
  <2> DEFINE d == DrainDamageThrough(Ready, time)
  <2>1. Sound(d, cursor)
    BY <1>3, SoundStages
  <2> HIDE DEF d
  <2>2. Sound(ApplyRExitEffects(d, time), cursor)
    BY <2>1, SoundStages
  <2>3. SameDamage(d, ApplyRExitEffects(d, time))
    BY <2>1, ExitEffect DEF Sound
  <2>4. IsDead(ApplyRExitEffects(d, time)) <=> IsDead(d)
    BY <2>3, LedgerSame
  <2> QED
    BY <2>1, <2>2, <2>4 DEF CastReady, d
<1> QED
  BY <1>2, <1>3, <1>4

LEMMA CooldownsAre ==
  ASSUME fight \in Fights
  PROVE  RCooldown \in Nat /\ WCooldown \in Nat /\ ECooldown \in Nat
<1>1. ASSUME NEW base \in Nat, NEW haste \in Nat PROVE CooldownWithHaste(base, haste) \in Nat
  <2> DEFINE x == Seconds(base) * 100
             v == 100 + haste
  <2>1. Seconds(base) \in Nat
    <3>1. Second \in Nat
      BY UnitFacts
    <3> QED
      BY <3>1 DEF Seconds
  <2>2. x \in Nat /\ v \in Nat /\ v > 0
    BY <2>1
  <2> HIDE DEF x, v
  <2>3. x \div v \in Nat
    BY <2>2
  <2>4. OnGrid(x \div v) \in Nat
    BY <2>3, OnGridNatural
  <2> QED
    BY <2>4 DEF CooldownWithHaste, x, v
<1> DEFINE h == fight.haste
           i == fight.haste + (IF Has("fiendhunter") THEN 30 ELSE 0)
<1>2. h \in Nat /\ i \in Nat
  BY FightsAssumption
<1>3. /\ RCooldown = CooldownWithHaste(80, i) /\ WCooldown = CooldownWithHaste(10, h)
      /\ ECooldown = CooldownWithHaste(9, h)
  BY DEF RCooldown, WCooldown, ECooldown
<1> HIDE DEF h, i
<1> QED
  BY <1>1, <1>2, <1>3

(* What R does to an engine, and Q and E.                                   *)
CastRAt(e, time) ==
  [e EXCEPT !.rUntil = time + Seconds(15), !.rExitHandled = FALSE,
            !.qUntil = Max({@, time + Seconds(15)}),
            !.wReadyAt = Reduced(@, time), !.eReadyAt = time,
            !.rReadyAt = time + RCooldown]

LEMMA CastREffect ==
  ASSUME fight \in Fights, NEW e, Shape(e), NEW time \in Int
  PROVE  LET f == ActivateFiendhunter(CastRAt(e, time), time)
         IN  /\ Shape(f) /\ SameDamage(e, f) /\ f.nextAttackReady = e.nextAttackReady
             /\ f.rUntil = time + Seconds(15) /\ f.rExitHandled = FALSE
             /\ f.wReadyAt = Reduced(e.wReadyAt, time) /\ f.eReadyAt = time
             /\ f.rReadyAt = time + RCooldown
             /\ \/ SameBarrage(e, f)
                \/ /\ time + Epsilon >= e.fiendhunterReadyAt
                   /\ f.fiendhunterUntil = time + Seconds(8)
                   /\ f.fiendhunterReadyAt = time + Seconds(45)
                   /\ f.fiendhunterAttacks = 3
<1> DEFINE c == CastRAt(e, time)
           f == ActivateFiendhunter(c, time)
<1>1. /\ DOMAIN c = FieldNames /\ SameDamage(e, c) /\ c.nextAttackReady = e.nextAttackReady
      /\ c.rUntil = time + Seconds(15) /\ c.rExitHandled = FALSE
      /\ c.wReadyAt = Reduced(e.wReadyAt, time) /\ c.eReadyAt = time
      /\ c.rReadyAt = time + RCooldown /\ SameBarrage(e, c)
  <2>1. DOMAIN e = FieldNames
    BY DEF Shape
  <2>2. PICK q : c = [e EXCEPT !.rUntil = time + Seconds(15), !.rExitHandled = FALSE,
                               !.qUntil = q, !.wReadyAt = Reduced(e.wReadyAt, time),
                               !.eReadyAt = time, !.rReadyAt = time + RCooldown]
    BY DEF CastRAt
  <2> HIDE DEF c
  <2> QED
    BY <2>1, <2>2 DEF FieldNames, SameDamage, SameBarrage
<1>2. /\ time + Seconds(15) \in Int /\ time + Seconds(8) \in Int /\ time + Seconds(45) \in Int
      /\ Reduced(e.wReadyAt, time) \in Int /\ time + RCooldown \in Int
  <2>1. Seconds(15) \in Int /\ Seconds(8) \in Int /\ Seconds(45) \in Int
    BY SecondsFacts
  <2>2. RCooldown \in Nat
    BY CooldownsAre
  <2>3. Reduced(e.wReadyAt, time) \in Int
    BY ReducedIs DEF Shape
  <2> QED
    BY <2>1, <2>2, <2>3
<1> HIDE DEF c
<1>3. Shape(c)
  BY <1>1, <1>2 DEF Shape, SameDamage, SameBarrage
<1>4. /\ DOMAIN f = FieldNames /\ SameDamage(c, f) /\ f.nextAttackReady = c.nextAttackReady
      /\ SameAbilities(c, f)
      /\ \/ SameBarrage(c, f)
         \/ /\ ~(time + Epsilon < c.fiendhunterReadyAt)
            /\ f.fiendhunterUntil = time + Seconds(8)
            /\ f.fiendhunterReadyAt = time + Seconds(45)
            /\ f.fiendhunterAttacks = 3
  BY <1>1 DEF ActivateFiendhunter, FieldNames, SameDamage, SameAbilities, SameBarrage
<1> HIDE DEF f
<1>5. Shape(f)
  <2>1. /\ f.fiendhunterUntil \in Int /\ f.fiendhunterReadyAt \in Int /\ f.fiendhunterAttacks \in Int
    <3>1. CASE SameBarrage(c, f)
      BY <1>3, <3>1 DEF Shape, SameBarrage
    <3>2. CASE ~SameBarrage(c, f)
      BY <1>2, <1>4, <3>2
    <3> QED
      BY <3>1, <3>2
  <2> QED
    BY <1>3, <1>4, <2>1 DEF Shape, SameDamage, SameAbilities
<1>6. ~(time + Epsilon < c.fiendhunterReadyAt) => time + Epsilon >= e.fiendhunterReadyAt
  <2>1. c.fiendhunterReadyAt = e.fiendhunterReadyAt /\ e.fiendhunterReadyAt \in Int /\ Epsilon \in Int
    BY <1>1, UnitFacts DEF SameBarrage, Shape
  <2> QED
    BY <2>1
<1>7. SameDamage(e, f) /\ f.nextAttackReady = e.nextAttackReady
  BY <1>1, <1>4 DEF SameDamage
<1>8. /\ f.rUntil = time + Seconds(15) /\ f.rExitHandled = FALSE
      /\ f.wReadyAt = Reduced(e.wReadyAt, time) /\ f.eReadyAt = time
      /\ f.rReadyAt = time + RCooldown
  BY <1>1, <1>4 DEF SameAbilities
<1>9. \/ SameBarrage(e, f)
      \/ /\ time + Epsilon >= e.fiendhunterReadyAt
         /\ f.fiendhunterUntil = time + Seconds(8)
         /\ f.fiendhunterReadyAt = time + Seconds(45)
         /\ f.fiendhunterAttacks = 3
  <2>1. SameBarrage(c, f) => SameBarrage(e, f)
    BY <1>1 DEF SameBarrage
  <2> QED
    BY <1>4, <1>6, <2>1
<1> QED
  BY <1>5, <1>7, <1>8, <1>9 DEF f, c

LEMMA CastQEEffect ==
  ASSUME NEW e, Shape(e), NEW time \in Int
  PROVE  /\ \A n : LET f == [e EXCEPT !.qUntil = n]
                   IN  Shape(f) /\ SameDamage(e, f) /\ SameAbilities(e, f) /\ SameBarrage(e, f)
         /\ LET f == [e EXCEPT !.eReadyAt = time]
            IN  /\ Shape(f) /\ SameDamage(e, f) /\ SameBarrage(e, f)
                /\ f.rUntil = e.rUntil /\ f.rExitHandled = e.rExitHandled
                /\ f.wReadyAt = e.wReadyAt /\ f.rReadyAt = e.rReadyAt /\ f.eReadyAt = time
<1>1. DOMAIN e = FieldNames
  BY DEF Shape
<1>2. ASSUME NEW n
      PROVE  LET f == [e EXCEPT !.qUntil = n]
             IN  Shape(f) /\ SameDamage(e, f) /\ SameAbilities(e, f) /\ SameBarrage(e, f)
  <2> DEFINE f == [e EXCEPT !.qUntil = n]
  <2>1. /\ DOMAIN f = FieldNames /\ SameDamage(e, f) /\ SameAbilities(e, f) /\ SameBarrage(e, f)
        /\ f.nextAttackReady = e.nextAttackReady
    BY <1>1 DEF FieldNames, SameDamage, SameAbilities, SameBarrage
  <2> HIDE DEF f
  <2>2. Shape(f)
    BY <2>1 DEF Shape, SameDamage, SameAbilities, SameBarrage
  <2> QED
    BY <2>1, <2>2 DEF f
<1>3. LET f == [e EXCEPT !.eReadyAt = time]
      IN  /\ Shape(f) /\ SameDamage(e, f) /\ SameBarrage(e, f)
          /\ f.rUntil = e.rUntil /\ f.rExitHandled = e.rExitHandled
          /\ f.wReadyAt = e.wReadyAt /\ f.rReadyAt = e.rReadyAt /\ f.eReadyAt = time
  <2> DEFINE f == [e EXCEPT !.eReadyAt = time]
  <2>1. /\ DOMAIN f = FieldNames /\ SameDamage(e, f) /\ SameBarrage(e, f)
        /\ f.rUntil = e.rUntil /\ f.rExitHandled = e.rExitHandled
        /\ f.wReadyAt = e.wReadyAt /\ f.rReadyAt = e.rReadyAt /\ f.eReadyAt = time
        /\ f.nextAttackReady = e.nextAttackReady
    BY <1>1 DEF FieldNames, SameDamage, SameBarrage
  <2> HIDE DEF f
  <2>2. Shape(f)
    BY <2>1 DEF Shape, SameDamage, SameBarrage
  <2> QED
    BY <2>1, <2>2 DEF f
<1> QED
  BY <1>2, <1>3

(* What a W that is cast does: a hit, of R or with a tick that is due later. *)
Hit(e, time) ==
  IF time < e.rUntil THEN Add(e, time, "ruin", Raw["ruin"], FALSE)
  ELSE [Add(e, time, "judgment", Raw["judgment"], FALSE) EXCEPT
          !.pendingDamage = Append(@, time + Second)]

LEMMA CastWEffect ==
  ASSUME fight \in Fights, NEW e, Shape(e), NEW time \in Int, time <= fight.duration, ~IsDead(e)
  PROVE  LET f == [Hit(e, time) EXCEPT !.wReadyAt = time + WCooldown]
         IN  /\ Shape(f) /\ LessBarrage(e, f) /\ SameVolley(e, f)
             /\ f.rUntil = e.rUntil /\ f.rExitHandled = e.rExitHandled
             /\ f.eReadyAt = e.eReadyAt /\ f.rReadyAt = e.rReadyAt
             /\ f.wReadyAt = time + WCooldown
             /\ \/ SameDamage(e, f)
                \/ f.pendingDamage = e.pendingDamage /\ Logged(e, f, time, "ruin", FALSE)
                \/ /\ f.pendingDamage = Append(e.pendingDamage, time + Second)
                   /\ Logged(e, f, time, "judgment", FALSE)
<1> DEFINE f == [Hit(e, time) EXCEPT !.wReadyAt = time + WCooldown]
<1>1. FALSE \in BOOLEAN /\ time + WCooldown \in Int /\ time + Second \in Int
      /\ ~(time > fight.duration)
  <2>1. WCooldown \in Nat /\ Second \in Nat
    BY CooldownsAre, UnitFacts
  <2>2. fight.duration \in Nat
    BY FightsAssumption
  <2> QED
    BY <2>1, <2>2
<1>2. PICK g :
        /\ f = [g EXCEPT !.wReadyAt = time + WCooldown]
        /\ Shape(g) /\ SameAbilities(e, g) /\ LessBarrage(e, g) /\ SameVolley(e, g)
        /\ \/ SameDamage(e, g)
           \/ g.pendingDamage = e.pendingDamage /\ Logged(e, g, time, "ruin", FALSE)
           \/ /\ g.pendingDamage = Append(e.pendingDamage, time + Second)
              /\ Logged(e, g, time, "judgment", FALSE)
  <2>1. CASE time < e.rUntil
    <3> DEFINE raw == Raw["ruin"]
               g == Add(e, time, "ruin", raw, FALSE)
               refused == time > fight.duration \/ raw <= 0 \/ IsDead(e)
    <3>1. f = [g EXCEPT !.wReadyAt = time + WCooldown]
      BY <2>1 DEF Hit
    <3> HIDE DEF raw, f
    <3>0. /\ Shape(g) /\ g.pendingDamage = e.pendingDamage
          /\ SameAbilities(e, g) /\ g.nextAttackReady = e.nextAttackReady
          /\ LessBarrage(e, g)
          /\ (time <= e.fiendhunterUntil + Epsilon) => SameBarrage(e, g)
          /\ refused => g = e
          /\ ~refused => Logged(e, g, time, "ruin", FALSE)
      BY <1>1, AddEffect, ZenonT(30)
    <3>2. /\ Shape(g) /\ SameAbilities(e, g) /\ LessBarrage(e, g)
          /\ g.pendingDamage = e.pendingDamage
          /\ refused => g = e
          /\ ~refused => Logged(e, g, time, "ruin", FALSE)
      BY <3>0
    <3> HIDE DEF g
    <3>3. SameVolley(e, g)
      <4>1. refused => SameVolley(e, g)
        BY <3>2 DEF SameVolley
      <4>2. ~refused => SameVolley(e, g)
        BY <1>1, <3>2, LoggedVolley
      <4> QED
        BY <4>1, <4>2
    <3>4. SameDamage(e, g) \/ Logged(e, g, time, "ruin", FALSE)
      BY <3>2 DEF SameDamage
    <3> QED
      BY <3>1, <3>2, <3>3, <3>4
  <2>2. CASE ~(time < e.rUntil)
    <3> DEFINE raw == Raw["judgment"]
               h == Add(e, time, "judgment", raw, FALSE)
               refused == time > fight.duration \/ raw <= 0 \/ IsDead(e)
               g == [h EXCEPT !.pendingDamage = Append(@, time + Second)]
    <3>1. f = [g EXCEPT !.wReadyAt = time + WCooldown]
      BY <2>2 DEF Hit
    <3>2. ~(raw <= 0)
      BY FightsAssumption
    <3> HIDE DEF raw, f
    <3>0. /\ Shape(h) /\ h.pendingDamage = e.pendingDamage
          /\ SameAbilities(e, h) /\ h.nextAttackReady = e.nextAttackReady
          /\ LessBarrage(e, h)
          /\ (time <= e.fiendhunterUntil + Epsilon) => SameBarrage(e, h)
          /\ refused => h = e
          /\ ~refused => Logged(e, h, time, "judgment", FALSE)
      BY <1>1, AddEffect, ZenonT(30)
    <3>3. /\ Shape(h) /\ SameAbilities(e, h) /\ LessBarrage(e, h)
          /\ h.pendingDamage = e.pendingDamage
          /\ ~refused => Logged(e, h, time, "judgment", FALSE)
      BY <3>0
    <3> HIDE DEF h
    <3>4. Logged(e, h, time, "judgment", FALSE)
      BY <1>1, <3>2, <3>3
    <3>5. SameVolley(e, h)
      BY <1>1, <3>4, LoggedVolley
    <3>6. /\ DOMAIN g = FieldNames /\ SameAbilities(h, g) /\ SameBarrage(h, g) /\ g.events = h.events
          /\ g.nextAttackReady = h.nextAttackReady
          /\ g.pendingDamage = Append(e.pendingDamage, time + Second)
      <4>1. DOMAIN h = FieldNames
        BY <3>3 DEF Shape
      <4> QED
        BY <3>3, <4>1 DEF FieldNames, SameAbilities, SameBarrage
    <3> HIDE DEF g
    <3>7. g.pendingDamage \in Seq(Int)
      <4>1. e.pendingDamage \in Seq(Int)
        BY DEF Shape
      <4> QED
        BY <1>1, <3>6, <4>1
    <3>8. Shape(g)
      BY <3>3, <3>6, <3>7 DEF Shape, SameAbilities, SameBarrage
    <3>9. /\ SameAbilities(e, g) /\ LessBarrage(e, g)
      BY <3>3, <3>6 DEF SameAbilities, SameBarrage, LessBarrage
    <3>10. SameVolley(e, g) /\ Logged(e, g, time, "judgment", FALSE)
      BY <3>4, <3>5, <3>6 DEF SameVolley, BarrageOf, Logged
    <3> QED
      BY <3>1, <3>6, <3>8, <3>9, <3>10
  <2> QED
    BY <2>1, <2>2
<1>3. /\ DOMAIN f = FieldNames /\ SameDamage(g, f) /\ SameBarrage(g, f)
      /\ f.rUntil = g.rUntil /\ f.rExitHandled = g.rExitHandled
      /\ f.eReadyAt = g.eReadyAt /\ f.rReadyAt = g.rReadyAt
      /\ f.wReadyAt = time + WCooldown /\ f.nextAttackReady = g.nextAttackReady
  <2>1. DOMAIN g = FieldNames
    BY <1>2 DEF Shape
  <2> HIDE DEF f
  <2> QED
    BY <1>2, <2>1 DEF FieldNames, SameDamage, SameBarrage
<1> HIDE DEF f
<1>4. Shape(f)
  BY <1>1, <1>2, <1>3 DEF Shape, SameDamage, SameBarrage
<1>5. LessBarrage(e, f) /\ SameVolley(e, f)
  BY <1>2, <1>3 DEF LessBarrage, SameBarrage, SameVolley, BarrageOf, SameDamage
<1>6. \/ SameDamage(e, f)
      \/ f.pendingDamage = e.pendingDamage /\ Logged(e, f, time, "ruin", FALSE)
      \/ /\ f.pendingDamage = Append(e.pendingDamage, time + Second)
         /\ Logged(e, f, time, "judgment", FALSE)
  BY <1>2, <1>3 DEF SameDamage, Logged
<1>7. /\ f.rUntil = e.rUntil /\ f.rExitHandled = e.rExitHandled
      /\ f.eReadyAt = e.eReadyAt /\ f.rReadyAt = e.rReadyAt
  BY <1>2, <1>3 DEF SameAbilities
<1> QED
  BY <1>3, <1>4, <1>5, <1>6, <1>7 DEF f

LEMMA SoundSame ==
  ASSUME NEW e, NEW now, Sound(e, now), NEW f, Shape(f), SameDamage(e, f)
  PROVE  Sound(f, now)
BY LedgerSame DEF Sound

LEMMA SoundLater ==
  ASSUME NEW e, NEW now \in Int, Sound(e, now), NEW later \in Int, now <= later
  PROVE  Sound(e, later)
<1>1. Hits(e) \subseteq Int
  BY TimesAre DEF Sound
<1> QED
  BY <1>1 DEF Sound

(* How long a cast keeps the attacker.                                      *)
LEMMA LocksAre ==
  /\ Second \div 2 \in Nat /\ Second \div 2 >= 1 /\ 4 * (Second \div 2) >= Grid
  /\ Second \div 4 \in Nat
<1>1. Second \in Nat /\ Second >= 2 /\ Grid <= Second
  BY UnitFacts
<1>2. PICK s \in Nat : s = Second
  BY <1>1
<1>3. s \div 2 \in Nat /\ s \div 2 >= 1 /\ 4 * (s \div 2) >= s /\ s \div 4 \in Nat
  BY <1>1, <1>2
<1> QED
  BY <1>1, <1>2, <1>3, UnitFacts

LEMMA LaterOf ==
  ASSUME NEW a \in Int, NEW b \in Int
  PROVE  /\ Max({a, b}) \in Int /\ Max({a, b}) >= a /\ Max({a, b}) >= b
         /\ Max({a, b}) = a \/ Max({a, b}) = b
BY MaxMinOfTwo

(* When a cast is made, and until when it keeps the attacker.               *)
LEMMA TurnTimes ==
  ASSUME LedgerInv, phase = "script"
  PROVE  /\ cursor \in Int
         /\ Ready.rReadyAt \in Int /\ Ready.wReadyAt \in Int /\ Ready.eReadyAt \in Int
         /\ Ready.nextAttackReady \in Int
         /\ \A time \in Int, lock \in Nat : \A c \in Added(time, lock) :
              c \in Int /\ c >= time + lock /\ (time >= cursor => c \in Nat)
<1>1. cursor \in Nat
  BY DEF LedgerInv, FightType
<1>2. Shape(Ready)
  BY SoundTurn DEF Sound
<1>3. ASSUME NEW time \in Int, NEW lock \in Nat, NEW c \in Added(time, lock)
      PROVE  c \in Int /\ c >= time + lock /\ (time >= cursor => c \in Nat)
  <2>1. c \in Int /\ c >= time + lock
    BY <1>3, AddedIs
  <2> QED
    BY <1>1, <1>3, <2>1
<1>4. /\ Ready.rReadyAt \in Int /\ Ready.wReadyAt \in Int /\ Ready.eReadyAt \in Int
      /\ Ready.nextAttackReady \in Int
  BY <1>2 DEF Shape
<1> QED
  BY <1>1, <1>3, <1>4

LEMMA BusyKeeps ==
  ASSUME LedgerInv, phase = "script", NEW e, NEW time \in Int, time >= cursor,
         NEW action, NEW lock \in Nat, Busy(e, time, action, lock),
         Sound(e, time + lock)
  PROVE  LedgerInv'
<1>1. /\ fight' = fight /\ nextAuto' = nextAuto /\ phase' = phase /\ engine' = e
      /\ cursor' \in Added(time, lock)
  BY DEF Busy
<1>2. cursor' \in Nat /\ cursor' >= time + lock
  BY <1>1, TurnTimes
<1>3. Sound(e, cursor')
  <2>1. cursor' \in Int /\ time + lock \in Int
    BY <1>2
  <2> QED
    BY <1>2, <2>1, SoundLater
<1>4. Shape(engine')
  BY <1>1, <1>3 DEF Sound
<1>5. FightType'
  BY <1>1, <1>2, <1>4 DEF LedgerInv, FightType
<1>6. Ledger(engine, 0)' /\ \A t \in Hits(engine') : t < cursor'
  BY <1>1, <1>3 DEF Sound, Ledger, IsDead, Hits, Ticked, Of
<1> QED
  BY <1>1, <1>5, <1>6 DEF LedgerInv, Hits, Of

LEMMA LeaveKeeps ==
  ASSUME LedgerInv, phase = "script", NEW e, Sound(e, cursor), LeaveScript(e)
  PROVE  LedgerInv'
<1>1. /\ fight' = fight /\ cursor' = cursor /\ phase' = "autos" /\ engine' = e
      /\ nextAuto' = Max({cursor, e.nextAttackReady})
  BY DEF LeaveScript
<1>2. nextAuto' \in Int
  <2>1. cursor \in Int /\ e.nextAttackReady \in Int
    BY DEF LedgerInv, FightType, Sound, Shape
  <2> QED
    BY <1>1, <2>1, LaterOf
<1>3. FightType'
  BY <1>1, <1>2 DEF LedgerInv, FightType, Sound
<1>4. Ledger(engine, 0)' /\ \A t \in Hits(engine') : t < cursor'
  BY <1>1 DEF Sound, Ledger, IsDead, Hits, Ticked, Of
<1> QED
  BY <1>1, <1>3, <1>4 DEF LedgerInv, Hits, Of

LEMMA LedgerInit == FightInit => LedgerInv
<1> SUFFICES ASSUME FightInit PROVE LedgerInv
  OBVIOUS
<1>1. /\ fight \in Fights /\ engine = NewEngine(fight) /\ cursor = 0 /\ nextAuto = 0 /\ phase = "script"
  BY DEF FightInit
<1>2. /\ DOMAIN engine = FieldNames /\ engine.events = <<>> /\ engine.pendingDamage = <<>>
      /\ engine.rUntil = NoTime /\ engine.rExitHandled = TRUE
      /\ engine.wReadyAt = 0 /\ engine.eReadyAt = 0 /\ engine.rReadyAt = 0
      /\ engine.nextAttackReady = 0 /\ engine.fiendhunterUntil = NoTime
      /\ engine.fiendhunterReadyAt = 0 /\ engine.fiendhunterAttacks = 0
  BY <1>1 DEF NewEngine, FieldNames
<1>3. NoTime \in Int
  BY UnitFacts DEF NoTime
<1>4. <<>> \in Seq({}) /\ <<>> \in Seq(Int) /\ DOMAIN (<<>>) = {}
  OBVIOUS
<1>5. Shape(engine)
  <2>1. {engine.events[i] : i \in DOMAIN engine.events} = {}
    BY <1>2, <1>4
  <2>2. engine.events \in Seq({engine.events[i] : i \in DOMAIN engine.events})
    BY <1>2, <1>4, <2>1
  <2>3. \A i \in DOMAIN engine.events :
          engine.events[i].time \in Int /\ engine.events[i].barrage \in BOOLEAN
    BY <1>2, <1>4
  <2>4. engine.pendingDamage \in Seq(Int) /\ 0 \in Int /\ TRUE \in BOOLEAN
    BY <1>2, <1>4
  <2> QED
    BY <1>2, <1>3, <2>2, <2>3, <2>4 DEF Shape
<1>6. Ledger(engine, 0) /\ Hits(engine) = {}
  BY <1>2, <1>4 DEF Ledger, Hits, Ticked, Of
<1> QED
  BY <1>1, <1>5, <1>6 DEF LedgerInv, FightType

LEMMA ScriptKeepsLedger ==
  ASSUME LedgerInv,
         CastR \/ CastQ \/ CastW \/ CastE \/ AA \/ Unlearned
  PROVE  LedgerInv'
<1>1. phase = "script"
  BY DEF CastR, CastQ, CastW, CastE, AA, Unlearned, Turn
<1>2. /\ cursor \in Int /\ fight \in Fights
      /\ Ready.rReadyAt \in Int /\ Ready.wReadyAt \in Int /\ Ready.eReadyAt \in Int
      /\ Ready.nextAttackReady \in Int
  BY <1>1, TurnTimes DEF LedgerInv, FightType
<1>3. Sound(Ready, cursor)
  BY <1>1, SoundTurn
<1>4. ASSUME NEW time \in Int, NEW lock \in Nat, time >= cursor, NEW e, Sound(e, cursor)
      PROVE  Sound(e, time + lock)
  <2>1. time + lock \in Int /\ cursor <= time + lock
    BY <1>2, <1>4
  <2> QED
    BY <1>2, <1>4, <2>1, SoundLater
<1>5. CASE CastR
  <2> DEFINE time == Max({cursor, Ready.rReadyAt})
             e == CastReady(time)
             f == ActivateFiendhunter(CastRAt(e, time), time)
  <2>1. time \in Int /\ time >= cursor
    BY <1>2, LaterOf
  <2>2. \/ LeaveScript(DrainDamageThrough(Ready, time))
        \/ Busy(f, time, "R", Second \div 4)
    BY <1>5 DEF CastR, CastRAt
  <2> HIDE DEF time
  <2>3. Sound(DrainDamageThrough(Ready, time), cursor) /\ Sound(e, cursor)
    BY <1>1, <2>1, SoundTurn
  <2> HIDE DEF e
  <2>4. Sound(f, cursor)
    <3>1. Shape(f) /\ SameDamage(e, f)
      BY <1>2, <2>1, <2>3, CastREffect DEF Sound
    <3> HIDE DEF f
    <3> QED
      BY <2>3, <3>1, SoundSame
  <2> HIDE DEF f
  <2>5. Sound(f, time + Second \div 4)
    BY <1>4, <2>1, <2>4, LocksAre
  <2> QED
    BY <1>1, <2>1, <2>2, <2>3, <2>5, BusyKeeps, LeaveKeeps, LocksAre
<1>6. CASE CastQ
  <2> DEFINE n == Max({Ready.qUntil, cursor + Seconds(5)})
             f == [Ready EXCEPT !.qUntil = n]
  <2>1. Busy(f, cursor, "Q", Second \div 4)
    BY <1>6 DEF CastQ
  <2> HIDE DEF n
  <2>2. Shape(f) /\ SameDamage(Ready, f)
    BY <1>2, <1>3, CastQEEffect DEF Sound
  <2> HIDE DEF f
  <2>3. Sound(f, cursor)
    BY <1>3, <2>2, SoundSame
  <2>4. Sound(f, cursor + Second \div 4) /\ cursor >= cursor
    BY <1>2, <1>4, <2>3, LocksAre
  <2> QED
    BY <1>1, <1>2, <2>1, <2>4, BusyKeeps, LocksAre
<1>7. CASE CastW
  <2> DEFINE time == Max({cursor, Ready.wReadyAt})
             e == CastReady(time)
             f == [Hit(e, time) EXCEPT !.wReadyAt = time + WCooldown]
  <2>1. time \in Int /\ time >= cursor
    BY <1>2, LaterOf
  <2>2. \/ LeaveScript(DrainDamageThrough(Ready, time))
        \/ ~CastEnds(time) /\ Busy(f, time, "W", Second \div 2)
    BY <1>7 DEF CastW, Hit
  <2> HIDE DEF time
  <2>3. /\ Sound(DrainDamageThrough(Ready, time), cursor) /\ Sound(e, cursor)
        /\ IsDead(e) <=> IsDead(DrainDamageThrough(Ready, time))
    BY <1>1, <2>1, SoundTurn
  <2> HIDE DEF e
  <2>4. CASE ~CastEnds(time) /\ Busy(f, time, "W", Second \div 2)
    <3>1. ~IsDead(e) /\ time <= fight.duration
      <4>1. fight.duration \in Nat
        BY <1>2, FightsAssumption
      <4> QED
        BY <2>1, <2>3, <2>4, <4>1 DEF CastEnds
    <3>2. /\ Shape(f)
          /\ \/ SameDamage(e, f)
             \/ f.pendingDamage = e.pendingDamage /\ Logged(e, f, time, "ruin", FALSE)
             \/ /\ f.pendingDamage = Append(e.pendingDamage, time + Second)
                /\ Logged(e, f, time, "judgment", FALSE)
      BY <1>2, <2>1, <2>3, <3>1, CastWEffect DEF Sound
    <3> HIDE DEF f
    <3>3. Ledger(f, 0) /\ (Hits(f) = Hits(e) \/ Hits(f) = Hits(e) \cup {time})
      <4>1. Shape(e) /\ Ledger(e, 0) /\ \A t \in Hits(e) : t < time
        <5>1. Hits(e) \subseteq Int
          BY <2>3, TimesAre DEF Sound
        <5> QED
          BY <1>2, <2>1, <2>3, <5>1 DEF Sound
      <4>2. CASE SameDamage(e, f)
        BY <4>1, <4>2, LedgerSame
      <4>3. CASE f.pendingDamage = e.pendingDamage /\ Logged(e, f, time, "ruin", FALSE)
        BY <3>1, <4>1, <4>3, LedgerOther
      <4>4. CASE /\ f.pendingDamage = Append(e.pendingDamage, time + Second)
                 /\ Logged(e, f, time, "judgment", FALSE)
        BY <2>1, <3>1, <4>1, <4>4, LedgerHit
      <4> QED
        BY <3>2, <4>2, <4>3, <4>4
    <3>4. Sound(f, time + Second \div 2)
      <4>1. Hits(e) \subseteq Int
        BY <2>3, TimesAre DEF Sound
      <4>2. \A t \in Hits(e) : t < time + Second \div 2
        BY <1>2, <2>1, <2>3, <4>1, LocksAre DEF Sound
      <4>3. time < time + Second \div 2
        BY <2>1, LocksAre
      <4> QED
        BY <3>2, <3>3, <4>2, <4>3 DEF Sound
    <3> QED
      BY <1>1, <2>1, <2>4, <3>4, BusyKeeps, LocksAre
  <2> QED
    BY <1>1, <2>2, <2>3, <2>4, LeaveKeeps
<1>8. CASE CastE
  <2> DEFINE time == Max({cursor, Ready.eReadyAt})
             e == CastReady(time)
             until == time + ECooldown
             f == [e EXCEPT !.eReadyAt = until]
  <2>1. time \in Int /\ time >= cursor /\ until \in Int
    <3>1. time \in Int /\ time >= cursor
      BY <1>2, LaterOf
    <3>2. ECooldown \in Nat
      BY <1>2, CooldownsAre
    <3> HIDE DEF time
    <3> QED
      BY <3>1, <3>2
  <2>2. \/ LeaveScript(DrainDamageThrough(Ready, time))
        \/ Busy(f, time, "E", Second \div 4)
    BY <1>8 DEF CastE
  <2> HIDE DEF time
  <2>3. Sound(DrainDamageThrough(Ready, time), cursor) /\ Sound(e, cursor)
    BY <1>1, <2>1, SoundTurn
  <2> HIDE DEF e, until
  <2>4. Sound(f, cursor)
    <3>1. Shape(f) /\ SameDamage(e, f)
      BY <2>1, <2>3, CastQEEffect DEF Sound
    <3> HIDE DEF f
    <3> QED
      BY <2>3, <3>1, SoundSame
  <2> HIDE DEF f
  <2>5. Sound(f, time + Second \div 4)
    BY <1>4, <2>1, <2>4, LocksAre
  <2> QED
    BY <1>1, <2>1, <2>2, <2>3, <2>5, BusyKeeps, LeaveKeeps, LocksAre
<1>9. CASE AA
  <2> DEFINE time == Max({cursor, Ready.nextAttackReady})
  <2>1. time \in Int /\ time >= cursor
    BY <1>2, LaterOf
  <2>2. /\ fight' = fight /\ nextAuto' = nextAuto /\ phase' = phase
        /\ engine' \in Attack(Ready, time)
        /\ cursor' = cursor \/ cursor' \in Added(time, Second \div 4)
    BY <1>9 DEF AA
  <2> HIDE DEF time
  <2>3. Sound(engine', cursor)
    BY <1>2, <1>3, <2>1, <2>2, SoundAttacks
  <2>4. cursor' \in Nat /\ cursor' >= cursor
    <3>1. cursor \in Nat
      BY DEF LedgerInv, FightType
    <3>2. cursor' \in Added(time, Second \div 4) => cursor' \in Nat /\ cursor' >= time + Second \div 4
      BY <1>1, <2>1, TurnTimes, LocksAre
    <3> QED
      BY <2>1, <2>2, <3>1, <3>2, LocksAre
  <2>5. Sound(engine', cursor')
    BY <1>2, <2>3, <2>4, SoundLater
  <2>6. FightType'
    BY <2>2, <2>4, <2>5 DEF LedgerInv, FightType, Sound
  <2>7. Ledger(engine, 0)' /\ \A t \in Hits(engine') : t < cursor'
    BY <2>2, <2>5 DEF Sound, Ledger, IsDead, Hits, Ticked, Of
  <2> QED
    BY <1>1, <2>2, <2>6, <2>7 DEF LedgerInv, Hits, Of
<1>10. CASE Unlearned
  <2>1. /\ engine' = Ready /\ fight' = fight /\ cursor' = cursor /\ nextAuto' = nextAuto
        /\ phase' = phase
    BY <1>10 DEF Unlearned
  <2>2. FightType'
    BY <1>3, <2>1 DEF LedgerInv, FightType, Sound
  <2>3. Ledger(engine, 0)' /\ \A t \in Hits(engine') : t < cursor'
    BY <1>3, <2>1 DEF Sound, Ledger, IsDead, Hits, Ticked, Of
  <2> QED
    BY <1>1, <2>1, <2>2, <2>3 DEF LedgerInv, Hits, Of
<1> QED
  BY <1>5, <1>6, <1>7, <1>8, <1>9, <1>10

LEMMA EndKeepsLedger ==
  ASSUME LedgerInv,
         EndScript \/ BreakScript \/ ContinueAuto \/ Finish
  PROVE  LedgerInv'
<1>1. /\ fight \in Fights /\ Shape(engine) /\ cursor \in Int /\ nextAuto \in Int
      /\ Ledger(engine, 0) /\ fight.duration \in Int
  BY FightsAssumption DEF LedgerInv, FightType
<1>2. Sound(engine, cursor)
  BY DEF LedgerInv, FightType, Sound
<1>3. CASE EndScript
  <2>1. phase = "script" /\ LeaveScript(engine)
    BY <1>3 DEF EndScript
  <2> QED
    BY <1>2, <2>1, LeaveKeeps
<1>4. CASE BreakScript
  <2>1. phase = "script" /\ LeaveScript(Drained)
    BY <1>4 DEF BreakScript
  <2>2. Sound(Drained, cursor)
    BY <2>1, SoundTurn
  <2> QED
    BY <2>1, <2>2, LeaveKeeps
<1>5. CASE ContinueAuto
  <2>1. /\ phase = "autos" /\ engine' \in Attack(engine, nextAuto)
        /\ nextAuto' = engine'.nextAttackReady /\ fight' = fight /\ cursor' = cursor
        /\ phase' = phase
    BY <1>5 DEF ContinueAuto
  <2>2. Sound(engine', cursor)
    BY <1>1, <1>2, <2>1, SoundAttacks
  <2>3. FightType'
    BY <2>1, <2>2 DEF LedgerInv, FightType, Sound, Shape
  <2>4. Ledger(engine, 0)' /\ \A t \in Hits(engine') : t < cursor'
    BY <2>1, <2>2 DEF Sound, Ledger, IsDead, Hits, Ticked, Of
  <2> QED
    BY <2>1, <2>3, <2>4 DEF LedgerInv, Hits, Of
<1>6. CASE Finish
  <2> DEFINE d == DrainDamageThrough(engine, fight.duration)
             f == AdvanceStormrazorMovement(d, fight.duration)
  <2>1. /\ phase = "autos" /\ engine' = f /\ phase' = "done"
        /\ fight' = fight /\ cursor' = cursor /\ nextAuto' = nextAuto
    BY <1>6 DEF Finish
  <2>2. Sound(d, cursor) /\ \A m \in DOMAIN d.pendingDamage : d.pendingDamage[m] > fight.duration
    BY <1>1, <1>2, SoundStages, DrainEffect
  <2> HIDE DEF d
  <2>3. Quiet(d, f)
    BY <1>1, <2>2, QuietParts DEF Sound
  <2> HIDE DEF f
  <2>4. Shape(f) /\ SameDamage(d, f)
    BY <2>2, <2>3, QuietShape DEF Sound, Quiet
  <2>5. Sound(f, cursor)
    BY <2>2, <2>4, SoundSame
  <2>6. FightType'
    BY <2>1, <2>4 DEF LedgerInv, FightType
  <2>7. Ledger(engine, 0)' /\ \A t \in Hits(engine') : t < cursor'
    BY <2>1, <2>5 DEF Sound, Ledger, IsDead, Hits, Ticked, Of
  <2>8. \A m \in DOMAIN engine'.pendingDamage : engine'.pendingDamage[m] > fight'.duration
    BY <2>1, <2>2, <2>4 DEF SameDamage
  <2> QED
    BY <2>1, <2>6, <2>7, <2>8 DEF LedgerInv, Hits, Of
<1> QED
  BY <1>3, <1>4, <1>5, <1>6

LEMMA LedgerStep == LedgerInv /\ [FightNext]_fightVars => LedgerInv'
<1> SUFFICES ASSUME LedgerInv, [FightNext]_fightVars PROVE LedgerInv'
  OBVIOUS
<1>1. CASE UNCHANGED fightVars
  BY <1>1 DEF fightVars, LedgerInv, FightType, Ledger, IsDead, Hits, Ticked, Of
<1>2. CASE FightNext
  BY <1>2, ScriptKeepsLedger, EndKeepsLedger DEF FightNext
<1> QED
  BY <1>1, <1>2

LEMMA LedgerHolds == FightSpec => []LedgerInv
<1> QED
  BY LedgerInit, LedgerStep, PTL DEF FightSpec

LEMMA LedgerMeansLingers == LedgerInv => LingerOnce
<1> SUFFICES ASSUME LedgerInv PROVE LingerOnce
  OBVIOUS
<1> DEFINE L == Events("linger")
           J == Events("judgment")
           at(i) == engine.events[i].time
           Ticks(hit) == {i \in L : at(i) = at(hit) + Second}
<1>1. L = Of(engine, "linger") /\ J = Of(engine, "judgment")
  BY DEF Events, Of
<1>2. /\ \A i \in L : at(i) \in Ticked(engine) /\ at(i) \in Int
      /\ \A i \in J : at(i) \in Hits(engine) /\ at(i) \in Int
      /\ \A t \in Ticked(engine) : \E i \in L : at(i) = t
      /\ \A t \in Hits(engine) : \E i \in J : at(i) = t
  <2>1. Hits(engine) \subseteq Int /\ Ticked(engine) \subseteq Int
    BY TimesAre DEF LedgerInv, FightType
  <2> QED
    BY <1>1, <2>1 DEF Hits, Ticked
<1>3. /\ \A i, j \in J : at(i) = at(j) => i = j
      /\ \A i, j \in L : at(i) = at(j) => i = j
      /\ \A t \in Ticked(engine) : t - Second \in Hits(engine)
      /\ \A t \in Hits(engine) :
           \/ t + Second \in Ticked(engine)
           \/ \E m \in DOMAIN engine.pendingDamage : engine.pendingDamage[m] = t + Second
           \/ t + Second > fight.duration
           \/ IsDead(engine)
  BY <1>1 DEF LedgerInv, Ledger
<1>4. IsFiniteSet(L) /\ IsFiniteSet(J)
  <2>1. IsFiniteSet(DOMAIN engine.events)
    <3>1. Len(engine.events) \in Nat /\ DOMAIN engine.events = 1 .. Len(engine.events)
      BY DEF LedgerInv, FightType, Shape
    <3>2. IsFiniteSet(1 .. Len(engine.events))
      BY <3>1, FS_Interval
    <3> QED
      BY <3>1, <3>2
  <2> QED
    BY <2>1, FS_Subset DEF Events
<1>5. Second \in Int
  BY UnitFacts
<1> HIDE DEF L, J, at
<1>6. Cardinality(L) <= Cardinality(J)
  <2> DEFINE of == [i \in L |-> CHOOSE j \in J : at(j) = at(i) - Second]
  <2>1. \A i \in L : of[i] \in J /\ at(of[i]) = at(i) - Second
    <3>1. \A i \in L : \E j \in J : at(j) = at(i) - Second
      BY <1>2, <1>3
    <3> QED
      BY <3>1
  <2>2. of \in Injection(L, J)
    <3>1. of \in [L -> J]
      BY <2>1
    <3>2. \A i, j \in L : of[i] = of[j] => i = j
      <4>1. ASSUME NEW i \in L, NEW j \in L, of[i] = of[j] PROVE i = j
        <5>1. at(i) - Second = at(j) - Second
          BY <2>1, <4>1
        <5>2. at(i) = at(j)
          BY <1>2, <1>5, <5>1
        <5> QED
          BY <1>3, <5>2
      <4> HIDE DEF of
      <4> QED
        BY <4>1
    <3> HIDE DEF of
    <3> QED
      BY <3>1, <3>2 DEF Injection, IsInjective
  <2> HIDE DEF of
  <2> QED
    BY <1>4, <2>2, FS_Injection
<1>7. ASSUME phase = "done", NEW hit \in J
      PROVE  \/ Cardinality(Ticks(hit)) = 1
             \/ /\ Ticks(hit) = {}
                /\ at(hit) + Second > fight.duration \/ IsDead(engine)
  <2>1. CASE at(hit) + Second \in Ticked(engine)
    <3>1. PICK i \in L : at(i) = at(hit) + Second
      BY <1>2, <2>1
    <3>2. Ticks(hit) = {i}
      BY <1>3, <3>1
    <3> QED
      BY <3>2, FS_Singleton
  <2>2. CASE at(hit) + Second \notin Ticked(engine)
    <3>1. Ticks(hit) = {}
      BY <1>2, <2>2
    <3>2. \A m \in DOMAIN engine.pendingDamage : engine.pendingDamage[m] > fight.duration
      BY <1>7 DEF LedgerInv
    <3> QED
      BY <1>2, <1>3, <1>7, <2>2, <3>1, <3>2
  <2> QED
    BY <2>1, <2>2
<1> QED
  BY <1>6, <1>7 DEF LingerOnce, L, J, at

(* Every base W is followed by one lingering tick, a second later, unless   *)
(* the window ends or the target dies before.                               *)
THEOREM AlwaysLingerOnce == FightSpec => []LingerOnce
<1> QED
  BY LedgerHolds, LedgerMeansLingers, PTL

-----------------------------------------------------------------------------
(* What is left of the cooldown of W after n cuts.                          *)
LEMMA FifthsAre ==
  ASSUME fight \in Fights
  PROVE  /\ Fifths[0] = WCooldown
         /\ \A n \in Nat : Fifths[n] \in Nat /\ Fifths[n + 1] = Fifths[n] \div 5
<1>1. WCooldown \in Nat
  BY CooldownsAre
<1> DEFINE f == [x \in Nat |-> x \div 5]
<1>2. f \in [Nat -> Nat] /\ \A x \in Nat : f[x] = x \div 5
  OBVIOUS
<1>3. PICK g \in [Nat -> Nat] : g[0] = WCooldown /\ \A n \in Nat : g[n + 1] = f[g[n]]
  <2> DEFINE c == WCooldown
             S == Nat
  <2>1. c \in S /\ f \in [S -> S]
    BY <1>1, <1>2
  <2> HIDE DEF f, c, S
  <2>2. \E g \in [Nat -> S] : Iterates(g, c, f)
    BY <2>1, Iterated
  <2> QED
    BY <2>2 DEF c, S, Iterates
<1> HIDE DEF f
<1>4. g = [n \in Nat |-> IF n = 0 THEN WCooldown ELSE g[n - 1] \div 5]
  <2>1. ASSUME NEW n \in Nat PROVE g[n] = IF n = 0 THEN WCooldown ELSE g[n - 1] \div 5
    <3>1. CASE n = 0
      BY <1>3, <3>1
    <3>2. CASE n # 0
      <4>1. n - 1 \in Nat /\ (n - 1) + 1 = n
        BY <3>2
      <4>2. g[n] = f[g[n - 1]] /\ g[n - 1] \in Nat
        BY <1>3, <4>1
      <4> QED
        BY <1>2, <3>2, <4>2
    <3> QED
      BY <3>1, <3>2
  <2> QED
    BY <2>1
<1>5. Fifths = [n \in Nat |-> IF n = 0 THEN WCooldown ELSE Fifths[n - 1] \div 5]
  <2> DEFINE F == CHOOSE h : h = [n \in Nat |-> IF n = 0 THEN WCooldown ELSE h[n - 1] \div 5]
  <2>1. Fifths = F
    BY DEF Fifths
  <2>2. F = [n \in Nat |-> IF n = 0 THEN WCooldown ELSE F[n - 1] \div 5]
    BY <1>4
  <2> HIDE DEF F
  <2> QED
    BY <2>1, <2>2
<1> DEFINE F == Fifths
<1>6. F[0] = WCooldown /\ \A n \in Nat : F[n + 1] = F[n] \div 5
  <2>1. F = [n \in Nat |-> IF n = 0 THEN WCooldown ELSE F[n - 1] \div 5]
    BY <1>5
  <2> HIDE DEF F
  <2>2. F[0] = WCooldown
    BY <2>1
  <2>3. ASSUME NEW n \in Nat PROVE F[n + 1] = F[n] \div 5
    <3>1. n + 1 \in Nat /\ n + 1 # 0 /\ (n + 1) - 1 = n
      OBVIOUS
    <3>2. F[n + 1] = IF n + 1 = 0 THEN WCooldown ELSE F[(n + 1) - 1] \div 5
      BY <2>1, <3>1
    <3> QED
      BY <3>1, <3>2
  <2> QED
    BY <2>2, <2>3
<1> HIDE DEF F
<1>7. \A n \in Nat : F[n] \in Nat
  <2> DEFINE Bad == {n \in Nat : F[n] \notin Nat}
  <2> SUFFICES ASSUME Bad # {} PROVE FALSE
    OBVIOUS
  <2>0. Bad \subseteq Nat /\ 0 \notin Bad
    BY <1>1, <1>6
  <2>1. PICK m \in Bad : \A n \in Bad : m <= n
    <3> HIDE DEF Bad
    <3> QED
      BY <2>0, LeastNatural
  <2>2. m \in Nat /\ m # 0 /\ F[m] \notin Nat
    BY <2>0, <2>1
  <2>3. m - 1 \in Nat /\ (m - 1) + 1 = m /\ ~(m <= m - 1)
    BY <2>2
  <2>4. F[m - 1] \in Nat
    BY <2>1, <2>3
  <2>5. F[m] = F[m - 1] \div 5
    BY <1>6, <2>3
  <2> QED
    BY <2>2, <2>4, <2>5
<1> QED
  BY <1>6, <1>7 DEF F

LEMMA FifthsFall ==
  ASSUME fight \in Fights
  PROVE  /\ \A n \in Nat : Fifths[n] <= WCooldown
         /\ \A m, n \in Nat : m <= n => Fifths[n] <= Fifths[m]
<1> DEFINE F == Fifths
<1>1. /\ F[0] = WCooldown
      /\ \A n \in Nat : F[n] \in Nat /\ F[n + 1] = F[n] \div 5
  BY FifthsAre
<1> HIDE DEF F
<1>2. ASSUME NEW m \in Nat PROVE \A n \in Nat : m <= n => F[n] <= F[m]
  <2> DEFINE Bad == {n \in Nat : m <= n /\ ~(F[n] <= F[m])}
  <2> SUFFICES ASSUME Bad # {} PROVE FALSE
    OBVIOUS
  <2>0. Bad \subseteq Nat /\ m \notin Bad
    <3>1. F[m] <= F[m]
      BY <1>1
    <3> QED
      BY <3>1
  <2>1. PICK b \in Bad : \A n \in Bad : b <= n
    <3> HIDE DEF Bad
    <3> QED
      BY <2>0, LeastNatural
  <2>2. b \in Nat /\ m <= b /\ b # m /\ ~(F[b] <= F[m])
    BY <2>0, <2>1
  <2>3. b - 1 \in Nat /\ (b - 1) + 1 = b /\ ~(b <= b - 1) /\ m <= b - 1
    BY <2>2
  <2>4. F[b - 1] <= F[m]
    BY <2>1, <2>3
  <2>5. F[b] = F[b - 1] \div 5 /\ F[b - 1] \in Nat /\ F[m] \in Nat
    BY <1>1, <2>3
  <2>6. F[b] <= F[b - 1] /\ F[b] \in Nat
    BY <2>5
  <2> QED
    BY <2>2, <2>4, <2>5, <2>6
<1>3. \A n \in Nat : 0 <= n /\ 0 \in Nat
  OBVIOUS
<1> QED
  BY <1>1, <1>2, <1>3 DEF F

(* One cut more: what was left of the cooldown at time t, cut to a fifth.   *)
LEMMA CutToAFifth ==
  ASSUME NEW w \in Int, NEW t \in Int, w > t
  PROVE  5 * (Reduced(w, t) - t + Grid) > w - t
<1> DEFINE x == (w - t) \div 5
           g == OnGrid(x)
<1>1. x \in Int /\ 5 * x >= (w - t) - 4
  OBVIOUS
<1>2. g \in Int /\ x < g + Grid /\ Grid \in Int
  BY <1>1, GridFacts, UnitFacts
<1>3. Reduced(w, t) = t + g
  BY ReducedIs
<1> HIDE DEF g, x
<1>4. 5 * (g + Grid) >= 5 * x + 5
  BY <1>1, <1>2
<1> QED
  BY <1>1, <1>2, <1>3, <1>4

(* At time t, a seconds after a W: what an n-th cut leaves of its cooldown. *)
LEMMA NextFifth ==
  ASSUME NEW w \in Int, NEW t \in Int, NEW a \in Int, NEW left \in Nat, w > t, a <= t,
         w - a >= left \/ (w - a + Grid > left /\ 4 * (t - a) >= Grid)
  PROVE  Reduced(w, t) - a + Grid > left \div 5
<1> DEFINE r == Reduced(w, t)
           q == left \div 5
<1>1. r \in Int /\ Grid \in Nat /\ 5 * (r - t + Grid) > w - t
  BY CutToAFifth, ReducedIs, UnitFacts
<1>2. q \in Int /\ 5 * q <= left
  OBVIOUS
<1> HIDE DEF r, q
<1>3. 5 * (r - a + Grid) > (w - a) + 4 * (t - a)
  BY <1>1
<1>4. (w - a) + 4 * (t - a) >= left
  BY <1>1
<1> QED
  BY <1>1, <1>2, <1>3, <1>4 DEF r, q

-----------------------------------------------------------------------------
(* The book of the casts: when each ability comes back, and by which cuts.  *)

(* A sequence, whatever its elements are. *)
Listing(s) == s \in Seq({s[k] : k \in DOMAIN s})

CastsOf(cs, action) == {k \in DOMAIN cs : cs[k].action = action}
Abilities == {"R", "W", "E"}
End(cs, k) == cs[k].at + Seconds(15)

(* Since cast i: the Rs that began, and those whose end was dealt with.     *)
Begun(cs, i) == {k \in CastsOf(cs, "R") : i < k}
Over(e, cs, k) == e.rExitHandled \/ \E j \in CastsOf(cs, "R") : k < j
Ended(e, cs, now, i) ==
  {k \in CastsOf(cs, "R") : /\ Over(e, cs, k)
                            /\ End(cs, k) >= cs[i].at - Epsilon /\ End(cs, k) <= now + Epsilon}

Turns(cs, now) ==
  /\ Listing(cs)
  /\ \A k \in DOMAIN cs : cs[k].action \in Abilities =>
       cs[k].at \in Int /\ 0 <= cs[k].at /\ cs[k].at <= now
  /\ \A k \in CastsOf(cs, "W") : cs[k].at + Second \div 2 <= now
  /\ \A i, j \in DOMAIN cs :
       cs[i].action \in Abilities /\ cs[j].action \in Abilities /\ i < j => cs[i].at <= cs[j].at

(* The end of R is still to come for whatever was cast since its beginning. *)
LastR(e, cs) ==
  ~e.rExitHandled =>
    \E k \in CastsOf(cs, "R") :
      /\ \A j \in CastsOf(cs, "R") : j <= k
      /\ e.rUntil = End(cs, k)
      /\ \A i \in CastsOf(cs, "W") \cup CastsOf(cs, "E") : i < k \/ cs[i].at < e.rUntil - Epsilon

BackR(e, cs) == \A i \in CastsOf(cs, "R") : cs[i].at + RCooldown <= e.rReadyAt
BackE(e, cs, now) ==
  \A i \in CastsOf(cs, "E") :
    cs[i].at + ECooldown <= e.eReadyAt \/ Begun(cs, i) # {} \/ Ended(e, cs, now, i) # {}
BackW(e, cs, now) ==
  \A i \in CastsOf(cs, "W") :
    \/ cs[i].at + WCooldown <= e.wReadyAt
    \/ \E n \in Nat \ {0} :
         /\ n <= Cardinality(Begun(cs, i)) + Cardinality(Ended(e, cs, now, i))
         /\ e.wReadyAt - cs[i].at + Grid > Fifths[n]
         /\ ~e.rExitHandled => e.rUntil - cs[i].at >= Second

Book(e, cs, now) ==
  Turns(cs, now) /\ LastR(e, cs) /\ BackR(e, cs) /\ BackE(e, cs, now) /\ BackW(e, cs, now)

CutsIn(cs, i, j) ==
  Cardinality({k \in CastsOf(cs, "R") : i < k /\ k <= j})
    + Cardinality({k \in CastsOf(cs, "R") : /\ k <= j
                                            /\ End(cs, k) >= cs[i].at - Epsilon
                                            /\ End(cs, k) <= cs[j].at + Epsilon})
Spacing(cs) ==
  /\ \A j \in CastsOf(cs, "W") : \A i \in CastsOf(cs, "W") : i < j =>
       IF CutsIn(cs, i, j) = 0 THEN cs[j].at - cs[i].at >= WCooldown
       ELSE cs[j].at - cs[i].at + Grid > Fifths[CutsIn(cs, i, j)]
  /\ \A j \in CastsOf(cs, "E") : \A i \in CastsOf(cs, "E") :
       i < j /\ CutsIn(cs, i, j) = 0 => cs[j].at - cs[i].at >= ECooldown
  /\ \A j \in CastsOf(cs, "R") : \A i \in CastsOf(cs, "R") :
       i < j => cs[j].at - cs[i].at >= RCooldown

LEMMA CastsFinite ==
  ASSUME NEW cs, Listing(cs)
  PROVE  /\ \A action : IsFiniteSet(CastsOf(cs, action)) /\ CastsOf(cs, action) \subseteq Nat
         /\ \A S : S \subseteq CastsOf(cs, "R") => IsFiniteSet(S) /\ Cardinality(S) \in Nat
<1>1. Len(cs) \in Nat /\ DOMAIN cs = 1 .. Len(cs)
  BY DEF Listing
<1>2. IsFiniteSet(DOMAIN cs) /\ DOMAIN cs \subseteq Nat
  BY <1>1, FS_Interval
<1>3. \A action : CastsOf(cs, action) \subseteq DOMAIN cs
  BY DEF CastsOf
<1>4. \A action : IsFiniteSet(CastsOf(cs, action)) /\ CastsOf(cs, action) \subseteq Nat
  BY <1>2, <1>3, FS_Subset
<1>5. \A S : S \subseteq CastsOf(cs, "R") => IsFiniteSet(S) /\ Cardinality(S) \in Nat
  BY <1>4, FS_Subset, FS_CardinalityType
<1> QED
  BY <1>4, <1>5

LEMMA MoreCuts ==
  ASSUME NEW cs, Listing(cs), NEW T, T \subseteq CastsOf(cs, "R"),
         NEW S, S \subseteq T
  PROVE  Cardinality(S) <= Cardinality(T) /\ Cardinality(S) \in Nat /\ Cardinality(T) \in Nat
BY CastsFinite, FS_Subset

LEMMA CutsAreNatural ==
  ASSUME NEW cs, Listing(cs)
  PROVE  /\ \A i : Cardinality(Begun(cs, i)) \in Nat
         /\ \A e, now, i : Cardinality(Ended(e, cs, now, i)) \in Nat
         /\ \A i, j : CutsIn(cs, i, j) \in Nat
<1>1. \A S : S \subseteq CastsOf(cs, "R") => Cardinality(S) \in Nat
  BY CastsFinite
<1>2. \A i : Cardinality(Begun(cs, i)) \in Nat
  BY <1>1 DEF Begun
<1>3. \A e, now, i : Cardinality(Ended(e, cs, now, i)) \in Nat
  BY <1>1 DEF Ended
<1>4. ASSUME NEW i, NEW j PROVE CutsIn(cs, i, j) \in Nat
  <2> DEFINE A == {k \in CastsOf(cs, "R") : i < k /\ k <= j}
             B == {k \in CastsOf(cs, "R") : /\ k <= j /\ End(cs, k) >= cs[i].at - Epsilon
                                            /\ End(cs, k) <= cs[j].at + Epsilon}
  <2>1. A \subseteq CastsOf(cs, "R") /\ B \subseteq CastsOf(cs, "R")
    OBVIOUS
  <2>2. CutsIn(cs, i, j) = Cardinality(A) + Cardinality(B)
    BY DEF CutsIn
  <2> HIDE DEF A, B
  <2> QED
    BY <1>1, <2>1, <2>2
<1> QED
  BY <1>2, <1>3, <1>4

(* Later, and when only other things of the engine have changed.            *)
LEMMA BookSame ==
  ASSUME NEW e, NEW f, NEW cs, NEW now, Book(e, cs, now), SameAbilities(e, f)
  PROVE  Book(f, cs, now)
<1>1. /\ f.rUntil = e.rUntil /\ f.rExitHandled = e.rExitHandled
      /\ f.wReadyAt = e.wReadyAt /\ f.eReadyAt = e.eReadyAt /\ f.rReadyAt = e.rReadyAt
  BY DEF SameAbilities
<1>2. \A i : Ended(f, cs, now, i) = Ended(e, cs, now, i)
  BY <1>1 DEF Ended, Over
<1> QED
  BY <1>1, <1>2 DEF Book, LastR, BackR, BackE, BackW

LEMMA BookLater ==
  ASSUME NEW e, NEW cs, NEW now \in Int, Book(e, cs, now), NEW later \in Int, now <= later
  PROVE  Book(e, cs, later)
<1>1. Listing(cs)
  BY DEF Book, Turns
<1>2. \A k \in DOMAIN cs : cs[k].action \in Abilities => cs[k].at \in Int /\ cs[k].at <= now
  BY DEF Book, Turns
<1>3. \A k \in CastsOf(cs, "R") : End(cs, k) \in Int
  BY <1>2, SecondsFacts DEF CastsOf, Abilities, End
<1>4. Turns(cs, later)
  <2>1. \A k \in CastsOf(cs, "W") : cs[k].at \in Int /\ cs[k].at + Second \div 2 \in Int
    BY <1>2, LocksAre DEF CastsOf, Abilities
  <2>2. \A k \in CastsOf(cs, "W") : cs[k].at + Second \div 2 <= later
    BY <2>1 DEF Book, Turns
  <2>3. \A k \in DOMAIN cs : cs[k].action \in Abilities =>
          cs[k].at \in Int /\ 0 <= cs[k].at /\ cs[k].at <= later
    BY <1>2 DEF Book, Turns
  <2> QED
    BY <2>2, <2>3 DEF Book, Turns
<1>5. \A i : /\ Ended(e, cs, now, i) \subseteq Ended(e, cs, later, i)
             /\ Ended(e, cs, later, i) \subseteq CastsOf(cs, "R")
  BY <1>3, UnitFacts DEF Ended
<1>6. \A i : /\ Cardinality(Ended(e, cs, now, i)) <= Cardinality(Ended(e, cs, later, i))
             /\ Cardinality(Ended(e, cs, now, i)) \in Nat
             /\ Cardinality(Ended(e, cs, later, i)) \in Nat
  BY <1>1, <1>5, MoreCuts
<1>7. BackE(e, cs, later)
  BY <1>5 DEF Book, BackE
<1>8. BackW(e, cs, later)
  <2>1. \A i : Cardinality(Begun(cs, i)) \in Nat
    BY <1>1, CutsAreNatural
  <2>2. ASSUME NEW i, NEW n \in Nat,
               n <= Cardinality(Begun(cs, i)) + Cardinality(Ended(e, cs, now, i))
        PROVE  n <= Cardinality(Begun(cs, i)) + Cardinality(Ended(e, cs, later, i))
    BY <1>6, <2>1, <2>2
  <2> QED
    BY <2>2 DEF Book, BackW
<1> QED
  BY <1>4, <1>7, <1>8 DEF Book

(* Casts that are made are at integers, and so are the ends of the Rs.      *)
LEMMA TurnFacts ==
  ASSUME NEW cs, NEW now, Turns(cs, now)
  PROVE  /\ Listing(cs)
         /\ \A a \in Abilities : \A k \in CastsOf(cs, a) :
              /\ k \in DOMAIN cs /\ cs[k].action \in Abilities /\ k \in Nat
              /\ cs[k].at \in Int /\ 0 <= cs[k].at /\ cs[k].at <= now
              /\ End(cs, k) \in Int /\ End(cs, k) >= cs[k].at + Second
         /\ \A i, j \in DOMAIN cs :
              cs[i].action \in Abilities /\ cs[j].action \in Abilities /\ i < j =>
                cs[i].at <= cs[j].at
<1>1. Listing(cs)
  BY DEF Turns
<1>2. ASSUME NEW a \in Abilities, NEW k \in CastsOf(cs, a)
      PROVE  /\ k \in DOMAIN cs /\ cs[k].action \in Abilities /\ k \in Nat
             /\ cs[k].at \in Int /\ 0 <= cs[k].at /\ cs[k].at <= now
             /\ End(cs, k) \in Int /\ End(cs, k) >= cs[k].at + Second
  <2>1. k \in DOMAIN cs /\ cs[k].action \in Abilities
    BY <1>2 DEF CastsOf
  <2>2. cs[k].at \in Int /\ 0 <= cs[k].at /\ cs[k].at <= now
    BY <2>1 DEF Turns
  <2>3. k \in Nat
    BY <1>1, CastsFinite
  <2>4. End(cs, k) \in Int /\ End(cs, k) >= cs[k].at + Second
    BY <2>2, UnitFacts DEF End, Seconds
  <2> QED
    BY <2>1, <2>2, <2>3, <2>4
<1> QED
  BY <1>1, <1>2 DEF Turns

(* The end of R that is dealt with is one cut more, for every W and E       *)
(* before it.                                                               *)
LEMMA BookExit ==
  ASSUME fight \in Fights, NEW e, Shape(e), NEW cs, NEW now \in Int, Book(e, cs, now),
         NEW time \in Int, time <= now
  PROVE  LET f == ApplyRExitEffects(e, time)
         IN  Book(f, cs, now) /\ (~f.rExitHandled => time < f.rUntil - Epsilon)
<1> DEFINE f == ApplyRExitEffects(e, time)
           u == e.rUntil
<1>1. /\ f.rUntil = e.rUntil /\ f.rReadyAt = e.rReadyAt
      /\ ~Ends(e, time) => f = e
      /\ Ends(e, time) => /\ f.rExitHandled = TRUE /\ f.eReadyAt = e.rUntil
                          /\ f.wReadyAt = Reduced(e.wReadyAt, e.rUntil)
  BY ExitEffect
<1> HIDE DEF f
<1>2. Turns(cs, now) /\ u \in Int /\ e.wReadyAt \in Int /\ Epsilon \in Nat
  BY UnitFacts DEF Book, Shape
<1>3. /\ Listing(cs)
      /\ \A a \in Abilities : \A k \in CastsOf(cs, a) :
           /\ k \in DOMAIN cs /\ cs[k].action \in Abilities /\ k \in Nat
           /\ cs[k].at \in Int /\ 0 <= cs[k].at /\ cs[k].at <= now
           /\ End(cs, k) \in Int /\ End(cs, k) >= cs[k].at + Second
      /\ \A i, j \in DOMAIN cs :
           cs[i].action \in Abilities /\ cs[j].action \in Abilities /\ i < j => cs[i].at <= cs[j].at
  BY <1>2, TurnFacts
<1>4. {"R", "W", "E"} \subseteq Abilities
  BY DEF Abilities
<1>5. CASE ~Ends(e, time)
  <2>1. ASSUME ~e.rExitHandled PROVE time < e.rUntil - Epsilon
    <3>1. PICK k \in CastsOf(cs, "R") : e.rUntil = End(cs, k)
      BY <2>1 DEF Book, LastR
    <3>2. End(cs, k) >= 0
      <4>1. End(cs, k) \in Int /\ cs[k].at \in Int /\ 0 <= cs[k].at /\ End(cs, k) >= cs[k].at + Second
        BY <1>3, <1>4
      <4> QED
        BY <4>1, UnitFacts
    <3> QED
      BY <1>2, <1>5, <2>1, <3>1, <3>2 DEF Ends
  <2> QED
    BY <1>1, <1>5, <2>1 DEF f
<1>6. CASE Ends(e, time)
  <2>1. PICK k \in CastsOf(cs, "R") :
          /\ \A j \in CastsOf(cs, "R") : j <= k
          /\ u = End(cs, k)
          /\ \A i \in CastsOf(cs, "W") \cup CastsOf(cs, "E") : i < k \/ cs[i].at < u - Epsilon
    BY <1>6 DEF Book, LastR, Ends
  <2>2. u <= now + Epsilon
    BY <1>2, <1>6 DEF Ends
  <2>3. \A i \in CastsOf(cs, "W") \cup CastsOf(cs, "E") : cs[i].at \in Int /\ cs[i].at <= u
    <3>1. ASSUME NEW i \in CastsOf(cs, "W") \cup CastsOf(cs, "E")
          PROVE  cs[i].at \in Int /\ cs[i].at <= u
      <4>1. i \in DOMAIN cs /\ cs[i].action \in Abilities /\ cs[i].at \in Int
        BY <1>3, <1>4, <3>1
      <4>2. /\ k \in DOMAIN cs /\ cs[k].action \in Abilities /\ cs[k].at \in Int
            /\ u >= cs[k].at + Second
        BY <1>3, <1>4, <2>1
      <4>3. i < k => cs[i].at <= cs[k].at
        BY <1>3, <4>1, <4>2
      <4> QED
        BY <1>2, <2>1, <3>1, <4>1, <4>2, <4>3, UnitFacts
    <3> QED
      BY <3>1
  <2>4. ASSUME NEW i \in CastsOf(cs, "W") \cup CastsOf(cs, "E")
        PROVE  /\ k \in Ended(f, cs, now, i)
               /\ Cardinality(Ended(f, cs, now, i)) >= Cardinality(Ended(e, cs, now, i)) + 1
               /\ Cardinality(Ended(e, cs, now, i)) \in Nat
               /\ Cardinality(Ended(f, cs, now, i)) \in Nat
    <3> DEFINE A == Ended(e, cs, now, i)
               B == Ended(f, cs, now, i)
    <3>1. k \in B
      <4>1. u >= cs[i].at - Epsilon
        BY <1>2, <2>3, <2>4
      <4> QED
        BY <1>1, <1>6, <2>1, <2>2, <4>1 DEF Ended, Over
    <3>2. k \notin A
      <4>1. \A j \in CastsOf(cs, "R") : ~(k < j)
        BY <1>3, <1>4, <2>1
      <4> QED
        BY <1>6, <4>1 DEF Ended, Over, Ends
    <3>3. A \subseteq B /\ A \subseteq CastsOf(cs, "R") /\ B \subseteq CastsOf(cs, "R")
      BY <1>1, <1>6 DEF Ended, Over
    <3> HIDE DEF A, B
    <3>4. IsFiniteSet(A) /\ Cardinality(A) \in Nat
      BY <1>3, <3>3, CastsFinite
    <3>5. Cardinality(A \cup {k}) = Cardinality(A) + 1
      BY <3>2, <3>4, FS_AddElement
    <3>6. Cardinality(A \cup {k}) <= Cardinality(B) /\ Cardinality(B) \in Nat
      BY <1>3, <3>1, <3>3, MoreCuts
    <3> QED
      BY <3>1, <3>4, <3>5, <3>6 DEF A, B
  <2>5. BackE(f, cs, now)
    BY <2>4 DEF BackE
  <2>6. BackR(f, cs)
    BY <1>1 DEF Book, BackR
  <2>7. LastR(f, cs)
    BY <1>1, <1>6 DEF LastR
  <2>8. ASSUME NEW i \in CastsOf(cs, "W")
        PROVE  \/ cs[i].at + WCooldown <= f.wReadyAt
               \/ \E n \in Nat \ {0} :
                    /\ n <= Cardinality(Begun(cs, i)) + Cardinality(Ended(f, cs, now, i))
                    /\ f.wReadyAt - cs[i].at + Grid > Fifths[n]
                    /\ ~f.rExitHandled => f.rUntil - cs[i].at >= Second
    <3> DEFINE w == e.wReadyAt
               a == cs[i].at
               B == Cardinality(Begun(cs, i))
               M == Cardinality(Ended(e, cs, now, i))
               N == Cardinality(Ended(f, cs, now, i))
    <3>1. /\ B \in Nat /\ M \in Nat /\ N \in Nat /\ M + 1 <= N
          /\ a \in Int /\ a <= u /\ w \in Int
      BY <1>2, <1>3, <2>3, <2>4, CutsAreNatural
    <3>2. \/ a + WCooldown <= w
          \/ \E n \in Nat \ {0} :
               /\ n <= B + M /\ w - a + Grid > Fifths[n]
               /\ ~e.rExitHandled => u - a >= Second
      BY DEF Book, BackW
    <3>3. f.wReadyAt = Reduced(w, u) /\ f.rExitHandled = TRUE /\ ~e.rExitHandled
      BY <1>1, <1>6 DEF Ends
    <3> HIDE DEF w, a, B, M, N, u
    <3>4. WCooldown \in Nat
      BY CooldownsAre
    <3>5. SUFFICES \/ a + WCooldown <= Reduced(w, u)
                   \/ \E n \in Nat \ {0} : n <= B + N /\ Reduced(w, u) - a + Grid > Fifths[n]
      BY <3>3 DEF a, B, N
    <3>6. CASE a + WCooldown <= w
      <4>1. CASE w <= u
        BY <1>2, <3>1, <3>6, <4>1, ReducedIs
      <4>2. CASE ~(w <= u)
        <5>1. w - a >= WCooldown /\ w > u
          BY <1>2, <3>1, <3>4, <3>6, <4>2
        <5>2. Reduced(w, u) - a + Grid > WCooldown \div 5
          BY <1>2, <3>1, <3>4, <5>1, NextFifth
        <5>3. Fifths[1] = WCooldown \div 5
          <6>1. Fifths[0 + 1] = Fifths[0] \div 5 /\ Fifths[0] = WCooldown
            BY FifthsAre
          <6> QED
            BY <6>1
        <5>4. 1 \in Nat \ {0} /\ 1 <= B + N
          BY <3>1
        <5> QED
          BY <5>2, <5>3, <5>4
      <4> QED
        BY <4>1, <4>2
    <3>7. CASE \E n \in Nat \ {0} : n <= B + M /\ w - a + Grid > Fifths[n] /\ u - a >= Second
      <4>1. PICK n \in Nat \ {0} : n <= B + M /\ w - a + Grid > Fifths[n] /\ u - a >= Second
        BY <3>7
      <4>2. CASE w <= u
        <5>1. n <= B + N /\ Reduced(w, u) = w
          BY <1>2, <3>1, <4>1, <4>2, ReducedIs
        <5> QED
          BY <4>1, <5>1
      <4>3. CASE ~(w <= u)
        <5>1. w > u /\ 4 * (u - a) >= Grid
          <6>1. Second \in Nat /\ Grid \in Nat /\ Grid <= Second
            BY UnitFacts
          <6> QED
            BY <1>2, <3>1, <4>1, <4>3, <6>1
        <5>2. Fifths[n] \in Nat /\ Fifths[n + 1] = Fifths[n] \div 5
          BY FifthsAre
        <5>3. Reduced(w, u) - a + Grid > Fifths[n] \div 5
          BY <1>2, <3>1, <4>1, <5>1, <5>2, NextFifth
        <5>4. n + 1 \in Nat \ {0} /\ n + 1 <= B + N
          BY <3>1, <4>1
        <5> QED
          BY <5>2, <5>3, <5>4
      <4> QED
        BY <4>2, <4>3
    <3> QED
      BY <3>2, <3>3, <3>6, <3>7
  <2>9. BackW(f, cs, now)
    BY <2>8 DEF BackW
  <2>10. Book(f, cs, now)
    BY <1>2, <2>5, <2>6, <2>7, <2>9 DEF Book
  <2> QED
    BY <1>1, <1>6, <2>10 DEF f
<1> QED
  BY <1>5, <1>6

-----------------------------------------------------------------------------
(* One cast more. *)

(* The list ds is cs with the cast x at its end, at place n. *)
OneMore(cs, x, ds, n) ==
  /\ Listing(cs) /\ Listing(ds)
  /\ DOMAIN ds = DOMAIN cs \cup {n} /\ n \notin DOMAIN cs /\ n \in Nat /\ ds[n] = x
  /\ \A k \in DOMAIN cs : k \in Nat /\ k < n /\ ds[k] = cs[k] /\ End(ds, k) = End(cs, k)
  /\ \A a : CastsOf(ds, a) = IF x.action = a THEN CastsOf(cs, a) \cup {n} ELSE CastsOf(cs, a)
  /\ \A a : CastsOf(cs, a) \subseteq DOMAIN cs
  /\ End(ds, n) = x.at + Seconds(15)

LEMMA Appended ==
  ASSUME NEW cs, Listing(cs), NEW x
  PROVE  OneMore(cs, x, Append(cs, x), Len(cs) + 1)
<1> DEFINE ds == Append(cs, x)
           n == Len(cs) + 1
<1>1. /\ ds \in Seq({ds[i] : i \in DOMAIN ds})
      /\ Len(cs) \in Nat /\ DOMAIN cs = 1 .. Len(cs)
      /\ DOMAIN ds = 1 .. Len(cs) + 1
      /\ ds[Len(cs) + 1] = x /\ \A i \in DOMAIN cs : ds[i] = cs[i]
  BY EventsGrow DEF Listing
<1> HIDE DEF ds
<1>2. /\ Listing(ds) /\ Len(cs) \in Nat /\ DOMAIN cs = 1 .. Len(cs)
      /\ DOMAIN ds = 1 .. n /\ ds[n] = x /\ \A k \in DOMAIN cs : ds[k] = cs[k]
  BY <1>1 DEF Listing
<1>3. DOMAIN ds = DOMAIN cs \cup {n} /\ n \notin DOMAIN cs /\ n \in Nat
  BY <1>2
<1>4. \A k \in DOMAIN cs : k \in Nat /\ k < n
  BY <1>2
<1> HIDE DEF n
<1>5. \A k \in DOMAIN cs : End(ds, k) = End(cs, k)
  BY <1>2 DEF End
<1>6. ASSUME NEW a
      PROVE  CastsOf(ds, a) = IF x.action = a THEN CastsOf(cs, a) \cup {n} ELSE CastsOf(cs, a)
  BY <1>2, <1>3 DEF CastsOf
<1>7. End(ds, n) = x.at + Seconds(15) /\ \A a : CastsOf(cs, a) \subseteq DOMAIN cs
  BY <1>2 DEF End, CastsOf
<1> QED
  BY <1>2, <1>3, <1>4, <1>5, <1>6, <1>7 DEF OneMore, ds, n

LEMMA CutsStay ==
  ASSUME NEW cs, NEW x, NEW ds, NEW n, OneMore(cs, x, ds, n),
         NEW i \in DOMAIN cs, NEW j \in DOMAIN cs
  PROVE  CutsIn(ds, i, j) = CutsIn(cs, i, j)
<1> DEFINE A(s) == {k \in CastsOf(s, "R") : i < k /\ k <= j}
           B(s) == {k \in CastsOf(s, "R") : /\ k <= j /\ End(s, k) >= s[i].at - Epsilon
                                            /\ End(s, k) <= s[j].at + Epsilon}
<1>1. /\ n \in Nat /\ \A k \in DOMAIN cs : k \in Nat /\ k < n /\ ds[k] = cs[k] /\ End(ds, k) = End(cs, k)
      /\ CastsOf(ds, "R") = CastsOf(cs, "R") \/ CastsOf(ds, "R") = CastsOf(cs, "R") \cup {n}
  BY DEF OneMore
<1>2. ~(n <= j) /\ CastsOf(cs, "R") \subseteq DOMAIN cs
  BY <1>1 DEF CastsOf
<1>3. A(ds) = A(cs)
  BY <1>1, <1>2
<1>4. B(ds) = B(cs)
  BY <1>1, <1>2
<1>5. CutsIn(ds, i, j) = Cardinality(A(ds)) + Cardinality(B(ds))
  BY DEF CutsIn
<1>6. CutsIn(cs, i, j) = Cardinality(A(cs)) + Cardinality(B(cs))
  BY DEF CutsIn
<1> HIDE DEF A, B
<1> QED
  BY <1>3, <1>4, <1>5, <1>6

(* It keeps its distance when it does from each cast of the same ability.   *)
LEMMA SpacingGrows ==
  ASSUME NEW cs, NEW x, NEW ds, NEW n, OneMore(cs, x, ds, n), Spacing(cs),
         x.action = "W" => \A i \in CastsOf(cs, "W") :
           IF CutsIn(ds, i, n) = 0 THEN x.at - cs[i].at >= WCooldown
           ELSE x.at - cs[i].at + Grid > Fifths[CutsIn(ds, i, n)],
         x.action = "E" => \A i \in CastsOf(cs, "E") :
           CutsIn(ds, i, n) = 0 => x.at - cs[i].at >= ECooldown,
         x.action = "R" => \A i \in CastsOf(cs, "R") : x.at - cs[i].at >= RCooldown
  PROVE  Spacing(ds)
<1>1. /\ DOMAIN ds = DOMAIN cs \cup {n} /\ n \in Nat /\ ds[n] = x
      /\ \A k \in DOMAIN cs : k \in Nat /\ k < n /\ ds[k] = cs[k]
      /\ \A a : CastsOf(ds, a) = IF x.action = a THEN CastsOf(cs, a) \cup {n} ELSE CastsOf(cs, a)
  BY DEF OneMore
<1>2. \A i, j \in DOMAIN cs : CutsIn(ds, i, j) = CutsIn(cs, i, j)
  BY CutsStay
<1>3. \A a : CastsOf(cs, a) \subseteq DOMAIN cs
  BY DEF CastsOf
<1>4. ASSUME NEW a, NEW j \in CastsOf(ds, a), NEW i \in CastsOf(ds, a), i < j
      PROVE  /\ i \in CastsOf(cs, a) /\ ds[i] = cs[i] /\ i \in DOMAIN cs
             /\ \/ j \in CastsOf(cs, a) /\ ds[j] = cs[j] /\ j \in DOMAIN cs
                   /\ CutsIn(ds, i, j) = CutsIn(cs, i, j)
                \/ j = n /\ x.action = a /\ ds[j] = x
  <2>1. j \in CastsOf(cs, a) \/ (j = n /\ x.action = a)
    BY <1>1
  <2>2. i \in CastsOf(cs, a) \/ (i = n /\ x.action = a)
    BY <1>1
  <2>3. i # n
    BY <1>1, <1>3, <1>4, <2>1
  <2>4. i \in CastsOf(cs, a) /\ i \in DOMAIN cs
    BY <1>3, <2>2, <2>3
  <2> QED
    BY <1>1, <1>2, <1>3, <2>1, <2>4
<1>5. ASSUME NEW j \in CastsOf(ds, "W"), NEW i \in CastsOf(ds, "W"), i < j
      PROVE  IF CutsIn(ds, i, j) = 0 THEN ds[j].at - ds[i].at >= WCooldown
             ELSE ds[j].at - ds[i].at + Grid > Fifths[CutsIn(ds, i, j)]
  <2>1. /\ i \in CastsOf(cs, "W") /\ ds[i] = cs[i]
        /\ \/ j \in CastsOf(cs, "W") /\ ds[j] = cs[j] /\ CutsIn(ds, i, j) = CutsIn(cs, i, j)
           \/ j = n /\ x.action = "W" /\ ds[j] = x
    BY <1>4, <1>5
  <2>2. CASE j \in CastsOf(cs, "W") /\ ds[j] = cs[j] /\ CutsIn(ds, i, j) = CutsIn(cs, i, j)
    BY <1>5, <2>1, <2>2 DEF Spacing
  <2>3. CASE j = n /\ x.action = "W" /\ ds[j] = x
    BY <2>1, <2>3
  <2> QED
    BY <2>1, <2>2, <2>3
<1>6. ASSUME NEW j \in CastsOf(ds, "E"), NEW i \in CastsOf(ds, "E"), i < j, CutsIn(ds, i, j) = 0
      PROVE  ds[j].at - ds[i].at >= ECooldown
  BY <1>4, <1>6 DEF Spacing
<1>7. ASSUME NEW j \in CastsOf(ds, "R"), NEW i \in CastsOf(ds, "R"), i < j
      PROVE  ds[j].at - ds[i].at >= RCooldown
  BY <1>4, <1>7 DEF Spacing
<1> QED
  BY <1>5, <1>6, <1>7 DEF Spacing

(* The cuts that are in the book are among those that the new cast counts.  *)
LEMMA CutsCounted ==
  ASSUME NEW e, NEW cs, NEW now \in Int, Turns(cs, now), NEW x, x.at \in Int, now <= x.at,
         x.action # "R", NEW ds, NEW n, OneMore(cs, x, ds, n), NEW i \in DOMAIN cs
  PROVE  /\ CutsIn(ds, i, n) \in Nat
         /\ Cardinality(Begun(cs, i)) + Cardinality(Ended(e, cs, now, i)) <= CutsIn(ds, i, n)
         /\ CutsIn(ds, i, n) = 0 => Begun(cs, i) = {} /\ Ended(e, cs, now, i) = {}
<1> DEFINE A == {k \in CastsOf(ds, "R") : i < k /\ k <= n}
           B == {k \in CastsOf(ds, "R") : /\ k <= n /\ End(ds, k) >= ds[i].at - Epsilon
                                          /\ End(ds, k) <= ds[n].at + Epsilon}
           C == Begun(cs, i)
           D == Ended(e, cs, now, i)
<1>1. /\ Listing(cs)
      /\ \A k \in CastsOf(cs, "R") : k \in DOMAIN cs /\ End(cs, k) \in Int
  BY TurnFacts DEF Abilities
<1>2. /\ Listing(ds) /\ ds[n] = x /\ n \in Nat
      /\ \A k \in DOMAIN cs : k \in Nat /\ k < n /\ ds[k] = cs[k] /\ End(ds, k) = End(cs, k)
      /\ CastsOf(ds, "R") = CastsOf(cs, "R")
  BY DEF OneMore
<1>3. A = C
  BY <1>1, <1>2 DEF Begun
<1>4. D \subseteq B
  <2>1. \A k \in CastsOf(cs, "R") : End(cs, k) <= now + Epsilon => End(cs, k) <= x.at + Epsilon
    BY <1>1, UnitFacts
  <2> QED
    BY <1>1, <1>2, <2>1, SMTT(30) DEF Ended
<1>5. CutsIn(ds, i, n) = Cardinality(A) + Cardinality(B)
  BY DEF CutsIn
<1>6. B \subseteq CastsOf(cs, "R") /\ C \subseteq CastsOf(cs, "R")
  BY <1>2 DEF Begun
<1> HIDE DEF A, B, C, D
<1>7. /\ Cardinality(D) <= Cardinality(B) /\ Cardinality(D) \in Nat /\ Cardinality(B) \in Nat
      /\ Cardinality(C) \in Nat /\ IsFiniteSet(B) /\ IsFiniteSet(C)
  BY <1>1, <1>4, <1>6, MoreCuts, CastsFinite
<1>8. CutsIn(ds, i, n) = 0 => C = {} /\ D = {}
  <2>1. CutsIn(ds, i, n) = 0 => Cardinality(C) = 0 /\ Cardinality(B) = 0
    BY <1>3, <1>5, <1>7
  <2> QED
    BY <1>4, <1>7, <2>1, FS_EmptySet
<1> QED
  BY <1>3, <1>5, <1>7, <1>8 DEF C, D

LEMMA CutsOfOthers ==
  ASSUME NEW cs, NEW x, NEW ds, NEW n, OneMore(cs, x, ds, n), x.action # "R",
         NEW e, NEW f, f.rExitHandled = e.rExitHandled, NEW now, NEW i \in DOMAIN cs
  PROVE  Begun(ds, i) = Begun(cs, i) /\ Ended(f, ds, now, i) = Ended(e, cs, now, i)
<1>1. /\ CastsOf(ds, "R") = CastsOf(cs, "R") /\ ds[i] = cs[i]
      /\ \A k \in CastsOf(cs, "R") : End(ds, k) = End(cs, k)
  BY DEF OneMore
<1>2. \A k : Over(f, ds, k) <=> Over(e, cs, k)
  BY <1>1 DEF Over
<1> QED
  BY <1>1, <1>2 DEF Begun, Ended

(* A turn that is no cast of R, W or E.                                     *)
LEMMA BookOther ==
  ASSUME NEW e, NEW cs, NEW now, Book(e, cs, now), Spacing(cs),
         NEW x, NEW ds, NEW n, OneMore(cs, x, ds, n), x.action \notin Abilities
  PROVE  Book(e, ds, now) /\ Spacing(ds)
<1>1. x.action # "R" /\ x.action # "W" /\ x.action # "E"
  BY DEF Abilities
<1>2. /\ CastsOf(ds, "R") = CastsOf(cs, "R") /\ CastsOf(ds, "W") = CastsOf(cs, "W")
      /\ CastsOf(ds, "E") = CastsOf(cs, "E")
      /\ \A a : CastsOf(cs, a) \subseteq DOMAIN cs
      /\ Listing(ds) /\ DOMAIN ds = DOMAIN cs \cup {n} /\ ds[n] = x
      /\ \A k \in DOMAIN cs : ds[k] = cs[k] /\ End(ds, k) = End(cs, k)
  BY <1>1 DEF OneMore
<1>3. \A i \in DOMAIN cs : Begun(ds, i) = Begun(cs, i) /\ Ended(e, ds, now, i) = Ended(e, cs, now, i)
  BY <1>1, CutsOfOthers
<1>4. Turns(ds, now)
  <2>1. \A k \in DOMAIN ds : ds[k].action \in Abilities => k \in DOMAIN cs /\ ds[k] = cs[k]
    BY <1>2
  <2> QED
    BY <1>2, <2>1 DEF Book, Turns
<1>5. LastR(e, ds)
  BY <1>2 DEF Book, LastR
<1>6. BackR(e, ds) /\ BackE(e, ds, now)
  BY <1>2, <1>3 DEF Book, BackR, BackE
<1>7. BackW(e, ds, now)
  BY <1>2, <1>3 DEF Book, BackW
<1>8. Spacing(ds)
  BY <1>1, SpacingGrows
<1> QED
  BY <1>4, <1>5, <1>6, <1>7, <1>8 DEF Book

(* The turns of a list that has a cast of R, W or E more.                   *)
LEMMA TurnsGrow ==
  ASSUME NEW cs, NEW time \in Int, 0 <= time, Turns(cs, time),
         NEW x, NEW ds, NEW n, OneMore(cs, x, ds, n), x.at = time,
         NEW lock \in Nat, x.action = "W" => lock = Second \div 2
  PROVE  Turns(ds, time + lock)
<1>1. /\ Listing(ds) /\ DOMAIN ds = DOMAIN cs \cup {n} /\ n \notin DOMAIN cs /\ ds[n] = x /\ n \in Nat
      /\ \A k \in DOMAIN cs : k \in Nat /\ k < n /\ ds[k] = cs[k]
      /\ CastsOf(ds, "W") = IF x.action = "W" THEN CastsOf(cs, "W") \cup {n} ELSE CastsOf(cs, "W")
      /\ CastsOf(cs, "W") \subseteq DOMAIN cs
  BY DEF OneMore
<1>2. \A k \in DOMAIN cs : cs[k].action \in Abilities =>
        cs[k].at \in Int /\ 0 <= cs[k].at /\ cs[k].at <= time
  BY DEF Turns
<1>3. \A k \in DOMAIN ds : ds[k].action \in Abilities =>
        ds[k].at \in Int /\ 0 <= ds[k].at /\ ds[k].at <= time + lock
  BY <1>1, <1>2
<1>4. ASSUME NEW k \in CastsOf(ds, "W") PROVE ds[k].at + Second \div 2 <= time + lock
  <2>1. CASE k \in CastsOf(cs, "W")
    <3>1. ds[k] = cs[k] /\ cs[k].at + Second \div 2 <= time /\ cs[k].at \in Int
      BY <1>1, <1>2, <2>1 DEF Turns, CastsOf, Abilities
    <3> QED
      BY <3>1, LocksAre
  <2>2. CASE k = n /\ x.action = "W"
    BY <1>1, <2>2, LocksAre
  <2> QED
    BY <1>1, <1>4, <2>1, <2>2
<1>5. ASSUME NEW i \in DOMAIN ds, NEW j \in DOMAIN ds,
             ds[i].action \in Abilities, ds[j].action \in Abilities, i < j
      PROVE  ds[i].at <= ds[j].at
  <2>1. i \in DOMAIN cs
    BY <1>1, <1>5
  <2>2. CASE j \in DOMAIN cs
    BY <1>1, <1>5, <2>1, <2>2 DEF Turns
  <2>3. CASE j = n
    BY <1>1, <1>2, <1>5, <2>1, <2>3
  <2> QED
    BY <1>1, <2>2, <2>3
<1> QED
  BY <1>1, <1>3, <1>4, <1>5 DEF Turns

(* A cast of W or of E: the book e at the time of the cast, and what the    *)
(* engine f remembers of it.                                                *)
LEMMA BookWE ==
  ASSUME fight \in Fights, NEW e, Shape(e), NEW cs, NEW time \in Int, 0 <= time, Book(e, cs, time),
         ~e.rExitHandled => time < e.rUntil - Epsilon,
         NEW x, NEW ds, NEW n, OneMore(cs, x, ds, n), x.at = time,
         NEW lock \in Nat, NEW f,
         f.rUntil = e.rUntil, f.rExitHandled = e.rExitHandled, f.rReadyAt = e.rReadyAt,
         \/ /\ x.action = "W" /\ lock = Second \div 2
            /\ f.wReadyAt = time + WCooldown /\ f.eReadyAt = e.eReadyAt
         \/ /\ x.action = "E"
            /\ f.eReadyAt = time + ECooldown /\ f.wReadyAt = e.wReadyAt
  PROVE  Book(f, ds, time + lock)
<1> DEFINE now == time + lock
<1>1. now \in Int /\ time <= now
  OBVIOUS
<1> HIDE DEF now
<1>2. Book(e, cs, now)
  BY <1>1, BookLater
<1>3. x.action # "R" /\ x.action \in {"W", "E"} /\ (x.action = "W" => lock = Second \div 2)
  OBVIOUS
<1>4. /\ CastsOf(ds, "R") = CastsOf(cs, "R")
      /\ \A a \in {"W", "E"} : \/ x.action # a /\ CastsOf(ds, a) = CastsOf(cs, a)
                               \/ x.action = a /\ CastsOf(ds, a) = CastsOf(cs, a) \cup {n}
      /\ \A a : CastsOf(cs, a) \subseteq DOMAIN cs
      /\ n \notin DOMAIN cs /\ ds[n] = x
      /\ \A k \in DOMAIN cs : k \in Nat /\ k < n /\ ds[k] = cs[k] /\ End(ds, k) = End(cs, k)
  BY <1>3 DEF OneMore
<1>5. \A i \in DOMAIN cs : Begun(ds, i) = Begun(cs, i) /\ Ended(f, ds, now, i) = Ended(e, cs, now, i)
  BY <1>3, CutsOfOthers
<1>6. Turns(ds, now)
  BY <1>3, TurnsGrow DEF Book, now
<1>7. LastR(f, ds)
  BY <1>4 DEF Book, LastR
<1>8. BackR(f, ds)
  BY <1>4 DEF Book, BackR
<1>9. \A a \in Abilities : \A k \in CastsOf(cs, a) : cs[k].at \in Int /\ cs[k].at <= time
  BY TurnFacts DEF Book
<1>10. BackE(f, ds, now)
  <2>1. ASSUME NEW i \in CastsOf(cs, "E")
        PROVE  ds[i].at + ECooldown <= f.eReadyAt \/ Begun(ds, i) # {} \/ Ended(f, ds, now, i) # {}
    <3>1. CASE f.eReadyAt = e.eReadyAt
      BY <1>2, <1>4, <1>5, <2>1, <3>1 DEF Book, BackE
    <3>2. CASE f.eReadyAt = time + ECooldown
      <4>1. ds[i] = cs[i] /\ cs[i].at \in Int /\ cs[i].at <= time
        BY <1>4, <1>9, <2>1 DEF Abilities
      <4> QED
        BY <3>2, <4>1, CooldownsAre
    <3> QED
      BY <3>1, <3>2
  <2>2. ASSUME x.action = "E" PROVE ds[n].at + ECooldown <= f.eReadyAt
    BY <1>4, <2>2, CooldownsAre
  <2> QED
    BY <1>4, <2>1, <2>2 DEF BackE
<1>11. BackW(f, ds, now)
  <2> DEFINE Kept(i) ==
        \/ ds[i].at + WCooldown <= f.wReadyAt
        \/ \E m \in Nat \ {0} :
             /\ m <= Cardinality(Begun(ds, i)) + Cardinality(Ended(f, ds, now, i))
             /\ f.wReadyAt - ds[i].at + Grid > Fifths[m]
             /\ ~f.rExitHandled => f.rUntil - ds[i].at >= Second
  <2>1. ASSUME NEW i \in CastsOf(cs, "W") PROVE Kept(i)
    <3>1. ds[i] = cs[i] /\ cs[i].at \in Int /\ cs[i].at <= time
      BY <1>4, <1>9, <2>1 DEF Abilities
    <3>2. CASE f.wReadyAt = e.wReadyAt
      <4>1. i \in DOMAIN cs
        BY <1>4, <2>1
      <4> QED
        BY <1>2, <1>5, <2>1, <3>1, <3>2, <4>1 DEF Book, BackW
    <3>3. CASE f.wReadyAt = time + WCooldown
      BY <3>1, <3>3, CooldownsAre
    <3> QED
      BY <3>2, <3>3
  <2>2. ASSUME x.action = "W" PROVE Kept(n)
    BY <1>4, <2>2, CooldownsAre
  <2>3. \A i \in CastsOf(ds, "W") : Kept(i)
    <3> HIDE DEF Kept
    <3> QED
      BY <1>4, <2>1, <2>2
  <2> QED
    BY <2>3 DEF BackW
<1> QED
  BY <1>6, <1>7, <1>8, <1>10, <1>11 DEF Book, now

(* A cast of R begins one, makes E ready and is one cut more for every W    *)
(* before it.                                                               *)
LEMMA BookR ==
  ASSUME fight \in Fights, NEW e, Shape(e), NEW cs, NEW time \in Int, 0 <= time, Book(e, cs, time),
         NEW x, NEW ds, NEW n, OneMore(cs, x, ds, n), x.at = time, x.action = "R",
         e.rReadyAt <= time, NEW f,
         f.rUntil = time + Seconds(15), f.rExitHandled = FALSE,
         f.wReadyAt = Reduced(e.wReadyAt, time), f.eReadyAt = time,
         f.rReadyAt = time + RCooldown
  PROVE  Book(f, ds, time)
<1>1. /\ CastsOf(ds, "R") = CastsOf(cs, "R") \cup {n}
      /\ CastsOf(ds, "W") = CastsOf(cs, "W") /\ CastsOf(ds, "E") = CastsOf(cs, "E")
      /\ \A a : CastsOf(cs, a) \subseteq DOMAIN cs
      /\ n \notin DOMAIN cs /\ n \in Nat /\ ds[n] = x /\ End(ds, n) = time + Seconds(15)
      /\ \A k \in DOMAIN cs : k \in Nat /\ k < n /\ ds[k] = cs[k] /\ End(ds, k) = End(cs, k)
      /\ Listing(cs) /\ Listing(ds)
  BY DEF OneMore
<1>2. Turns(ds, time)
  <2>1. Turns(ds, time + 0)
    <3>1. 0 \in Nat /\ (x.action = "W" => 0 = Second \div 2)
      OBVIOUS
    <3> QED
      BY <3>1, TurnsGrow DEF Book
  <2>2. time + 0 = time
    OBVIOUS
  <2> QED
    BY <2>1, <2>2
<1>3. LastR(f, ds)
  <2>1. n \in CastsOf(ds, "R") /\ \A j \in CastsOf(ds, "R") : j <= n
    BY <1>1
  <2>2. \A i \in CastsOf(ds, "W") \cup CastsOf(ds, "E") : i < n
    BY <1>1
  <2> QED
    BY <1>1, <2>1, <2>2 DEF LastR
<1>4. RCooldown \in Nat /\ WCooldown \in Nat /\ e.wReadyAt \in Int /\ e.rReadyAt \in Int
  BY CooldownsAre DEF Shape
<1>5. \A a \in Abilities : \A k \in CastsOf(cs, a) : cs[k].at \in Int /\ cs[k].at <= time
  BY TurnFacts DEF Book
<1>6. BackR(f, ds)
  <2>1. \A i \in CastsOf(cs, "R") : cs[i].at + RCooldown <= time + RCooldown
    BY <1>4, <1>5 DEF Abilities
  <2>2. \A i \in CastsOf(cs, "R") : ds[i].at = cs[i].at
    BY <1>1
  <2>3. ds[n].at = time
    BY <1>1
  <2>4. \A i \in CastsOf(ds, "R") : ds[i].at + RCooldown <= time + RCooldown
    <3>1. ASSUME NEW i \in CastsOf(cs, "R") PROVE ds[i].at + RCooldown <= time + RCooldown
      BY <2>1, <2>2
    <3>2. time + RCooldown <= time + RCooldown
      BY <1>4
    <3> QED
      BY <1>1, <2>3, <3>1, <3>2
  <2> QED
    BY <2>4 DEF BackR
<1>7. \A i \in DOMAIN cs : Begun(ds, i) = Begun(cs, i) \cup {n}
  BY <1>1 DEF Begun
<1>8. BackE(f, ds, time)
  BY <1>1, <1>7 DEF BackE
<1>9. ASSUME NEW i \in CastsOf(cs, "W")
      PROVE  \/ ds[i].at + WCooldown <= f.wReadyAt
             \/ \E m \in Nat \ {0} :
                  /\ m <= Cardinality(Begun(ds, i)) + Cardinality(Ended(f, ds, time, i))
                  /\ f.wReadyAt - ds[i].at + Grid > Fifths[m]
                  /\ ~f.rExitHandled => f.rUntil - ds[i].at >= Second
  <2> DEFINE w == e.wReadyAt
             a == cs[i].at
             r == Reduced(w, time)
             B == Cardinality(Begun(cs, i))
             M == Cardinality(Ended(e, cs, time, i))
             C == Cardinality(Begun(ds, i))
             N == Cardinality(Ended(f, ds, time, i))
  <2>1. B \in Nat /\ M \in Nat /\ N \in Nat
    BY <1>1, CutsAreNatural
  <2>2. C = B + 1
    <3>1. Begun(cs, i) \subseteq CastsOf(cs, "R")
      BY DEF Begun
    <3>2. IsFiniteSet(Begun(cs, i)) /\ n \notin Begun(cs, i)
      BY <1>1, <3>1, CastsFinite
    <3>3. Begun(ds, i) = Begun(cs, i) \cup {n}
      BY <1>1, <1>7
    <3> QED
      BY <3>2, <3>3, FS_AddElement
  <2>3. M <= N
    <3>1. Ended(e, cs, time, i) \subseteq Ended(f, ds, time, i)
      <4>1. \A k \in CastsOf(cs, "R") : Over(f, ds, k)
        BY <1>1 DEF Over
      <4>2. i \in DOMAIN cs
        BY <1>1
      <4> QED
        BY <1>1, <4>1, <4>2 DEF Ended
    <3>2. Ended(f, ds, time, i) \subseteq CastsOf(ds, "R")
      BY DEF Ended
    <3> QED
      BY <1>1, <3>1, <3>2, MoreCuts
  <2>4. a \in Int /\ a + Second \div 2 <= time /\ ds[i].at = a
    BY <1>1, <1>5 DEF Book, Turns, Abilities
  <2>5. \/ a + WCooldown <= w
        \/ \E m \in Nat \ {0} : m <= B + M /\ w - a + Grid > Fifths[m]
    BY DEF Book, BackW
  <2> HIDE DEF w, a, B, M, C, N
  <2>6. a <= time /\ 4 * (time - a) >= Grid
    <3>1. Second \div 2 \in Nat /\ 4 * (Second \div 2) >= Grid /\ Grid \in Nat
      BY LocksAre, UnitFacts
    <3> DEFINE h == Second \div 2
    <3> HIDE DEF h
    <3>2. h \in Nat /\ 4 * h >= Grid /\ a + h <= time
      BY <2>4, <3>1 DEF h
    <3> QED
      BY <2>4, <3>1, <3>2
  <2>7. f.rUntil - a >= Second
    BY <2>4, <2>6, UnitFacts DEF Seconds
  <2>8. w \in Int /\ f.wReadyAt = r
    BY <1>4 DEF w
  <2>9. SUFFICES a + WCooldown <= r \/ \E m \in Nat \ {0} : m <= C + N /\ r - a + Grid > Fifths[m]
    BY <2>4, <2>7, <2>8 DEF C, N
  <2>10. CASE a + WCooldown <= w
    <3>1. CASE w <= time
      BY <2>8, <2>10, <3>1, ReducedIs
    <3>2. CASE ~(w <= time)
      <4>1. w - a >= WCooldown /\ w > time
        BY <1>4, <2>4, <2>8, <2>10, <3>2
      <4>2. r - a + Grid > WCooldown \div 5
        BY <1>4, <2>4, <2>6, <2>8, <4>1, NextFifth
      <4>3. Fifths[1] = WCooldown \div 5
        <5>1. Fifths[0 + 1] = Fifths[0] \div 5 /\ Fifths[0] = WCooldown
          BY FifthsAre
        <5> QED
          BY <5>1
      <4>4. 1 \in Nat \ {0} /\ 1 <= C + N
        BY <2>1, <2>2
      <4> QED
        BY <4>2, <4>3, <4>4
    <3> QED
      BY <3>1, <3>2
  <2>11. CASE \E m \in Nat \ {0} : m <= B + M /\ w - a + Grid > Fifths[m]
    <3>1. PICK m \in Nat \ {0} : m <= B + M /\ w - a + Grid > Fifths[m]
      BY <2>11
    <3>2. CASE w <= time
      <4>1. m <= C + N /\ r = w
        BY <2>1, <2>2, <2>3, <2>8, <3>1, <3>2, ReducedIs
      <4> QED
        BY <3>1, <4>1
    <3>3. CASE ~(w <= time)
      <4>1. w > time
        BY <2>8, <3>3
      <4>2. Fifths[m] \in Nat /\ Fifths[m + 1] = Fifths[m] \div 5
        BY FifthsAre
      <4>3. r - a + Grid > Fifths[m] \div 5
        BY <2>4, <2>6, <2>8, <3>1, <4>1, <4>2, NextFifth
      <4>4. m + 1 \in Nat \ {0} /\ m + 1 <= C + N
        BY <2>1, <2>2, <2>3, <3>1
      <4> QED
        BY <4>2, <4>3, <4>4
    <3> QED
      BY <3>2, <3>3
  <2> QED
    BY <2>5, <2>10, <2>11
<1>10. BackW(f, ds, time)
  BY <1>1, <1>9 DEF BackW
<1> QED
  BY <1>2, <1>3, <1>6, <1>8, <1>10 DEF Book

(* A cast that waits until its ability is ready keeps its distance.         *)
LEMMA CastsSpaced ==
  ASSUME fight \in Fights, NEW r, Shape(r), NEW cs, NEW now \in Int, Book(r, cs, now), Spacing(cs),
         NEW time \in Int, now <= time,
         NEW x, NEW ds, NEW n, OneMore(cs, x, ds, n), x.at = time,
         \/ x.action = "R" /\ r.rReadyAt <= time
         \/ x.action = "W" /\ r.wReadyAt <= time
         \/ x.action = "E" /\ r.eReadyAt <= time
  PROVE  Spacing(ds)
<1>1. /\ \A a : CastsOf(cs, a) \subseteq DOMAIN cs
      /\ RCooldown \in Nat /\ WCooldown \in Nat /\ ECooldown \in Nat
      /\ r.rReadyAt \in Int /\ r.wReadyAt \in Int /\ r.eReadyAt \in Int
  BY CooldownsAre DEF OneMore, Shape
<1>2. \A a \in Abilities : \A k \in CastsOf(cs, a) : cs[k].at \in Int
  BY TurnFacts DEF Book
<1>3. CASE x.action = "R" /\ r.rReadyAt <= time
  <2>1. \A i \in CastsOf(cs, "R") : cs[i].at \in Int /\ cs[i].at + RCooldown <= r.rReadyAt
    BY <1>2 DEF Book, BackR, Abilities
  <2>2. \A i \in CastsOf(cs, "R") : x.at - cs[i].at >= RCooldown
    BY <1>1, <1>3, <2>1
  <2> QED
    BY <1>3, <2>2, SpacingGrows
<1>4. ASSUME x.action # "R", NEW i \in DOMAIN cs
      PROVE  /\ CutsIn(ds, i, n) \in Nat
             /\ Cardinality(Begun(cs, i)) + Cardinality(Ended(r, cs, now, i)) <= CutsIn(ds, i, n)
             /\ CutsIn(ds, i, n) = 0 => Begun(cs, i) = {} /\ Ended(r, cs, now, i) = {}
  BY <1>4, CutsCounted DEF Book
<1>5. CASE x.action = "E" /\ r.eReadyAt <= time
  <2>1. ASSUME NEW i \in CastsOf(cs, "E"), CutsIn(ds, i, n) = 0
        PROVE  x.at - cs[i].at >= ECooldown
    <3>1. Begun(cs, i) = {} /\ Ended(r, cs, now, i) = {}
      BY <1>1, <1>4, <1>5, <2>1
    <3>2. cs[i].at + ECooldown <= r.eReadyAt /\ cs[i].at \in Int
      BY <1>2, <2>1, <3>1 DEF Book, BackE, Abilities
    <3> QED
      BY <1>1, <1>5, <3>2
  <2> QED
    BY <1>5, <2>1, SpacingGrows
<1>6. CASE x.action = "W" /\ r.wReadyAt <= time
  <2>1. ASSUME NEW i \in CastsOf(cs, "W")
        PROVE  IF CutsIn(ds, i, n) = 0 THEN x.at - cs[i].at >= WCooldown
               ELSE x.at - cs[i].at + Grid > Fifths[CutsIn(ds, i, n)]
    <3> DEFINE N == CutsIn(ds, i, n)
               a == cs[i].at
               w == r.wReadyAt
               B == Cardinality(Begun(cs, i)) + Cardinality(Ended(r, cs, now, i))
    <3>1. N \in Nat /\ B <= N
      BY <1>1, <1>4, <1>6, <2>1
    <3>2. B \in Nat
      BY CutsAreNatural DEF OneMore
    <3>3. a \in Int /\ w \in Int /\ w <= time /\ Grid \in Nat /\ Grid > 0
      BY <1>1, <1>2, <1>6, <2>1, UnitFacts DEF Abilities
    <3>4. \/ a + WCooldown <= w
          \/ \E m \in Nat \ {0} : m <= B /\ w - a + Grid > Fifths[m]
      BY <2>1 DEF Book, BackW
    <3>5. Fifths[N] \in Nat /\ Fifths[N] <= WCooldown
      BY <3>1, FifthsAre, FifthsFall
    <3> HIDE DEF N, a, w, B
    <3>6. SUFFICES IF N = 0 THEN time - a >= WCooldown ELSE time - a + Grid > Fifths[N]
      BY DEF N, a
    <3>7. CASE a + WCooldown <= w
      BY <1>1, <3>3, <3>5, <3>7
    <3>8. CASE \E m \in Nat \ {0} : m <= B /\ w - a + Grid > Fifths[m]
      <4>1. PICK m \in Nat \ {0} : m <= B /\ w - a + Grid > Fifths[m]
        BY <3>8
      <4>2. m <= N /\ N # 0
        BY <3>1, <3>2, <4>1
      <4>3. Fifths[N] <= Fifths[m] /\ Fifths[m] \in Nat
        BY <3>1, <4>2, FifthsAre, FifthsFall
      <4> QED
        BY <3>3, <3>5, <4>1, <4>2, <4>3
    <3> QED
      BY <3>4, <3>7, <3>8
  <2> QED
    BY <1>6, <2>1, SpacingGrows
<1> QED
  BY <1>3, <1>5, <1>6

-----------------------------------------------------------------------------
(* The Opening Barrage. *)

(* When the last one began, the attacks of it so far, and those soon after  *)
(* a given one.                                                             *)
Opened(e) == e.fiendhunterReadyAt - Seconds(45)
Recent(e) == {n \in BarrageOf(e) : e.events[n].time >= Opened(e)}
SoonOf(e, i) == {n \in BarrageOf(e) : e.events[n].time - e.events[i].time
                                        \in 0 .. Seconds(45 - 8) - 2 * Epsilon - 1}

(* The attacks of the last barrage are counted, in its eight seconds, and   *)
(* those of an earlier one lie too far back to be soon before them.         *)
Opening(e, cs, now) ==
  /\ e.fiendhunterAttacks \in 0 .. 3
  /\ Opened(e) <= now
  /\ e.fiendhunterAttacks > 0 => /\ e.fiendhunterUntil = Opened(e) + Seconds(8)
                                 /\ \E k \in CastsOf(cs, "R") : cs[k].at = Opened(e)
  /\ Cardinality(Recent(e)) + e.fiendhunterAttacks <= 3
  /\ \A n \in BarrageOf(e) :
       LET t == e.events[n].time
       IN  /\ t >= Opened(e) => t <= Opened(e) + Seconds(8) + Epsilon
           /\ t < Opened(e) => t <= Opened(e) - Seconds(37) + 2 * Epsilon
           /\ \E k \in CastsOf(cs, "R") : t - cs[k].at \in 0 .. Seconds(8) + Epsilon
           /\ Cardinality(SoonOf(e, n)) <= 3

LEMMA VolleyIs ==
  ASSUME NEW e, Shape(e)
  PROVE  /\ IsFiniteSet(BarrageOf(e))
         /\ \A n \in BarrageOf(e) : e.events[n].time \in Int
         /\ \A S : S \subseteq BarrageOf(e) => IsFiniteSet(S) /\ Cardinality(S) \in Nat
         /\ Opened(e) \in Int
<1>1. IsFiniteSet(DOMAIN e.events)
  <2>1. Len(e.events) \in Nat /\ DOMAIN e.events = 1 .. Len(e.events)
    BY DEF Shape
  <2>2. IsFiniteSet(1 .. Len(e.events))
    <3> DEFINE size == Len(e.events)
    <3>1. size \in Nat
      BY <2>1
    <3> HIDE DEF size
    <3>2. IsFiniteSet(1 .. size)
      BY <3>1, FS_Interval
    <3> QED
      BY <3>2 DEF size
  <2> QED
    BY <2>1, <2>2
<1>2. IsFiniteSet(BarrageOf(e))
  <2>1. BarrageOf(e) \subseteq DOMAIN e.events
    BY DEF BarrageOf
  <2> QED
    BY <1>1, <2>1, FS_Subset
<1>3. \A n \in BarrageOf(e) : e.events[n].time \in Int
  BY DEF BarrageOf, Shape
<1>4. \A S : S \subseteq BarrageOf(e) => IsFiniteSet(S) /\ Cardinality(S) \in Nat
  BY <1>2, FS_Subset, FS_CardinalityType
<1>5. Opened(e) \in Int
  BY SecondsFacts, SMTT(30) DEF Opened, Shape
<1> QED
  BY <1>2, <1>3, <1>4, <1>5

LEMMA OpeningSame ==
  ASSUME NEW e, Shape(e), NEW f, SameVolley(e, f), LessBarrage(e, f), NEW cs, NEW now,
         Opening(e, cs, now)
  PROVE  Opening(f, cs, now)
<1>1. /\ BarrageOf(f) = BarrageOf(e)
      /\ \A i \in BarrageOf(e) : f.events[i].time = e.events[i].time
  BY DEF SameVolley
<1>2. /\ f.fiendhunterUntil = e.fiendhunterUntil /\ Opened(f) = Opened(e)
      /\ f.fiendhunterAttacks = e.fiendhunterAttacks \/ f.fiendhunterAttacks = 0
  BY DEF LessBarrage, Opened
<1>3. Recent(f) = Recent(e)
  BY <1>1, <1>2 DEF Recent
<1>4. \A i \in BarrageOf(e) : SoonOf(f, i) = SoonOf(e, i)
  BY <1>1 DEF SoonOf
<1>5. Cardinality(Recent(e)) \in Nat
  <2>1. Recent(e) \subseteq BarrageOf(e)
    BY DEF Recent
  <2> QED
    BY <2>1, VolleyIs
<1>6. /\ f.fiendhunterAttacks \in 0 .. 3
      /\ f.fiendhunterAttacks > 0 => f.fiendhunterAttacks = e.fiendhunterAttacks
      /\ Cardinality(Recent(f)) + f.fiendhunterAttacks <= 3
  BY <1>2, <1>3, <1>5 DEF Opening
<1>7. \A n \in BarrageOf(f) :
        LET t == f.events[n].time
        IN  /\ t >= Opened(f) => t <= Opened(f) + Seconds(8) + Epsilon
            /\ t < Opened(f) => t <= Opened(f) - Seconds(37) + 2 * Epsilon
            /\ \E k \in CastsOf(cs, "R") : t - cs[k].at \in 0 .. Seconds(8) + Epsilon
            /\ Cardinality(SoonOf(f, n)) <= 3
  BY <1>1, <1>2, <1>4 DEF Opening
<1> QED
  BY <1>2, <1>6, <1>7 DEF Opening

LEMMA OpeningWaits ==
  ASSUME NEW e, Shape(e), NEW f, Waits(e, f), NEW cs, NEW now, Opening(e, cs, now)
  PROVE  Opening(f, cs, now)
BY OpeningSame DEF Waits

LEMMA OpeningQuiet ==
  ASSUME NEW e, Shape(e), NEW f, SameDamage(e, f), SameBarrage(e, f), NEW cs, NEW now,
         Opening(e, cs, now)
  PROVE  Opening(f, cs, now)
<1>1. SameVolley(e, f)
  BY DEF SameDamage, SameVolley, BarrageOf
<1>2. LessBarrage(e, f)
  BY DEF SameBarrage, LessBarrage
<1> QED
  BY <1>1, <1>2, OpeningSame

(* Later, and with a cast more.                                             *)
LEMMA OpeningLater ==
  ASSUME NEW e, Shape(e), NEW cs, NEW now \in Int, Opening(e, cs, now), NEW later \in Int, now <= later
  PROVE  Opening(e, cs, later)
<1>1. Opened(e) <= later
  BY VolleyIs DEF Opening
<1> QED
  BY <1>1 DEF Opening

LEMMA OpeningGrows ==
  ASSUME NEW e, NEW cs, NEW now, Opening(e, cs, now), NEW x, NEW ds, NEW n, OneMore(cs, x, ds, n)
  PROVE  Opening(e, ds, now)
<1>1. \A k \in CastsOf(cs, "R") : k \in CastsOf(ds, "R") /\ ds[k] = cs[k]
  BY DEF OneMore
<1> QED
  BY <1>1 DEF Opening

(* An attack that is one of the barrage.                                    *)
LEMMA OpeningShot ==
  ASSUME NEW e, Shape(e), NEW f, Shape(f), NEW time \in Int, Logged(e, f, time, "attack", TRUE),
         f.fiendhunterUntil = e.fiendhunterUntil, f.fiendhunterReadyAt = e.fiendhunterReadyAt,
         e.fiendhunterAttacks > 0, time <= e.fiendhunterUntil + Epsilon,
         f.fiendhunterAttacks = e.fiendhunterAttacks - 1,
         NEW cs, NEW now \in Int, now <= time, Opening(e, cs, now)
  PROVE  Opening(f, cs, now)
<1> DEFINE s == Opened(e)
           width == Seconds(37) - 2 * Epsilon - 1
<1>1. PICK n : /\ n \notin BarrageOf(e) /\ BarrageOf(f) = BarrageOf(e) \cup {n}
               /\ f.events[n].time = time
               /\ \A i \in BarrageOf(e) : f.events[i].time = e.events[i].time
  <2>1. TRUE \in BOOLEAN
    OBVIOUS
  <2> QED
    BY <2>1, LoggedVolley, ZenonT(30)
<1>2. /\ Opened(f) = s /\ s \in Int /\ s <= now /\ s <= time
      /\ e.fiendhunterAttacks \in 1 .. 3 /\ e.fiendhunterUntil = s + Seconds(8)
      /\ Seconds(8) \in Int /\ Seconds(37) \in Int /\ Epsilon \in Nat
  BY VolleyIs, SecondsFacts, UnitFacts DEF Opening, Opened
<1>3. PICK k \in CastsOf(cs, "R") : cs[k].at = s
  BY DEF Opening
<1>4. \A i \in BarrageOf(e) : e.events[i].time \in Int
  BY VolleyIs
<1>5. Recent(f) = Recent(e) \cup {n}
  BY <1>1, <1>2 DEF Recent
<1>6. IsFiniteSet(Recent(e)) /\ Cardinality(Recent(e)) \in Nat /\ n \notin Recent(e)
  <2>1. Recent(e) \subseteq BarrageOf(e)
    BY DEF Recent
  <2> QED
    BY <1>1, <2>1, VolleyIs
<1>7. Cardinality(Recent(f)) = Cardinality(Recent(e)) + 1
  BY <1>5, <1>6, FS_AddElement
<1>8. Cardinality(Recent(f)) + f.fiendhunterAttacks <= 3 /\ f.fiendhunterAttacks \in 0 .. 3
  BY <1>2, <1>6, <1>7 DEF Opening
<1>9. Seconds(45 - 8) = Seconds(37)
  OBVIOUS
<1>10. ASSUME NEW i \in BarrageOf(f), f.events[i].time >= s
       PROVE  Cardinality(SoonOf(f, i)) <= 3
  <2>1. f.events[i].time \in Int /\ \A m \in BarrageOf(f) : f.events[m].time \in Int
    BY <1>10, VolleyIs
  <2>2. SoonOf(f, i) \subseteq Recent(f)
    <3>1. ASSUME NEW m \in SoonOf(f, i) PROVE m \in BarrageOf(f) /\ f.events[m].time >= s
      <4>1. m \in BarrageOf(f) /\ f.events[m].time - f.events[i].time \in 0 .. width
        BY <1>9, <3>1 DEF SoonOf
      <4>2. f.events[m].time >= f.events[i].time
        <5> HIDE DEF width
        <5>1. f.events[m].time - f.events[i].time >= 0
          BY <2>1, <4>1
        <5> QED
          BY <2>1, <4>1, <5>1
      <4> QED
        BY <1>2, <1>10, <2>1, <4>1, <4>2
    <3> QED
      BY <1>2, <3>1 DEF Recent
  <2>3. IsFiniteSet(Recent(f)) /\ Cardinality(Recent(f)) \in Nat /\ Cardinality(Recent(f)) <= 3
    BY <1>5, <1>6, <1>7, <1>8, FS_AddElement
  <2>4. Cardinality(SoonOf(f, i)) <= Cardinality(Recent(f)) /\ Cardinality(SoonOf(f, i)) \in Nat
    BY <2>2, <2>3, FS_Subset, FS_CardinalityType
  <2> QED
    BY <2>3, <2>4
<1>11. ASSUME NEW i \in BarrageOf(e), e.events[i].time < s
       PROVE  Cardinality(SoonOf(f, i)) <= 3
  <2>1. e.events[i].time \in Int /\ e.events[i].time <= s - Seconds(37) + 2 * Epsilon
    BY <1>2, <1>4, <1>11 DEF Opening
  <2>2. time - e.events[i].time \notin 0 .. width
    BY <1>2, <2>1
  <2>3. SoonOf(f, i) = SoonOf(e, i)
    <3> HIDE DEF width
    <3>1. \A m \in BarrageOf(f) :
            f.events[m].time - f.events[i].time \in 0 .. width <=>
              m \in BarrageOf(e) /\ e.events[m].time - e.events[i].time \in 0 .. width
      BY <1>1, <1>11, <2>2
    <3> QED
      BY <1>1, <1>9, <3>1 DEF SoonOf, width
  <2> QED
    BY <1>11, <2>3 DEF Opening
<1>12. ASSUME NEW i \in BarrageOf(f)
       PROVE  LET t == f.events[i].time
              IN  /\ t >= s => t <= s + Seconds(8) + Epsilon
                  /\ t < s => t <= s - Seconds(37) + 2 * Epsilon
                  /\ \E j \in CastsOf(cs, "R") : t - cs[j].at \in 0 .. Seconds(8) + Epsilon
                  /\ Cardinality(SoonOf(f, i)) <= 3
  <2>1. CASE i = n
    <3>1. f.events[i].time = time /\ time >= s /\ time <= s + Seconds(8) + Epsilon
      BY <1>1, <1>2, <2>1
    <3>2. time - cs[k].at \in 0 .. Seconds(8) + Epsilon
      BY <1>2, <1>3, <3>1
    <3> QED
      BY <1>2, <1>3, <1>10, <3>1, <3>2
  <2>2. CASE i \in BarrageOf(e)
    <3>1. f.events[i].time = e.events[i].time /\ e.events[i].time \in Int
      BY <1>1, <1>4, <2>2
    <3>2. Cardinality(SoonOf(f, i)) <= 3
      <4>1. CASE e.events[i].time < s
        BY <1>11, <2>2, <4>1
      <4>2. CASE ~(e.events[i].time < s)
        BY <1>2, <1>10, <3>1, <4>2
      <4> QED
        BY <4>1, <4>2
    <3> QED
      BY <2>2, <3>1, <3>2 DEF Opening
  <2> QED
    BY <1>1, <2>1, <2>2
<1> HIDE DEF s
<1>13. f.fiendhunterUntil = s + Seconds(8) /\ \E j \in CastsOf(cs, "R") : cs[j].at = s
  BY <1>2, <1>3
<1> QED
  BY <1>2, <1>8, <1>12, <1>13 DEF Opening

(* An attack, whether it is one of the barrage or not, at or after the      *)
(* moment that the engine is at.                                            *)
LEMMA OpeningStruck ==
  ASSUME fight \in Fights, NEW e, Shape(e), NEW time \in Int, NEW f \in Attacked(e, time),
         NEW cs, NEW now \in Int, now <= time, Opening(e, cs, now)
  PROVE  Shape(f) /\ Opening(f, cs, now)
<1>1. /\ Shape(f)
      /\ f.fiendhunterUntil = e.fiendhunterUntil /\ f.fiendhunterReadyAt = e.fiendhunterReadyAt
  BY AttackEffect
<1>2. PICK had \in BOOLEAN :
        /\ SameDamage(e, f) \/ (Logged(e, f, time, "attack", had) /\ ~IsDead(e))
        /\ had => /\ e.fiendhunterAttacks > 0 /\ time <= e.fiendhunterUntil + Epsilon
                  /\ f.fiendhunterAttacks = e.fiendhunterAttacks - 1
        /\ ~had => f.fiendhunterAttacks \in {e.fiendhunterAttacks, 0}
  BY AttackEffect
<1>3. CASE ~had
  <2>1. LessBarrage(e, f)
    BY <1>1, <1>2, <1>3 DEF LessBarrage
  <2>2. SameVolley(e, f)
    <3>1. CASE SameDamage(e, f)
      BY <3>1 DEF SameDamage, SameVolley, BarrageOf
    <3>2. CASE Logged(e, f, time, "attack", had)
      BY <1>3, <3>2, LoggedVolley
    <3> QED
      BY <1>2, <3>1, <3>2
  <2> QED
    BY <1>1, <2>1, <2>2, OpeningSame
<1>4. CASE had /\ SameDamage(e, f)
  <2>1. SameVolley(e, f)
    BY <1>4 DEF SameDamage, SameVolley, BarrageOf
  <2>2. /\ BarrageOf(f) = BarrageOf(e)
        /\ \A i \in BarrageOf(e) : f.events[i].time = e.events[i].time
    BY <2>1 DEF SameVolley
  <2>3. Opened(f) = Opened(e)
    BY <1>1 DEF Opened
  <2>4. Recent(f) = Recent(e) /\ \A i \in BarrageOf(e) : SoonOf(f, i) = SoonOf(e, i)
    BY <2>2, <2>3 DEF Recent, SoonOf
  <2>5. Cardinality(Recent(e)) \in Nat
    <3>1. Recent(e) \subseteq BarrageOf(e)
      BY DEF Recent
    <3> QED
      BY <3>1, VolleyIs
  <2>6. /\ f.fiendhunterAttacks \in 0 .. 3
        /\ f.fiendhunterAttacks > 0 => e.fiendhunterAttacks > 0
        /\ Cardinality(Recent(f)) + f.fiendhunterAttacks <= 3
    BY <1>2, <1>4, <2>4, <2>5 DEF Opening
  <2> QED
    BY <1>1, <2>2, <2>3, <2>4, <2>6 DEF Opening
<1>5. CASE had /\ Logged(e, f, time, "attack", TRUE)
  BY <1>1, <1>2, <1>5, OpeningShot
<1>6. had = TRUE \/ ~had
  OBVIOUS
<1> QED
  BY <1>1, <1>2, <1>3, <1>4, <1>5, <1>6

LEMMA OpeningAttack ==
  ASSUME fight \in Fights, NEW e, Shape(e), NEW time \in Int, NEW f \in Attack(e, time),
         NEW cs, NEW now \in Int, now <= time, Opening(e, cs, now)
  PROVE  Shape(f) /\ Opening(f, cs, now)
<1> DEFINE d == DrainDamageThrough(e, time)
<1>1. Waits(e, d)
  BY DrainEffect
<1>2. f = e \/ f = d \/ f \in Attacked(d, time)
  BY DEF Attack
<1> HIDE DEF d
<1>3. Shape(d) /\ Opening(d, cs, now)
  BY <1>1, OpeningWaits DEF Waits
<1> QED
  BY <1>2, <1>3, OpeningStruck

(* R begins another, forty-five seconds after the last: what was of it lies *)
(* thirty-seven seconds back.                                               *)
LEMMA OpeningBegins ==
  ASSUME NEW e, Shape(e), NEW f, Shape(f), SameDamage(e, f),
         NEW time \in Int, time + Epsilon >= e.fiendhunterReadyAt,
         f.fiendhunterUntil = time + Seconds(8), f.fiendhunterReadyAt = time + Seconds(45),
         f.fiendhunterAttacks = 3,
         NEW cs, NEW now, Opening(e, cs, now),
         NEW x, NEW ds, NEW n, OneMore(cs, x, ds, n), x.action = "R", x.at = time
  PROVE  Opening(f, ds, time)
<1> DEFINE s == Opened(e)
<1>1. /\ Seconds(8) \in Int /\ Seconds(37) \in Int /\ Seconds(45) \in Int /\ Epsilon \in Nat
      /\ Seconds(45) = Seconds(37) + Seconds(8) /\ Seconds(8) > 2 * Epsilon
      /\ Seconds(37) > 2 * Epsilon
  BY UnitFacts DEF Seconds
<1>2. s \in Int /\ Opened(f) = time /\ time >= s + Seconds(45) - Epsilon
  <2>1. e.fiendhunterReadyAt \in Int
    BY DEF Shape
  <2>2. s = e.fiendhunterReadyAt - Seconds(45) /\ Opened(f) = (time + Seconds(45)) - Seconds(45)
    BY DEF Opened
  <2> HIDE DEF s
  <2> QED
    BY <1>1, <2>1, <2>2
<1>3. n \in CastsOf(ds, "R") /\ ds[n].at = time
  BY DEF OneMore
<1>4. \A k \in CastsOf(cs, "R") : k \in CastsOf(ds, "R") /\ ds[k] = cs[k]
  BY DEF OneMore
<1>5. /\ BarrageOf(f) = BarrageOf(e)
      /\ \A i \in BarrageOf(e) : f.events[i].time = e.events[i].time /\ SoonOf(f, i) = SoonOf(e, i)
      /\ \A i \in BarrageOf(e) : e.events[i].time \in Int
  BY VolleyIs DEF SameDamage, BarrageOf, SoonOf
<1>6. \A i \in BarrageOf(e) : e.events[i].time <= time - Seconds(37) + 2 * Epsilon
  <2> SUFFICES ASSUME NEW i \in BarrageOf(e)
               PROVE  e.events[i].time <= time - Seconds(37) + 2 * Epsilon
    OBVIOUS
  <2> DEFINE t == e.events[i].time
  <2>1. t >= s => t <= s + Seconds(8) + Epsilon
    BY DEF Opening
  <2>2. t < s => t <= s - Seconds(37) + 2 * Epsilon
    BY DEF Opening
  <2>3. t \in Int
    BY <1>5
  <2> HIDE DEF t, s
  <2>4. CASE t >= s
    BY <1>1, <1>2, <2>1, <2>3, <2>4 DEF t
  <2>5. CASE t < s
    BY <1>1, <1>2, <2>2, <2>3, <2>5 DEF t
  <2> QED
    BY <1>2, <2>3, <2>4, <2>5
<1>7. Recent(f) = {}
  BY <1>1, <1>2, <1>5, <1>6 DEF Recent
<1>8. Cardinality(Recent(f)) + f.fiendhunterAttacks <= 3
  BY <1>7, FS_EmptySet
<1>9. \A i \in BarrageOf(f) :
        LET t == f.events[i].time
        IN  /\ t >= Opened(f) => t <= Opened(f) + Seconds(8) + Epsilon
            /\ t < Opened(f) => t <= Opened(f) - Seconds(37) + 2 * Epsilon
            /\ \E k \in CastsOf(ds, "R") : t - ds[k].at \in 0 .. Seconds(8) + Epsilon
            /\ Cardinality(SoonOf(f, i)) <= 3
  <2> SUFFICES ASSUME NEW i \in BarrageOf(e)
               PROVE  LET t == e.events[i].time
                      IN  /\ t >= time => t <= time + Seconds(8) + Epsilon
                          /\ t < time => t <= time - Seconds(37) + 2 * Epsilon
                          /\ \E k \in CastsOf(ds, "R") : t - ds[k].at \in 0 .. Seconds(8) + Epsilon
                          /\ Cardinality(SoonOf(e, i)) <= 3
    BY <1>2, <1>5
  <2> DEFINE t == e.events[i].time
  <2>1. t \in Int /\ t <= time - Seconds(37) + 2 * Epsilon
    BY <1>5, <1>6
  <2>2. /\ \E k \in CastsOf(cs, "R") : t - cs[k].at \in 0 .. Seconds(8) + Epsilon
        /\ Cardinality(SoonOf(e, i)) <= 3
    BY DEF Opening
  <2>3. \E k \in CastsOf(ds, "R") : t - ds[k].at \in 0 .. Seconds(8) + Epsilon
    BY <1>4, <2>2
  <2> HIDE DEF t
  <2>4. ~(t >= time)
    BY <1>1, <2>1
  <2> QED
    BY <2>1, <2>2, <2>3, <2>4 DEF t
<1>10. f.fiendhunterAttacks \in 0 .. 3 /\ Opened(f) <= time
  BY <1>2
<1> QED
  BY <1>2, <1>3, <1>8, <1>9, <1>10 DEF Opening

-----------------------------------------------------------------------------
(* The casts and the barrage, step by step. *)

(* The next attack is due no earlier than the script's end, but for the     *)
(* overshoot; after that no barrage is owed.                                *)
AutosGoOn ==
  phase = "autos" =>
    /\ nextAuto = engine.nextAttackReady \/ nextAuto = cursor
    /\ nextAuto >= cursor \/ Overshot \/ IsDead(engine)

BookInv ==
  /\ LedgerInv
  /\ Spacing(casts)
  /\ phase = "script" => Book(engine, casts, cursor)
  /\ AutosGoOn
  /\ ~Overshot => Opening(engine, casts, cursor)

(* What is fixed with the fight. *)
LEMMA SameFight ==
  ASSUME fight' = fight
  PROVE  /\ WCooldown' = WCooldown /\ ECooldown' = ECooldown /\ RCooldown' = RCooldown
         /\ Fifths' = Fifths
<1> DEFINE From(w) == CHOOSE g : g = [n \in Nat |-> IF n = 0 THEN w ELSE g[n - 1] \div 5]
<1>1. WCooldown' = WCooldown /\ ECooldown' = ECooldown /\ RCooldown' = RCooldown
  BY DEF WCooldown, ECooldown, RCooldown, CooldownWithHaste, Has
<1>2. Fifths = From(WCooldown)
  BY DEF Fifths
<1>3. Fifths' = From(WCooldown')
  BY DEF Fifths
<1> HIDE DEF From
<1> QED
  BY <1>1, <1>2, <1>3

LEMMA BookNext ==
  ASSUME fight' = fight, NEW e, NEW cs, NEW now, Book(e, cs, now), Spacing(cs),
         engine' = e, casts' = cs, cursor' = now
  PROVE  Book(engine, casts, cursor)' /\ Spacing(casts)'
<1>1. /\ WCooldown' = WCooldown /\ ECooldown' = ECooldown /\ RCooldown' = RCooldown
      /\ Fifths' = Fifths
  BY SameFight
<1>2. Turns(casts, cursor)' /\ LastR(engine, casts)'
  BY DEF Book, Turns, LastR
<1>3. BackR(engine, casts)'
  BY <1>1 DEF Book, BackR
<1>4. BackE(engine, casts, cursor)'
  BY <1>1 DEF Book, BackE
<1>5. BackW(engine, casts, cursor)'
  BY <1>1 DEF Book, BackW
<1>6. Spacing(casts)'
  BY <1>1 DEF Spacing
<1> QED
  BY <1>2, <1>3, <1>4, <1>5, <1>6 DEF Book

LEMMA SpacingNext ==
  ASSUME fight' = fight, casts' = casts, Spacing(casts)
  PROVE  Spacing(casts)'
<1>1. /\ WCooldown' = WCooldown /\ ECooldown' = ECooldown /\ RCooldown' = RCooldown
      /\ Fifths' = Fifths
  BY SameFight
<1> QED
  BY <1>1 DEF Spacing

(* The stages of a turn: the ticks due have landed, R has ended, and the    *)
(* same again at the moment of the cast.                                    *)
LEMMA BookStages ==
  ASSUME fight \in Fights, NEW e, Shape(e), NEW cs, NEW now \in Int, Book(e, cs, now), Opening(e, cs, now),
         NEW time \in Int, now <= time
  PROVE  LET d == DrainDamageThrough(e, time)
             f == ApplyRExitEffects(d, time)
         IN  /\ Shape(d) /\ Opening(d, cs, now)
             /\ Shape(f) /\ Opening(f, cs, now) /\ Book(f, cs, time)
             /\ ~f.rExitHandled => time < f.rUntil - Epsilon
             /\ f.rReadyAt = e.rReadyAt
<1> DEFINE d == DrainDamageThrough(e, time)
           f == ApplyRExitEffects(d, time)
<1>1. Waits(e, d)
  BY DrainEffect
<1> HIDE DEF d
<1>2. Shape(d) /\ Opening(d, cs, now) /\ SameAbilities(e, d)
  BY <1>1, OpeningWaits DEF Waits
<1>3. Book(d, cs, time)
  BY <1>2, BookSame, BookLater
<1>4. Shape(f) /\ SameDamage(d, f) /\ SameBarrage(d, f) /\ f.rReadyAt = d.rReadyAt
  BY <1>2, ExitEffect
<1>5. Book(f, cs, time) /\ (~f.rExitHandled => time < f.rUntil - Epsilon)
  <2>1. time <= time
    OBVIOUS
  <2> QED
    BY <1>2, <1>3, <2>1, BookExit
<1> HIDE DEF f
<1>6. Opening(f, cs, now)
  BY <1>2, <1>4, OpeningQuiet
<1> QED
  BY <1>2, <1>4, <1>5, <1>6 DEF d, f, SameAbilities

LEMMA OpeningNext ==
  ASSUME NEW e, NEW cs, NEW now, Opening(e, cs, now), engine' = e, casts' = cs, cursor' = now
  PROVE  Opening(engine, casts, cursor)'
BY DEF Opening, Opened, Recent, SoonOf, BarrageOf, CastsOf

(* Everything that a turn has, from its beginning on.                       *)
LEMMA TurnStages ==
  ASSUME BookInv, phase = "script"
  PROVE  /\ fight \in Fights /\ cursor \in Int /\ 0 <= cursor /\ Listing(casts)
         /\ Shape(engine) /\ Opening(engine, casts, cursor)
         /\ Shape(Drained) /\ Opening(Drained, casts, cursor)
         /\ Shape(Ready) /\ Opening(Ready, casts, cursor) /\ Book(Ready, casts, cursor)
         /\ \A time \in Int : time >= cursor =>
              LET d == DrainDamageThrough(Ready, time)
                  f == CastReady(time)
              IN  /\ Shape(d) /\ Opening(d, casts, cursor)
                  /\ Shape(f) /\ Opening(f, casts, cursor) /\ Book(f, casts, time)
                  /\ ~f.rExitHandled => time < f.rUntil - Epsilon
                  /\ f.rReadyAt = Ready.rReadyAt
<1>1. fight \in Fights /\ Shape(engine) /\ cursor \in Int /\ 0 <= cursor
  BY DEF BookInv, LedgerInv, FightType
<1>2. Book(engine, casts, cursor) /\ Opening(engine, casts, cursor)
  BY DEF BookInv, Overshot
<1>3. Listing(casts)
  BY <1>2 DEF Book, Turns
<1>4. /\ Shape(Drained) /\ Opening(Drained, casts, cursor)
      /\ Shape(Ready) /\ Opening(Ready, casts, cursor) /\ Book(Ready, casts, cursor)
  <2>1. cursor <= cursor
    BY <1>1
  <2> QED
    BY <1>1, <1>2, <2>1, BookStages DEF Drained, Ready
<1>5. ASSUME NEW time \in Int, time >= cursor
      PROVE  LET d == DrainDamageThrough(Ready, time)
                 f == CastReady(time)
             IN  /\ Shape(d) /\ Opening(d, casts, cursor)
                 /\ Shape(f) /\ Opening(f, casts, cursor) /\ Book(f, casts, time)
                 /\ ~f.rExitHandled => time < f.rUntil - Epsilon
                 /\ f.rReadyAt = Ready.rReadyAt
  <2>1. cursor <= time
    BY <1>1, <1>5
  <2> QED
    BY <1>1, <1>4, <2>1, BookStages DEF CastReady
<1> QED
  BY <1>1, <1>2, <1>3, <1>4, <1>5

LEMMA LogMore ==
  ASSUME NEW action, NEW time, Listing(casts)
  PROVE  \E x, n : /\ OneMore(casts, x, Log(action, time), n)
                   /\ x.action = action /\ x.at = time
<1> DEFINE x == [action |-> action, at |-> time]
<1>1. OneMore(casts, x, Append(casts, x), Len(casts) + 1)
  BY Appended
<1>2. Log(action, time) = Append(casts, x) /\ x.action = action /\ x.at = time
  BY DEF Log
<1> HIDE DEF x
<1> QED
  BY <1>1, <1>2

LEMMA BusyBook ==
  ASSUME BookInv, LedgerInv', phase = "script", NEW e, Shape(e), NEW time \in Int, time >= cursor,
         NEW action, NEW lock \in Nat, Busy(e, time, action, lock),
         Book(e, Log(action, time), time + lock), Spacing(Log(action, time)),
         Opening(e, Log(action, time), time)
  PROVE  BookInv'
<1> DEFINE ds == Log(action, time)
<1>1. /\ fight' = fight /\ phase' = phase /\ engine' = e /\ casts' = ds
      /\ cursor' \in Added(time, lock)
  BY DEF Busy
<1> HIDE DEF ds
<1>2. cursor' \in Int /\ cursor' >= time + lock /\ time + lock \in Int
  BY <1>1, AddedIs
<1>3. Book(e, ds, cursor') /\ Opening(e, ds, cursor')
  <2>1. Book(e, ds, cursor')
    BY <1>2, BookLater DEF ds
  <2>2. time <= cursor'
    BY <1>2
  <2> QED
    BY <1>2, <2>1, <2>2, OpeningLater DEF ds
<1>4. Book(engine, casts, cursor)' /\ Spacing(casts)'
  <2>1. Spacing(ds)
    BY DEF ds
  <2> QED
    BY <1>1, <1>3, <2>1, BookNext
<1>5. Opening(engine, casts, cursor)'
  BY <1>1, <1>3, OpeningNext
<1>6. AutosGoOn'
  BY <1>1 DEF AutosGoOn
<1> QED
  BY <1>4, <1>5, <1>6 DEF BookInv

LEMMA LeaveBook ==
  ASSUME BookInv, LedgerInv', phase = "script", NEW e, Shape(e), Opening(e, casts, cursor), LeaveScript(e)
  PROVE  BookInv'
<1>1. /\ fight' = fight /\ cursor' = cursor /\ phase' = "autos" /\ engine' = e /\ casts' = casts
      /\ nextAuto' = Max({cursor, e.nextAttackReady})
  BY DEF LeaveScript
<1>2. cursor \in Int /\ e.nextAttackReady \in Int
  BY DEF BookInv, LedgerInv, FightType, Shape
<1>3. /\ nextAuto' = e.nextAttackReady \/ nextAuto' = cursor
      /\ nextAuto' >= cursor
  BY <1>1, <1>2, LaterOf
<1>4. AutosGoOn'
  BY <1>1, <1>3 DEF AutosGoOn
<1>5. Spacing(casts)'
  BY <1>1, SpacingNext DEF BookInv
<1>6. Opening(engine, casts, cursor)'
  BY <1>1, OpeningNext
<1> QED
  BY <1>1, <1>4, <1>5, <1>6 DEF BookInv

LEMMA CastRBook ==
  ASSUME BookInv, LedgerInv', CastR
  PROVE  BookInv'
<1> DEFINE time == Max({cursor, Ready.rReadyAt})
           e == CastReady(time)
           f == ActivateFiendhunter(CastRAt(e, time), time)
           ds == Log("R", time)
           lock == Second \div 4
<1>1. phase = "script"
  BY DEF CastR, Turn
<1>2. /\ fight \in Fights /\ cursor \in Int /\ 0 <= cursor /\ Listing(casts)
      /\ Shape(Ready) /\ Book(Ready, casts, cursor)
  BY <1>1, TurnStages
<1>3. time \in Int /\ time >= cursor /\ time >= Ready.rReadyAt
  <2>1. Ready.rReadyAt \in Int
    BY <1>2 DEF Shape
  <2> QED
    BY <1>2, <2>1, LaterOf
<1>4. \/ LeaveScript(DrainDamageThrough(Ready, time))
      \/ Busy(f, time, "R", lock)
  BY DEF CastR, CastRAt
<1> HIDE DEF time
<1>5. /\ Shape(DrainDamageThrough(Ready, time)) /\ Opening(DrainDamageThrough(Ready, time), casts, cursor)
      /\ Shape(e) /\ Opening(e, casts, cursor) /\ Book(e, casts, time)
      /\ e.rReadyAt = Ready.rReadyAt
  BY <1>1, <1>3, TurnStages
<1> HIDE DEF e
<1>6. CASE LeaveScript(DrainDamageThrough(Ready, time))
  BY <1>1, <1>5, <1>6, LeaveBook
<1>7. CASE Busy(f, time, "R", lock)
  <2>1. PICK x, n : OneMore(casts, x, ds, n) /\ x.action = "R" /\ x.at = time
    BY <1>2, LogMore
  <2>2. /\ Shape(f) /\ SameDamage(e, f)
        /\ f.rUntil = time + Seconds(15) /\ f.rExitHandled = FALSE
        /\ f.wReadyAt = Reduced(e.wReadyAt, time) /\ f.eReadyAt = time
        /\ f.rReadyAt = time + RCooldown
        /\ \/ SameBarrage(e, f)
           \/ /\ time + Epsilon >= e.fiendhunterReadyAt
              /\ f.fiendhunterUntil = time + Seconds(8)
              /\ f.fiendhunterReadyAt = time + Seconds(45)
              /\ f.fiendhunterAttacks = 3
    BY <1>2, <1>3, <1>5, CastREffect, ZenonT(30)
  <2> HIDE DEF f, ds
  <2>3. Book(f, ds, time) /\ 0 <= time
    <3>1. 0 <= time /\ e.rReadyAt <= time
      BY <1>2, <1>3, <1>5 DEF Shape
    <3> QED
      BY <1>2, <1>3, <1>5, <2>1, <2>2, <3>1, BookR
  <2>4. lock \in Nat /\ time + lock \in Int /\ time <= time + lock
    BY <1>3, LocksAre
  <2>5. Book(f, ds, time + lock)
    BY <1>3, <2>3, <2>4, BookLater
  <2>6. Spacing(ds)
    <3>1. Ready.rReadyAt <= time /\ cursor <= time /\ Spacing(casts)
      BY <1>2, <1>3 DEF BookInv, Shape
    <3> QED
      BY <1>2, <1>3, <2>1, <3>1, CastsSpaced
  <2>7. Opening(f, ds, time)
    <3>1. CASE SameBarrage(e, f)
      <4>1. Opening(f, casts, cursor)
        BY <1>5, <2>2, <3>1, OpeningQuiet
      <4>2. Opening(f, ds, cursor) /\ cursor <= time
        BY <1>2, <1>3, <2>1, <4>1, OpeningGrows
      <4> QED
        BY <1>2, <1>3, <2>2, <4>2, OpeningLater
    <3>2. CASE /\ time + Epsilon >= e.fiendhunterReadyAt
               /\ f.fiendhunterUntil = time + Seconds(8)
               /\ f.fiendhunterReadyAt = time + Seconds(45)
               /\ f.fiendhunterAttacks = 3
      BY <1>3, <1>5, <2>1, <2>2, <3>2, OpeningBegins
    <3> QED
      BY <2>2, <3>1, <3>2
  <2> QED
    BY <1>1, <1>3, <1>7, <2>2, <2>4, <2>5, <2>6, <2>7, BusyBook DEF ds
<1> QED
  BY <1>4, <1>6, <1>7

LEMMA CastWBook ==
  ASSUME BookInv, LedgerInv', CastW
  PROVE  BookInv'
<1> DEFINE time == Max({cursor, Ready.wReadyAt})
           e == CastReady(time)
           f == [Hit(e, time) EXCEPT !.wReadyAt = time + WCooldown]
           ds == Log("W", time)
           lock == Second \div 2
<1>1. phase = "script"
  BY DEF CastW, Turn
<1>2. /\ fight \in Fights /\ cursor \in Int /\ 0 <= cursor /\ Listing(casts)
      /\ Shape(Ready) /\ Book(Ready, casts, cursor)
  BY <1>1, TurnStages
<1>3. time \in Int /\ time >= cursor /\ time >= Ready.wReadyAt
  <2>1. Ready.wReadyAt \in Int
    BY <1>2 DEF Shape
  <2> QED
    BY <1>2, <2>1, LaterOf
<1>4. \/ LeaveScript(DrainDamageThrough(Ready, time))
      \/ ~CastEnds(time) /\ Busy(f, time, "W", lock)
  BY DEF CastW, Hit
<1> HIDE DEF time
<1>5. /\ Shape(DrainDamageThrough(Ready, time)) /\ Opening(DrainDamageThrough(Ready, time), casts, cursor)
      /\ Shape(e) /\ Opening(e, casts, cursor) /\ Book(e, casts, time)
      /\ ~e.rExitHandled => time < e.rUntil - Epsilon
  BY <1>1, <1>3, TurnStages
<1>6. IsDead(e) <=> IsDead(DrainDamageThrough(Ready, time))
  BY <1>1, <1>3, SoundTurn DEF BookInv
<1> HIDE DEF e
<1>7. CASE LeaveScript(DrainDamageThrough(Ready, time))
  BY <1>1, <1>5, <1>7, LeaveBook
<1>8. CASE ~CastEnds(time) /\ Busy(f, time, "W", lock)
  <2>1. PICK x, n : OneMore(casts, x, ds, n) /\ x.action = "W" /\ x.at = time
    BY <1>2, LogMore
  <2>2. ~IsDead(e) /\ time <= fight.duration
    <3>1. fight.duration \in Nat
      BY <1>2, FightsAssumption
    <3> QED
      BY <1>3, <1>6, <1>8, <3>1 DEF CastEnds
  <2>3. /\ Shape(f) /\ LessBarrage(e, f) /\ SameVolley(e, f)
        /\ f.rUntil = e.rUntil /\ f.rExitHandled = e.rExitHandled
        /\ f.eReadyAt = e.eReadyAt /\ f.rReadyAt = e.rReadyAt
        /\ f.wReadyAt = time + WCooldown
    BY <1>2, <1>3, <1>5, <2>2, CastWEffect
  <2> HIDE DEF f, ds
  <2>4. lock \in Nat /\ 0 <= time
    BY <1>2, <1>3, LocksAre
  <2>5. Book(f, ds, time + lock)
    <3>1. x.action = "W" /\ lock = Second \div 2
      BY <2>1
    <3> HIDE DEF lock
    <3> QED
      BY <1>2, <1>3, <1>5, <2>1, <2>3, <2>4, <3>1, BookWE
  <2>6. Spacing(ds)
    <3>1. Ready.wReadyAt <= time /\ cursor <= time /\ Spacing(casts)
      BY <1>2, <1>3 DEF BookInv, Shape
    <3> QED
      BY <1>2, <1>3, <2>1, <3>1, CastsSpaced
  <2>7. Opening(f, ds, time)
    <3>1. Opening(f, casts, cursor)
      BY <1>5, <2>3, OpeningSame
    <3>2. Opening(f, ds, cursor) /\ cursor <= time
      BY <1>2, <1>3, <2>1, <3>1, OpeningGrows
    <3> QED
      BY <1>2, <1>3, <2>3, <3>2, OpeningLater
  <2> QED
    BY <1>1, <1>3, <1>8, <2>3, <2>4, <2>5, <2>6, <2>7, BusyBook DEF ds
<1> QED
  BY <1>4, <1>7, <1>8

LEMMA CastEBook ==
  ASSUME BookInv, LedgerInv', CastE
  PROVE  BookInv'
<1> DEFINE time == Max({cursor, Ready.eReadyAt})
           e == CastReady(time)
           until == time + ECooldown
           f == [e EXCEPT !.eReadyAt = until]
           ds == Log("E", time)
           lock == Second \div 4
<1>1. phase = "script"
  BY DEF CastE, Turn
<1>2. /\ fight \in Fights /\ cursor \in Int /\ 0 <= cursor /\ Listing(casts)
      /\ Shape(Ready) /\ Book(Ready, casts, cursor)
  BY <1>1, TurnStages
<1>3. time \in Int /\ time >= cursor /\ time >= Ready.eReadyAt
  <2>1. Ready.eReadyAt \in Int
    BY <1>2 DEF Shape
  <2> QED
    BY <1>2, <2>1, LaterOf
<1>4. \/ LeaveScript(DrainDamageThrough(Ready, time))
      \/ Busy(f, time, "E", lock)
  BY DEF CastE
<1> HIDE DEF time
<1>5. until \in Int
  BY <1>2, <1>3, CooldownsAre
<1>6. /\ Shape(DrainDamageThrough(Ready, time)) /\ Opening(DrainDamageThrough(Ready, time), casts, cursor)
      /\ Shape(e) /\ Opening(e, casts, cursor) /\ Book(e, casts, time)
      /\ ~e.rExitHandled => time < e.rUntil - Epsilon
  BY <1>1, <1>3, TurnStages
<1> HIDE DEF e
<1>7. CASE LeaveScript(DrainDamageThrough(Ready, time))
  BY <1>1, <1>6, <1>7, LeaveBook
<1>8. CASE Busy(f, time, "E", lock)
  <2>1. PICK x, n : OneMore(casts, x, ds, n) /\ x.action = "E" /\ x.at = time
    BY <1>2, LogMore
  <2>2. /\ Shape(f) /\ SameDamage(e, f) /\ SameBarrage(e, f)
        /\ f.rUntil = e.rUntil /\ f.rExitHandled = e.rExitHandled
        /\ f.wReadyAt = e.wReadyAt /\ f.rReadyAt = e.rReadyAt /\ f.eReadyAt = until
    <3> HIDE DEF until
    <3> QED
      BY <1>5, <1>6, CastQEEffect
  <2>3. f.eReadyAt = time + ECooldown
    BY <2>2
  <2> HIDE DEF f, ds, until
  <2>4. lock \in Nat /\ 0 <= time
    BY <1>2, <1>3, LocksAre
  <2>5. Book(f, ds, time + lock)
    <3>1. x.action = "E"
      BY <2>1
    <3> HIDE DEF lock
    <3> QED
      BY <1>2, <1>3, <1>6, <2>1, <2>2, <2>3, <2>4, <3>1, BookWE
  <2>6. Spacing(ds)
    <3>1. Ready.eReadyAt <= time /\ cursor <= time /\ Spacing(casts)
      BY <1>2, <1>3 DEF BookInv, Shape
    <3> QED
      BY <1>2, <1>3, <2>1, <3>1, CastsSpaced
  <2>7. Opening(f, ds, time)
    <3>1. Opening(f, casts, cursor)
      BY <1>6, <2>2, OpeningQuiet
    <3>2. Opening(f, ds, cursor) /\ cursor <= time
      BY <1>2, <1>3, <2>1, <3>1, OpeningGrows
    <3> QED
      BY <1>2, <1>3, <2>2, <3>2, OpeningLater
  <2> QED
    BY <1>1, <1>3, <1>8, <2>2, <2>4, <2>5, <2>6, <2>7, BusyBook DEF ds
<1> QED
  BY <1>4, <1>7, <1>8

LEMMA CastQBook ==
  ASSUME BookInv, LedgerInv', CastQ
  PROVE  BookInv'
<1> DEFINE m == Max({Ready.qUntil, cursor + Seconds(5)})
           f == [Ready EXCEPT !.qUntil = m]
           ds == Log("Q", cursor)
           lock == Second \div 4
<1>1. phase = "script" /\ Busy(f, cursor, "Q", lock)
  BY DEF CastQ, Turn
<1> HIDE DEF m
<1>2. /\ cursor \in Int /\ 0 <= cursor /\ Listing(casts)
      /\ Shape(Ready) /\ Book(Ready, casts, cursor) /\ Opening(Ready, casts, cursor)
  BY <1>1, TurnStages
<1>3. Shape(f) /\ SameDamage(Ready, f) /\ SameAbilities(Ready, f) /\ SameBarrage(Ready, f)
  BY <1>2, CastQEEffect
<1> HIDE DEF f
<1>4. PICK x, n : OneMore(casts, x, ds, n) /\ x.action = "Q" /\ x.at = cursor
  <2>1. PICK time \in Int : time = cursor
    BY <1>2
  <2>2. Listing(casts)
    BY <1>2
  <2>3. \E x, n : OneMore(casts, x, Log("Q", time), n) /\ x.action = "Q" /\ x.at = time
    BY <2>2, LogMore
  <2> QED
    BY <2>1, <2>3
<1> HIDE DEF ds
<1>5. Book(f, casts, cursor)
  BY <1>2, <1>3, BookSame
<1>6. Book(f, ds, cursor) /\ Spacing(ds)
  <2>1. x.action \notin Abilities /\ Spacing(casts)
    BY <1>4 DEF Abilities, BookInv
  <2> QED
    BY <1>4, <1>5, <2>1, BookOther
<1>7. Opening(f, ds, cursor)
  BY <1>2, <1>3, <1>4, OpeningQuiet, OpeningGrows
<1>8. lock \in Nat /\ cursor + lock \in Int /\ cursor <= cursor + lock /\ cursor >= cursor
  BY <1>2, LocksAre
<1>9. Book(f, ds, cursor + lock)
  BY <1>2, <1>6, <1>8, BookLater
<1> HIDE DEF lock
<1> QED
  BY <1>1, <1>2, <1>3, <1>6, <1>7, <1>8, <1>9, BusyBook DEF ds

LEMMA UnlearnedBook ==
  ASSUME BookInv, LedgerInv', Unlearned
  PROVE  BookInv'
<1> DEFINE ds == Log("none", cursor)
<1>1. /\ phase = "script" /\ phase' = phase /\ fight' = fight /\ cursor' = cursor
      /\ engine' = Ready /\ casts' = ds
  BY DEF Unlearned, Turn
<1>2. /\ cursor \in Int /\ Listing(casts)
      /\ Shape(Ready) /\ Book(Ready, casts, cursor) /\ Opening(Ready, casts, cursor)
  BY <1>1, TurnStages
<1>3. PICK x, n : OneMore(casts, x, ds, n) /\ x.action = "none" /\ x.at = cursor
  <2>1. PICK time \in Int : time = cursor
    BY <1>2
  <2>2. Listing(casts)
    BY <1>2
  <2>3. \E x, n : OneMore(casts, x, Log("none", time), n) /\ x.action = "none" /\ x.at = time
    BY <2>2, LogMore
  <2> QED
    BY <2>1, <2>3
<1> HIDE DEF ds
<1>4. Book(Ready, ds, cursor) /\ Spacing(ds)
  <2>1. x.action \notin Abilities /\ Spacing(casts)
    BY <1>3 DEF Abilities, BookInv
  <2> QED
    BY <1>2, <1>3, <2>1, BookOther
<1>5. Opening(Ready, ds, cursor)
  BY <1>2, <1>3, OpeningGrows
<1>6. Book(engine, casts, cursor)' /\ Spacing(casts)' /\ Opening(engine, casts, cursor)'
  BY <1>1, <1>4, <1>5, BookNext, OpeningNext
<1>7. AutosGoOn'
  BY <1>1 DEF AutosGoOn
<1> QED
  BY <1>6, <1>7 DEF BookInv

(* An attack: its book is that of the end of R, if it comes to that.        *)
LEMMA StruckBook ==
  ASSUME fight \in Fights, NEW e, Shape(e), NEW cs, NEW now \in Int, Book(e, cs, now),
         Opening(e, cs, now), NEW time \in Int, now <= time, NEW f \in Attack(e, time)
  PROVE  Book(f, cs, time)
<1> DEFINE d == DrainDamageThrough(e, time)
           g == ApplyRExitEffects(d, time)
<1>1. f = e \/ f = d \/ f \in Attacked(d, time)
  BY DEF Attack
<1>2. Waits(e, d)
  BY DrainEffect
<1>3. Shape(d) /\ Book(g, cs, time)
  BY BookStages
<1> HIDE DEF d
<1>4. Book(e, cs, time)
  BY BookLater
<1>5. CASE f = e
  BY <1>4, <1>5
<1>6. CASE f = d
  BY <1>2, <1>4, <1>6, BookSame DEF Waits
<1>7. CASE f \in Attacked(d, time)
  <2>1. SameAbilities(g, f)
    BY <1>3, <1>7, AttackEffect
  <2> HIDE DEF g
  <2> QED
    BY <1>3, <2>1, BookSame
<1> QED
  BY <1>1, <1>5, <1>6, <1>7

(* A refused attack deals nothing with R; it keeps the book of the cursor.  *)
LEMMA RefusedBook ==
  ASSUME fight \in Fights, NEW e, Shape(e), NEW cs, NEW now \in Int, Book(e, cs, now),
         NEW time \in Int, AttackRefused(e, time), NEW f \in Attack(e, time)
  PROVE  Book(f, cs, now)
<1> DEFINE d == DrainDamageThrough(e, time)
<1>1. f = e \/ f = d
  BY DEF Attack, AttackRefused
<1>2. Waits(e, d)
  BY DrainEffect
<1> HIDE DEF d
<1> QED
  BY <1>1, <1>2, BookSame DEF Waits

LEMMA AABook ==
  ASSUME BookInv, LedgerInv', AA
  PROVE  BookInv'
<1> DEFINE time == Max({cursor, Ready.nextAttackReady})
           ds == Log("AA", time)
           lock == Second \div 4
<1>1. phase = "script"
  BY DEF AA, Turn
<1>2. /\ fight \in Fights /\ cursor \in Int /\ 0 <= cursor /\ Listing(casts)
      /\ Shape(Ready) /\ Book(Ready, casts, cursor) /\ Opening(Ready, casts, cursor)
  BY <1>1, TurnStages
<1>3. time \in Int /\ cursor <= time
  <2>1. Ready.nextAttackReady \in Int
    BY <1>2 DEF Shape
  <2> QED
    BY <1>2, <2>1, LaterOf
<1>4. /\ fight' = fight /\ phase' = phase /\ casts' = ds
      /\ engine' \in Attack(Ready, time)
      /\ cursor' \in IF AttackRefused(Ready, time) THEN {cursor} ELSE Added(time, lock)
  BY DEF AA
<1> HIDE DEF time
<1>5. PICK x, n : OneMore(casts, x, ds, n) /\ x.action = "AA" /\ x.at = time
  <2>1. Listing(casts)
    BY <1>2
  <2>2. PICK t \in Int : t = time
    BY <1>3
  <2>3. \E x, n : OneMore(casts, x, Log("AA", t), n) /\ x.action = "AA" /\ x.at = t
    BY <2>1, LogMore
  <2> QED
    BY <2>2, <2>3
<1>6. PICK f \in Attack(Ready, time) : engine' = f
  BY <1>4
<1> HIDE DEF ds
<1>7. Shape(f) /\ Opening(f, casts, cursor)
  BY <1>2, <1>3, OpeningAttack
<1>8. PICK now \in Int : cursor' = now /\ cursor <= now /\ Book(f, casts, now)
  <2>1. CASE AttackRefused(Ready, time)
    <3>1. Book(f, casts, cursor) /\ cursor' = cursor /\ cursor <= cursor
      BY <1>2, <1>3, <1>4, <2>1, RefusedBook
    <3> QED
      BY <1>2, <3>1
  <2>2. CASE ~AttackRefused(Ready, time)
    <3>1. Book(f, casts, time)
      BY <1>2, <1>3, StruckBook
    <3>2. cursor' \in Int /\ time <= cursor' /\ lock \in Nat
      BY <1>3, <1>4, <2>2, AddedIs, LocksAre
    <3>3. cursor <= cursor' /\ Book(f, casts, cursor')
      BY <1>2, <1>3, <3>1, <3>2, BookLater
    <3> QED
      BY <3>2, <3>3
  <2> QED
    BY <2>1, <2>2
<1>9. Book(f, ds, now) /\ Spacing(ds)
  <2>1. x.action \notin Abilities /\ Spacing(casts)
    BY <1>5 DEF Abilities, BookInv
  <2> QED
    BY <1>5, <1>8, <2>1, BookOther
<1>10. Opening(f, ds, now)
  <2>1. Opening(f, casts, now)
    BY <1>2, <1>7, <1>8, OpeningLater
  <2> QED
    BY <1>5, <2>1, OpeningGrows
<1>11. Book(engine, casts, cursor)' /\ Spacing(casts)' /\ Opening(engine, casts, cursor)'
  BY <1>4, <1>6, <1>8, <1>9, <1>10, BookNext, OpeningNext
<1>12. AutosGoOn'
  BY <1>1, <1>4 DEF AutosGoOn
<1> QED
  BY <1>11, <1>12 DEF BookInv

LEMMA EndsBook ==
  ASSUME BookInv, LedgerInv', EndScript \/ BreakScript
  PROVE  BookInv'
<1>1. phase = "script"
  BY DEF EndScript, BreakScript
<1>2. /\ Shape(engine) /\ Opening(engine, casts, cursor)
      /\ Shape(Drained) /\ Opening(Drained, casts, cursor)
  BY <1>1, TurnStages
<1>3. LeaveScript(engine) \/ LeaveScript(Drained)
  BY DEF EndScript, BreakScript
<1> QED
  BY <1>1, <1>2, <1>3, LeaveBook

(* After the script only attacks and the last ticks are left.               *)
LEMMA ContinueBook ==
  ASSUME BookInv, LedgerInv', ContinueAuto
  PROVE  BookInv'
<1>1. /\ phase = "autos" /\ phase' = phase /\ fight' = fight /\ cursor' = cursor /\ casts' = casts
      /\ engine' \in Attack(engine, nextAuto) /\ nextAuto' = engine'.nextAttackReady
      /\ fight.continueAutos /\ ~IsDead(engine) /\ nextAuto <= fight.duration + Epsilon
  BY DEF ContinueAuto, Continues
<1>2. /\ fight \in Fights /\ Shape(engine) /\ cursor \in Int /\ nextAuto \in Int
      /\ fight.duration \in Int /\ Epsilon \in Int
  BY FightsAssumption, UnitFacts DEF BookInv, LedgerInv, FightType
<1>3. nextAuto >= cursor \/ Overshot
  BY <1>1 DEF BookInv, AutosGoOn
<1>4. Overshot' <=> Overshot
  BY <1>1 DEF Overshot
<1>5. PICK f \in Attack(engine, nextAuto) : engine' = f
  BY <1>1
<1>6. ~Overshot => Opening(engine, casts, cursor)'
  <2>1. SUFFICES ASSUME ~Overshot PROVE Opening(engine, casts, cursor)'
    OBVIOUS
  <2>2. Opening(engine, casts, cursor) /\ cursor <= nextAuto
    BY <1>2, <1>3, <2>1 DEF BookInv
  <2>3. PICK time \in Int : time = nextAuto
    BY <1>2
  <2>4. Opening(f, casts, cursor)
    <3>1. f \in Attack(engine, time) /\ cursor <= time
      BY <1>5, <2>2, <2>3
    <3> QED
      BY <1>2, <2>2, <3>1, OpeningAttack
  <2> QED
    BY <1>1, <1>5, <2>4, OpeningNext
<1>7. nextAuto' >= cursor' \/ Overshot \/ IsDead(engine)'
  <2> DEFINE d == DrainDamageThrough(engine, nextAuto)
  <2>1. CASE nextAuto > fight.duration
    <3>1. engine' = engine
      BY <1>1, <2>1 DEF Attack
    <3>2. nextAuto' = engine.nextAttackReady
      BY <1>1, <3>1
    <3>3. CASE nextAuto = engine.nextAttackReady
      BY <1>1, <1>3, <3>2, <3>3
    <3>4. CASE nextAuto = cursor
      BY <1>1, <1>2, <2>1, <3>4 DEF Overshot
    <3> QED
      BY <1>1, <3>3, <3>4 DEF BookInv, AutosGoOn
  <2>2. CASE ~(nextAuto > fight.duration) /\ IsDead(d)
    <3>1. engine' = d
      BY <1>1, <2>2 DEF Attack, AttackRefused
    <3> HIDE DEF d
    <3>2. IsDead(engine)'
      BY <1>1, <2>2, <3>1 DEF IsDead
    <3> QED
      BY <3>2
  <2>3. CASE ~(nextAuto > fight.duration) /\ ~IsDead(d)
    <3>1. engine' \in Attacked(d, nextAuto)
      BY <1>1, <2>3 DEF Attack, AttackRefused
    <3>2. Shape(d)
      BY <1>2, DrainEffect DEF Waits
    <3> HIDE DEF d
    <3>3. engine'.nextAttackReady \in Int /\ engine'.nextAttackReady >= nextAuto
      BY <1>2, <3>1, <3>2, AttackEffect
    <3> QED
      BY <1>1, <1>2, <1>3, <3>3
  <2> QED
    BY <2>1, <2>2, <2>3
<1>8. AutosGoOn'
  BY <1>1, <1>4, <1>7 DEF AutosGoOn
<1>9. Spacing(casts)'
  BY <1>1, SpacingNext DEF BookInv
<1> QED
  BY <1>1, <1>4, <1>6, <1>8, <1>9 DEF BookInv

LEMMA FinishBook ==
  ASSUME BookInv, LedgerInv', Finish
  PROVE  BookInv'
<1> DEFINE d == DrainDamageThrough(engine, fight.duration)
           f == AdvanceStormrazorMovement(d, fight.duration)
<1>1. /\ phase = "autos" /\ phase' = "done" /\ fight' = fight /\ cursor' = cursor /\ casts' = casts
      /\ engine' = f
  BY DEF Finish
<1>2. /\ Shape(engine) /\ fight.duration \in Int
  BY FightsAssumption DEF BookInv, LedgerInv, FightType
<1>3. Overshot' <=> Overshot
  BY <1>1 DEF Overshot
<1>4. ~Overshot => Opening(engine, casts, cursor)'
  <2>1. SUFFICES ASSUME ~Overshot PROVE Opening(engine, casts, cursor)'
    OBVIOUS
  <2>2. Opening(engine, casts, cursor)
    BY <2>1 DEF BookInv
  <2>3. Shape(d) /\ Opening(d, casts, cursor)
    BY <1>2, <2>2, DrainEffect, OpeningWaits DEF Waits
  <2> HIDE DEF d
  <2>4. Quiet(d, f) /\ SameBarrage(d, f)
    BY <1>2, <2>3, QuietParts
  <2> HIDE DEF f
  <2>5. Opening(f, casts, cursor)
    BY <2>3, <2>4, OpeningQuiet DEF Quiet
  <2> QED
    BY <1>1, <2>5, OpeningNext
<1>5. Spacing(casts)'
  BY <1>1, SpacingNext DEF BookInv
<1>6. AutosGoOn'
  BY <1>1 DEF AutosGoOn
<1> QED
  BY <1>1, <1>3, <1>4, <1>5, <1>6 DEF BookInv

LEMMA BookInit == FightInit => BookInv
<1> SUFFICES ASSUME FightInit PROVE BookInv
  OBVIOUS
<1>1. /\ fight \in Fights /\ engine = NewEngine(fight) /\ cursor = 0 /\ nextAuto = 0
      /\ phase = "script" /\ casts = <<>>
  BY DEF FightInit
<1>2. LedgerInv
  BY LedgerInit
<1>3. /\ engine.events = <<>> /\ engine.rExitHandled = TRUE
      /\ engine.fiendhunterReadyAt = 0 /\ engine.fiendhunterAttacks = 0
  BY <1>1 DEF NewEngine
<1>4. <<>> \in Seq({}) /\ DOMAIN (<<>>) = {}
  OBVIOUS
<1>5. Listing(casts) /\ \A a : CastsOf(casts, a) = {}
  <2>1. {casts[k] : k \in DOMAIN casts} = {}
    BY <1>1, <1>4
  <2>2. \A a : CastsOf(casts, a) = {}
    BY <1>1, <1>4 DEF CastsOf
  <2> QED
    BY <1>1, <1>4, <2>1, <2>2 DEF Listing
<1>6. Spacing(casts)
  BY <1>5 DEF Spacing
<1>7. Book(engine, casts, cursor)
  <2>1. Turns(casts, cursor)
    BY <1>1, <1>4, <1>5 DEF Turns
  <2> QED
    BY <1>3, <1>5, <2>1 DEF Book, LastR, BackR, BackE, BackW
<1>8. Opening(engine, casts, cursor)
  <2>1. BarrageOf(engine) = {} /\ Recent(engine) = {}
    BY <1>3, <1>4 DEF BarrageOf, Recent
  <2>2. Cardinality(Recent(engine)) = 0
    BY <2>1, FS_EmptySet
  <2>3. Opened(engine) <= 0
    BY <1>3, UnitFacts DEF Opened, Seconds
  <2> QED
    BY <1>1, <1>3, <2>1, <2>2, <2>3 DEF Opening
<1> QED
  BY <1>1, <1>2, <1>6, <1>7, <1>8 DEF BookInv, AutosGoOn

LEMMA BookStep == BookInv /\ [FightNext]_fightVars => BookInv'
<1> SUFFICES ASSUME BookInv, [FightNext]_fightVars PROVE BookInv'
  OBVIOUS
<1>1. LedgerInv'
  BY LedgerStep DEF BookInv
<1>2. CASE UNCHANGED fightVars
  <2>1. /\ fight' = fight /\ engine' = engine /\ cursor' = cursor /\ nextAuto' = nextAuto
        /\ phase' = phase /\ casts' = casts
    BY <1>2 DEF fightVars
  <2>2. Spacing(casts)'
    BY <2>1, SpacingNext DEF BookInv
  <2>3. phase' = "script" => Book(engine, casts, cursor)'
    <3>1. SUFFICES ASSUME phase' = "script" PROVE Book(engine, casts, cursor)'
      OBVIOUS
    <3>2. PICK e, cs, now : e = engine /\ cs = casts /\ now = cursor
      OBVIOUS
    <3>3. Book(e, cs, now) /\ Spacing(cs) /\ engine' = e /\ casts' = cs /\ cursor' = now
      BY <2>1, <3>1, <3>2 DEF BookInv
    <3> QED
      BY <2>1, <3>3, BookNext
  <2>4. Overshot' <=> Overshot
    BY <2>1 DEF Overshot
  <2>5. AutosGoOn'
    BY <2>1, <2>4 DEF BookInv, AutosGoOn, IsDead
  <2>6. ~Overshot' => Opening(engine, casts, cursor)'
    <3>1. SUFFICES ASSUME ~Overshot' PROVE Opening(engine, casts, cursor)'
      OBVIOUS
    <3>2. PICK e, cs, now : e = engine /\ cs = casts /\ now = cursor
      OBVIOUS
    <3>3. Opening(e, cs, now) /\ engine' = e /\ casts' = cs /\ cursor' = now
      BY <2>1, <2>4, <3>1, <3>2 DEF BookInv
    <3> QED
      BY <3>3, OpeningNext
  <2> QED
    BY <1>1, <2>2, <2>3, <2>5, <2>6 DEF BookInv
<1>3. CASE FightNext
  BY <1>1, <1>3, CastRBook, CastQBook, CastWBook, CastEBook, AABook, UnlearnedBook, EndsBook,
     ContinueBook, FinishBook DEF FightNext
<1> QED
  BY <1>2, <1>3

LEMMA BookHolds == FightSpec => []BookInv
<1> QED
  BY BookInit, BookStep, PTL DEF FightSpec

LEMMA BookMeansHeld == BookInv => CooldownsHeld
<1> SUFFICES ASSUME BookInv PROVE CooldownsHeld
  OBVIOUS
<1>1. \A a : Casts(a) = CastsOf(casts, a)
  BY DEF Casts, CastsOf
<1>2. \A i, j : Cuts(i, j) = CutsIn(casts, i, j)
  BY <1>1 DEF Cuts, CutsIn, End
<1>3. Spacing(casts)
  BY DEF BookInv
<1>4. \A j \in Casts("W") : \A i \in Casts("W") : i < j =>
        IF Cuts(i, j) = 0 THEN casts[j].at - casts[i].at >= WCooldown
        ELSE casts[j].at - casts[i].at + Grid > Fifths[Cuts(i, j)]
  BY <1>1, <1>2, <1>3 DEF Spacing
<1>5. \A j \in Casts("E") : \A i \in Casts("E") :
        i < j /\ Cuts(i, j) = 0 => casts[j].at - casts[i].at >= ECooldown
  BY <1>1, <1>2, <1>3 DEF Spacing
<1>6. \A j \in Casts("R") : \A i \in Casts("R") : i < j => casts[j].at - casts[i].at >= RCooldown
  BY <1>1, <1>3 DEF Spacing
<1>7. ASSUME ~Overshot, NEW n \in Barrage
      PROVE  /\ \E k \in Casts("R") :
                  engine.events[n].time - casts[k].at \in 0 .. Seconds(8) + Epsilon
             /\ Cardinality({m \in Barrage : engine.events[m].time - engine.events[n].time
                                               \in 0 .. Seconds(45 - 8) - 2 * Epsilon - 1}) <= 3
  <2>1. Barrage = BarrageOf(engine)
    BY DEF Barrage, BarrageOf
  <2>2. Opening(engine, casts, cursor)
    BY <1>7 DEF BookInv
  <2>3. Cardinality(SoonOf(engine, n)) <= 3
    BY <1>7, <2>1, <2>2 DEF Opening
  <2>4. \E k \in CastsOf(casts, "R") :
          engine.events[n].time - casts[k].at \in 0 .. Seconds(8) + Epsilon
    BY <1>7, <2>1, <2>2 DEF Opening
  <2> QED
    BY <1>1, <2>1, <2>3, <2>4 DEF SoonOf
<1> QED
  BY <1>4, <1>5, <1>6, <1>7 DEF CooldownsHeld

(* An ability comes back before its cooldown only by what R allows, and an  *)
(* Opening Barrage is three attacks in the eight seconds after an R.        *)
THEOREM AlwaysCooldownsHeld == FightSpec => []CooldownsHeld
<1> QED
  BY BookHolds, BookMeansHeld, PTL

-----------------------------------------------------------------------------
(* The ranking: the summaries of builds are values of six places, which the  *)
(* epsilon of the comparison leaves apart; so it compares five numbers, one *)
(* after the other, and is an order.  And each of the numbers rises with    *)
(* what is found of the targets.                                            *)

(* What the ranking sorts by, as a relation.                                *)
RankedAs(R, S) == \A x, y \in S : <<x, y>> \in R <=> CompareOptimizerEvaluations(x, y) < 0
Ranked(s) == SortedBy(s, LAMBDA l, r : CompareOptimizerEvaluations(l, r) < 0)

LEMMA RankedSorts ==
  ASSUME NEW S, NEW s \in Seq(S), NEW R, RankedAs(R, S)
  PROVE  /\ Ranked(s) \in Seq(S) /\ Len(Ranked(s)) = Len(s) /\ Range(Ranked(s)) = Range(s)
         /\ Apart(s, R) /\ Transitive(R, S) => InOrder(Ranked(s), R)
<1> DEFINE N == Len(s)
           Put(n, q) == PutBefore(q, {k \in DOMAIN q : CompareOptimizerEvaluations(s[n], q[k]) < 0}, s[n])
           Rec(g) == [n \in 0..N |-> IF n = 0 THEN <<>> ELSE Put(n, g[n - 1])]
           g == CHOOSE g : g = Rec(g)
<1>1. N \in Nat /\ DOMAIN s = 1..N /\ \A n \in 1..N : s[n] \in S
  BY LenProperties, ElementOfSeq
<1>2. PICK h \in [0..N -> Seq(S)] :
           /\ Inserts(h, s, R)
           /\ Len(h[N]) = N /\ Range(h[N]) = Range(s)
           /\ Apart(s, R) /\ Transitive(R, S) => InOrder(h[N], R)
  BY InsertionSorts
<1>a. /\ h[0] = <<>>
      /\ \A n \in 1..N : h[n] = PutBefore(h[n - 1], PlacesAfter(h[n - 1], s[n], R), s[n])
  BY <1>2 DEF Inserts
<1>3. ASSUME NEW n \in 1..N PROVE h[n] = Put(n, h[n - 1])
  <2>1. h[n - 1] \in Seq(S)
    BY <1>1, <1>2
  <2>2. \A k \in DOMAIN h[n - 1] : h[n - 1][k] \in S
    BY <2>1, LenProperties, ElementOfSeq
  <2>3. PlacesAfter(h[n - 1], s[n], R)
          = {k \in DOMAIN h[n - 1] : CompareOptimizerEvaluations(s[n], h[n - 1][k]) < 0}
    BY <1>1, <2>2 DEF RankedAs, PlacesAfter
  <2> QED BY <1>a, <2>3
<1>4. h = Rec(h)
  <2>1. h = [n \in 0..N |-> h[n]]
    BY <1>2
  <2>2. \A n \in 0..N : h[n] = IF n = 0 THEN <<>> ELSE Put(n, h[n - 1])
    <3> SUFFICES ASSUME NEW n \in 0..N PROVE h[n] = IF n = 0 THEN <<>> ELSE Put(n, h[n - 1])
      OBVIOUS
    <3>1. n = 0 \/ n \in 1..N
      BY <1>1
    <3>2. CASE n = 0
      BY <1>a, <3>2
    <3>3. CASE n \in 1..N
      <4>1. n # 0
        BY <1>1, <3>3
      <4> HIDE DEF Put
      <4> QED BY <1>3, <3>3, <4>1
    <3> QED BY <3>1, <3>2, <3>3
  <2> HIDE DEF Put
  <2> QED BY <2>1, <2>2
<1>5. Ranked(s) = g[N]
  BY DEF Ranked, SortedBy
<1>6. g = Rec(g)
  <2>1. \E f : f = Rec(f)
    BY <1>4
  <2> HIDE DEF Rec
  <2> QED BY <2>1
<1> HIDE DEF g, Put
<1>7. g = h
  <2>1. /\ DOMAIN g = 0..N /\ g = [n \in 0..N |-> g[n]] /\ g[0] = <<>>
        /\ \A n \in 1..N : g[n] = Put(n, g[n - 1])
    <3>0. \A n \in 1..N : n \in 0..N /\ n # 0
      BY <1>1
    <3>1. DOMAIN g = 0..N
      BY <1>6
    <3>2. \A n \in 0..N : g[n] = IF n = 0 THEN <<>> ELSE Put(n, g[n - 1])
      BY <1>6
    <3>3. g = [n \in 0..N |-> g[n]]
      <4>1. Rec(g) = [n \in 0..N |-> Rec(g)[n]]
        OBVIOUS
      <4> HIDE DEF Rec
      <4> QED BY <1>6, <4>1
    <3>4. g[0] = <<>>
      BY <1>1, <3>2
    <3>5. \A n \in 1..N : g[n] = Put(n, g[n - 1])
      BY <3>0, <3>2
    <3> HIDE DEF Rec
    <3> QED BY <3>1, <3>3, <3>4, <3>5
  <2>2. DOMAIN h = 0..N /\ h = [n \in 0..N |-> h[n]] /\ h[0] = <<>>
    BY <1>2, <1>a
  <2>3. \A n \in 1..N : g[n - 1] = h[n - 1] => g[n] = h[n]
    BY <1>3, <2>1
  <2> HIDE DEF Rec
  <2> QED BY <1>1, <2>1, <2>2, <2>3, SameRecursion
<1>8. h[N] \in Seq(S)
  BY <1>1, <1>2
<1> QED BY <1>2, <1>5, <1>7, <1>8

(* Of two rankings of the same evaluations there is only one.               *)
LEMMA RankedOnce ==
  ASSUME NEW S, NEW R, RankedAs(R, S), Transitive(R, S), \A x \in S : <<x, x>> \notin R,
         NEW s \in Seq(S), NEW t \in Seq(S), Apart(s, R), Apart(t, R), Range(s) = Range(t)
  PROVE  Ranked(s) = Ranked(t)
<1>1. /\ Ranked(s) \in Seq(S) /\ InOrder(Ranked(s), R) /\ Range(Ranked(s)) = Range(s)
      /\ Ranked(t) \in Seq(S) /\ InOrder(Ranked(t), R) /\ Range(Ranked(t)) = Range(t)
  BY RankedSorts
<1> QED BY <1>1, OneOrder

(* Values of six places, and those that are found of a build.               *)
Sixes == {SixPlaces * x : x \in Int}
Evaluations(objective) ==
  {e \in [candidate : Candidates, objective : {objective}, score : Sixes \cup {Never},
          weightedDamage : Sixes, killCoverage : Sixes, meanTtk : Sixes \cup {Never}] :
     objective # "ttk" => e.score \in Sixes}

LEMMA RoundIsSix == ASSUME NEW x \in Int PROVE Round(x) \in Sixes /\ Round(x) \in Int
<1>1. (x + SixPlaces \div 2) \div SixPlaces \in Int
  BY DEF SixPlaces
<1> QED BY <1>1 DEF Round, Sixes, SixPlaces

LEMMA SixesApart ==
  ASSUME NEW x \in Sixes, NEW y \in Sixes
  PROVE  x \in Int /\ y \in Int /\ Key(x - y) = x - y
<1>1. PICK m \in Int : x = SixPlaces * m
  BY DEF Sixes
<1>2. PICK n \in Int : y = SixPlaces * n
  BY DEF Sixes
<1>3. x \in Int /\ y \in Int
  BY <1>1, <1>2 DEF SixPlaces
<1>4. CASE m = n
  BY <1>1, <1>2, <1>3, <1>4 DEF Key
<1>5. CASE m # n
  <2>1. x - y > 1 \/ x - y < -1
    BY <1>1, <1>2, <1>5 DEF SixPlaces
  <2>2. ~ApproximatelyZero(x - y)
    BY <1>3, <2>1 DEF ApproximatelyZero, TieEpsilon
  <2> QED BY <1>3, <2>2 DEF Key
<1> QED BY <1>3, <1>4, <1>5

(* The keys of a comparison, side by side. *)
LEMMA FirstOfFour ==
  ASSUME NEW a \in Int, NEW b \in Int, NEW c \in Int, NEW d \in Int
  PROVE  FirstOf(<<a, b>> \o <<c, d>>) =
           IF a # 0 THEN a ELSE IF b # 0 THEN b ELSE IF c # 0 THEN c ELSE d
<1> DEFINE keys == <<a, b>> \o <<c, d>>
           telling == {k \in DOMAIN keys : keys[k] # 0}
<1>1. /\ DOMAIN keys = 1..4 /\ keys[1] = a /\ keys[2] = b /\ keys[3] = c /\ keys[4] = d
  <2>1. <<a, b>> \in Seq(Int) /\ <<c, d>> \in Seq(Int) /\ Len(<<a, b>>) = 2 /\ Len(<<c, d>>) = 2
    OBVIOUS
  <2>2. /\ keys \in Seq(Int) /\ Len(keys) = 4
        /\ \A i \in 1 .. 4 : keys[i] = IF i <= 2 THEN <<a, b>>[i] ELSE <<c, d>>[i - 2]
    BY <2>1, ConcatProperties
  <2>3. DOMAIN keys = 1..4
    <3> HIDE DEF keys
    <3> QED BY <2>2, LenProperties
  <2> HIDE DEF keys
  <2>4. keys[1] = a /\ keys[2] = b
    BY <2>2
  <2>5. keys[3] = <<c, d>>[1] /\ keys[4] = <<c, d>>[2]
    BY <2>2
  <2> QED BY <2>3, <2>4, <2>5
<1>2. FirstOf(keys) = IF telling = {} THEN 0 ELSE keys[Min(telling)]
  BY DEF FirstOf
<1> HIDE DEF keys
<1>3. telling \in SUBSET Nat /\ telling \subseteq 1..4
  BY <1>1
<1>4. /\ 1 \in telling <=> a # 0
      /\ 2 \in telling <=> b # 0
      /\ 3 \in telling <=> c # 0
      /\ 4 \in telling <=> d # 0
  BY <1>1
<1>5. telling # {} => Min(telling) \in telling /\ \A x \in telling : Min(telling) <= x
  <2> HIDE DEF telling
  <2> QED BY <1>3, MaxMinOfNaturals
<1> HIDE DEF telling
<1>6. telling = {} <=> a = 0 /\ b = 0 /\ c = 0 /\ d = 0
  <2>1. 1..4 = {1, 2, 3, 4}
    OBVIOUS
  <2> QED BY <1>3, <1>4, <2>1
<1>7. telling # {} =>
        Min(telling) = IF a # 0 THEN 1 ELSE IF b # 0 THEN 2 ELSE IF c # 0 THEN 3 ELSE 4
  <2>1. telling # {} => Min(telling) \in {1, 2, 3, 4}
    <3>1. 1..4 = {1, 2, 3, 4}
      OBVIOUS
    <3> QED BY <1>3, <1>5, <3>1
  <2> QED BY <1>4, <1>5, <2>1
<1>8. FirstOf(keys) = IF a # 0 THEN a ELSE IF b # 0 THEN b ELSE IF c # 0 THEN c ELSE d
  BY <1>1, <1>2, <1>6, <1>7
<1> QED BY <1>8 DEF keys

LEMMA FirstOfFive ==
  ASSUME NEW a \in Int, NEW b \in Int, NEW c \in Int, NEW d \in Int, NEW e \in Int
  PROVE  FirstOf(<<a, b, c>> \o <<d, e>>) =
           IF a # 0 THEN a ELSE IF b # 0 THEN b ELSE IF c # 0 THEN c ELSE IF d # 0 THEN d ELSE e
<1> DEFINE keys == <<a, b, c>> \o <<d, e>>
           telling == {k \in DOMAIN keys : keys[k] # 0}
<1>1. /\ DOMAIN keys = 1..5
      /\ keys[1] = a /\ keys[2] = b /\ keys[3] = c /\ keys[4] = d /\ keys[5] = e
  <2>1. <<a, b, c>> \in Seq(Int) /\ <<d, e>> \in Seq(Int) /\ Len(<<a, b, c>>) = 3 /\ Len(<<d, e>>) = 2
    OBVIOUS
  <2>2. /\ keys \in Seq(Int) /\ Len(keys) = 5
        /\ \A i \in 1 .. 5 : keys[i] = IF i <= 3 THEN <<a, b, c>>[i] ELSE <<d, e>>[i - 3]
    BY <2>1, ConcatProperties
  <2>3. DOMAIN keys = 1..5
    <3> HIDE DEF keys
    <3> QED BY <2>2, LenProperties
  <2> HIDE DEF keys
  <2>4. keys[1] = a /\ keys[2] = b /\ keys[3] = c
    BY <2>2
  <2>5. keys[4] = <<d, e>>[1] /\ keys[5] = <<d, e>>[2]
    BY <2>2
  <2> QED BY <2>3, <2>4, <2>5
<1>2. FirstOf(keys) = IF telling = {} THEN 0 ELSE keys[Min(telling)]
  BY DEF FirstOf
<1> HIDE DEF keys
<1>3. telling \in SUBSET Nat /\ telling \subseteq 1..5
  BY <1>1
<1>4. /\ 1 \in telling <=> a # 0
      /\ 2 \in telling <=> b # 0
      /\ 3 \in telling <=> c # 0
      /\ 4 \in telling <=> d # 0
      /\ 5 \in telling <=> e # 0
  BY <1>1
<1>5. telling # {} => Min(telling) \in telling /\ \A x \in telling : Min(telling) <= x
  <2> HIDE DEF telling
  <2> QED BY <1>3, MaxMinOfNaturals
<1> HIDE DEF telling
<1>6. telling = {} <=> a = 0 /\ b = 0 /\ c = 0 /\ d = 0 /\ e = 0
  <2>1. 1..5 = {1, 2, 3, 4, 5}
    OBVIOUS
  <2> QED BY <1>3, <1>4, <2>1
<1>7. telling # {} =>
        Min(telling) = IF a # 0 THEN 1 ELSE IF b # 0 THEN 2 ELSE IF c # 0 THEN 3 ELSE IF d # 0 THEN 4 ELSE 5
  <2>1. telling # {} => Min(telling) \in {1, 2, 3, 4, 5}
    <3>1. 1..5 = {1, 2, 3, 4, 5}
      OBVIOUS
    <3> QED BY <1>3, <1>5, <3>1
  <2> QED BY <1>4, <1>5, <2>1
<1>8. FirstOf(keys) =
        IF a # 0 THEN a ELSE IF b # 0 THEN b ELSE IF c # 0 THEN c ELSE IF d # 0 THEN d ELSE e
  BY <1>1, <1>2, <1>6, <1>7
<1> QED BY <1>8 DEF keys

(* The comparison is that of five numbers, one after the other.             *)
FirstKey(e) == IF e.objective = "ttk" THEN -e.killCoverage ELSE -e.score
SecondKey(e) == IF e.objective = "ttk" THEN IF e.meanTtk = Never THEN 1 ELSE 0 ELSE -e.killCoverage
ThirdKey(e) ==
  IF e.objective = "ttk" THEN IF e.meanTtk = Never THEN 0 ELSE e.meanTtk ELSE -e.weightedDamage
Precedes(l, r) ==
  \/ FirstKey(l) < FirstKey(r)
  \/ FirstKey(l) = FirstKey(r) /\ SecondKey(l) < SecondKey(r)
  \/ FirstKey(l) = FirstKey(r) /\ SecondKey(l) = SecondKey(r) /\ ThirdKey(l) < ThirdKey(r)
  \/ /\ FirstKey(l) = FirstKey(r) /\ SecondKey(l) = SecondKey(r) /\ ThirdKey(l) = ThirdKey(r)
     /\ \/ l.candidate.goldTotal < r.candidate.goldTotal
        \/ /\ l.candidate.goldTotal = r.candidate.goldTotal
           /\ l.candidate.identity < r.candidate.identity

LEMMA NumbersOf ==
  ASSUME NEW objective, NEW e \in Evaluations(objective)
  PROVE  /\ FirstKey(e) \in Int /\ SecondKey(e) \in Int /\ ThirdKey(e) \in Int
         /\ e.candidate \in Candidates
         /\ e.candidate.goldTotal \in Int /\ e.candidate.identity \in Int
<1>1. Sixes \subseteq Int
  BY DEF Sixes, SixPlaces
<1>2. /\ e.objective = objective /\ e.candidate \in Candidates
      /\ e.killCoverage \in Int /\ e.weightedDamage \in Int /\ e.meanTtk \in Int \cup {Never}
      /\ objective # "ttk" => e.score \in Int
  BY <1>1 DEF Evaluations
<1> QED BY <1>2, CandidatesAssumption DEF FirstKey, SecondKey, ThirdKey

LEMMA CompareIsLexicographic ==
  ASSUME NEW objective, NEW l \in Evaluations(objective), NEW r \in Evaluations(objective)
  PROVE  /\ CompareOptimizerEvaluations(l, r) \in Int
         /\ CompareOptimizerEvaluations(l, r) < 0 <=> Precedes(l, r)
         /\ CompareOptimizerEvaluations(l, r) > 0 <=> Precedes(r, l)
<1>1. /\ l.objective = objective /\ l.candidate \in Candidates
      /\ l.killCoverage \in Sixes /\ l.weightedDamage \in Sixes /\ l.meanTtk \in Sixes \cup {Never}
      /\ objective # "ttk" => l.score \in Sixes
      /\ r.objective = objective /\ r.candidate \in Candidates
      /\ r.killCoverage \in Sixes /\ r.weightedDamage \in Sixes /\ r.meanTtk \in Sixes \cup {Never}
      /\ objective # "ttk" => r.score \in Sixes
  BY DEF Evaluations
<1> DEFINE gold == l.candidate.goldTotal - r.candidate.goldTotal
           id == l.candidate.identity - r.candidate.identity
           cover == r.killCoverage - l.killCoverage
<1>2. /\ l.candidate.goldTotal \in Int /\ r.candidate.goldTotal \in Int /\ gold \in Int
      /\ l.candidate.identity \in Int /\ r.candidate.identity \in Int /\ id \in Int
  BY <1>1, CandidatesAssumption
<1>3. l.killCoverage \in Int /\ r.killCoverage \in Int /\ cover \in Int /\ Key(cover) = cover
  BY <1>1, SixesApart
<1>4. Never \notin Int
  BY RowsAssumption
<1>5. CASE objective = "ttk"
  <2> DEFINE ttk == TtkKey(l.meanTtk, r.meanTtk)
  <2>1. /\ l.meanTtk = Never \/ l.meanTtk \in Int
        /\ r.meanTtk = Never \/ r.meanTtk \in Int
        /\ l.meanTtk # Never /\ r.meanTtk # Never => Key(l.meanTtk - r.meanTtk) = l.meanTtk - r.meanTtk
    BY <1>1, SixesApart
  <2>2. ttk = IF l.meanTtk = Never THEN IF r.meanTtk = Never THEN 0 ELSE 1
              ELSE IF r.meanTtk = Never THEN -1 ELSE l.meanTtk - r.meanTtk
    BY <2>1 DEF TtkKey
  <2>3. ttk \in Int
    BY <2>1, <2>2
  <2>4. CompareOptimizerEvaluations(l, r) = FirstOf(<<cover, ttk>> \o <<gold, id>>)
    BY <1>1, <1>3, <1>5 DEF CompareOptimizerEvaluations, MetricKeys
  <2> HIDE DEF ttk
  <2>5. CompareOptimizerEvaluations(l, r) =
          IF cover # 0 THEN cover ELSE IF ttk # 0 THEN ttk ELSE IF gold # 0 THEN gold ELSE id
    BY <1>2, <1>3, <2>3, <2>4, FirstOfFour
  <2>6. /\ FirstKey(l) = -l.killCoverage /\ FirstKey(r) = -r.killCoverage
        /\ SecondKey(l) = IF l.meanTtk = Never THEN 1 ELSE 0
        /\ SecondKey(r) = IF r.meanTtk = Never THEN 1 ELSE 0
        /\ ThirdKey(l) = IF l.meanTtk = Never THEN 0 ELSE l.meanTtk
        /\ ThirdKey(r) = IF r.meanTtk = Never THEN 0 ELSE r.meanTtk
    BY <1>1, <1>5 DEF FirstKey, SecondKey, ThirdKey
  <2> QED BY <1>2, <1>3, <1>4, <2>1, <2>2, <2>5, <2>6 DEF Precedes
<1>6. CASE objective # "ttk"
  <2> DEFINE score == r.score - l.score
             damage == r.weightedDamage - l.weightedDamage
  <2>1. /\ l.score \in Int /\ r.score \in Int /\ Key(score) = score
        /\ l.weightedDamage \in Int /\ r.weightedDamage \in Int /\ Key(damage) = damage
    BY <1>1, <1>6, SixesApart
  <2>2. CompareOptimizerEvaluations(l, r) = FirstOf(<<score, cover, damage>> \o <<gold, id>>)
    BY <1>1, <1>3, <1>6, <2>1 DEF CompareOptimizerEvaluations, MetricKeys
  <2>3. CompareOptimizerEvaluations(l, r) =
          IF score # 0 THEN score ELSE IF cover # 0 THEN cover ELSE IF damage # 0 THEN damage
          ELSE IF gold # 0 THEN gold ELSE id
    <3>1. score \in Int /\ damage \in Int
      BY <2>1
    <3> HIDE DEF score, damage, cover, gold, id
    <3> QED BY <1>2, <1>3, <2>2, <3>1, FirstOfFive
  <2>4. /\ FirstKey(l) = -l.score /\ FirstKey(r) = -r.score
        /\ SecondKey(l) = -l.killCoverage /\ SecondKey(r) = -r.killCoverage
        /\ ThirdKey(l) = -l.weightedDamage /\ ThirdKey(r) = -r.weightedDamage
    BY <1>1, <1>6 DEF FirstKey, SecondKey, ThirdKey
  <2> QED BY <1>2, <1>3, <2>1, <2>3, <2>4 DEF Precedes
<1> QED BY <1>5, <1>6

(* So it orders any evaluations of one objective, and tells builds apart.   *)
RankOrder(S) == {p \in S \X S : CompareOptimizerEvaluations(p[1], p[2]) < 0}

LEMMA RankIsOrder ==
  ASSUME NEW objective, NEW S \in SUBSET Evaluations(objective)
  PROVE  /\ RankedAs(RankOrder(S), S) /\ Transitive(RankOrder(S), S)
         /\ \A x \in S : <<x, x>> \notin RankOrder(S)
         /\ \A x, y \in S : x.candidate # y.candidate =>
              <<x, y>> \in RankOrder(S) \/ <<y, x>> \in RankOrder(S)
<1>1. \A x, y \in S : <<x, y>> \in RankOrder(S) <=> CompareOptimizerEvaluations(x, y) < 0
  BY DEF RankOrder
<1>2. \A x, y \in S : <<x, y>> \in RankOrder(S) <=> Precedes(x, y)
  BY <1>1, CompareIsLexicographic
<1>3. \A x \in S : /\ FirstKey(x) \in Int /\ SecondKey(x) \in Int /\ ThirdKey(x) \in Int
                   /\ x.candidate \in Candidates
                   /\ x.candidate.goldTotal \in Int /\ x.candidate.identity \in Int
  BY NumbersOf
<1>4. ASSUME NEW x \in S, NEW y \in S, NEW z \in S, Precedes(x, y), Precedes(y, z)
      PROVE  Precedes(x, z)
  BY <1>3, <1>4 DEF Precedes
<1>5. \A x \in S : ~Precedes(x, x)
  BY <1>3 DEF Precedes
<1>6. ASSUME NEW x \in S, NEW y \in S, x.candidate # y.candidate
      PROVE  Precedes(x, y) \/ Precedes(y, x)
  <2>1. x.candidate.identity # y.candidate.identity
    BY <1>3, <1>6, CandidatesAssumption
  <2> QED BY <1>3, <2>1 DEF Precedes
<1>7. Transitive(RankOrder(S), S)
  BY <1>2, <1>4 DEF Transitive
<1> QED BY <1>1, <1>2, <1>5, <1>6, <1>7 DEF RankedAs

LEMMA RowsAre ==
  ASSUME NEW rows \in TargetRows
  PROVE  /\ Len(rows) \in Nat /\ DOMAIN rows = 1..Len(rows) /\ IsFiniteSet(DOMAIN rows) /\ DOMAIN rows # {}
         /\ \A k \in DOMAIN rows :
              /\ rows[k].damage \in Nat /\ rows[k].dps \in Nat /\ rows[k].weight \in Nat \ {0}
              /\ rows[k].ttk \in Nat \cup {Never}
<1>1. rows \in Seq({rows[k] : k \in DOMAIN rows}) /\ rows # <<>>
  BY RowsAssumption
<1>2. Len(rows) \in Nat /\ DOMAIN rows = 1..Len(rows)
  BY <1>1, LenProperties
<1>3. Len(rows) # 0
  BY <1>1, EmptySeq
<1>4. IsFiniteSet(1..Len(rows)) /\ 1 \in 1..Len(rows)
  BY <1>2, <1>3, FS_Interval
<1> QED BY <1>2, <1>4, RowsAssumption

LEMMA WeightIsPositive ==
  ASSUME NEW rows \in TargetRows, NEW K \in SUBSET DOMAIN rows
  PROVE  /\ IsFiniteSet(K) /\ WeightOf(rows, K) \in Nat /\ (K # {} => WeightOf(rows, K) > 0)
         /\ WeightOf(rows, K) = SumOf([k \in K |-> rows[k].weight], K)
<1> DEFINE w == [k \in K |-> rows[k].weight]
<1>1. WeightOf(rows, K) = SumOf(w, K)
  BY DEF WeightOf, Total, SumOf
<1>2. IsFiniteSet(K) /\ \A k \in K : w[k] \in Nat \ {0}
  BY RowsAre, FS_Subset
<1> HIDE DEF w
<1>3. SumOf(w, K) \in Nat /\ (K # {} => SumOf(w, K) > 0)
  BY <1>2, SumPositive
<1> QED BY <1>1, <1>2, <1>3 DEF w

LEMMA MeanIsWhole ==
  ASSUME NEW rows \in TargetRows, NEW K \in SUBSET DOMAIN rows, K # {},
         NEW field, \A k \in K : rows[k][field] \in Nat
  PROVE  /\ WeightedMean(rows, K, field) \in Int
         /\ SumOf([k \in K |-> rows[k][field] * rows[k].weight], K) \in Int
         /\ WeightedMean(rows, K, field)
              = SumOf([k \in K |-> rows[k][field] * rows[k].weight], K) \div WeightOf(rows, K)
<1> DEFINE v == [k \in K |-> rows[k][field] * rows[k].weight]
<1>1. WeightedMean(rows, K, field) = SumOf(v, K) \div WeightOf(rows, K)
  BY DEF WeightedMean, Total, SumOf
<1>2. IsFiniteSet(K) /\ WeightOf(rows, K) \in Nat /\ WeightOf(rows, K) > 0
  BY WeightIsPositive
<1>3. \A k \in K : v[k] \in Int
  <2>1. \A k \in K : rows[k].weight \in Nat /\ rows[k][field] \in Nat
    BY RowsAre
  <2>2. \A a, b \in Nat : a * b \in Int
    OBVIOUS
  <2> QED BY <2>1, <2>2
<1> HIDE DEF v
<1>4. SumOf(v, K) \in Int
  BY <1>2, <1>3, SumAtAny
<1>5. SumOf(v, K) \div WeightOf(rows, K) \in Int
  BY <1>2, <1>4
<1> QED BY <1>1, <1>4, <1>5 DEF v

LEMMA KilledIn == \A rows : \A k \in {i \in DOMAIN rows : Killed(rows[i])} : rows[k].ttk # Never
BY DEF Killed

LEMMA SummaryIs ==
  ASSUME NEW rows \in TargetRows, NEW objective, NEW c, NEW d \in Candidates
  PROVE  [SummarizeEvaluation(c, objective, rows) EXCEPT !.candidate = d] \in Evaluations(objective)
<1> DEFINE killed == {k \in DOMAIN rows : Killed(rows[k])}
           meanTtk == IF killed = {} THEN Never ELSE Round(WeightedMean(rows, killed, "ttk"))
           damage == Round(WeightedMean(rows, DOMAIN rows, "damage"))
           dps == Round(WeightedMean(rows, DOMAIN rows, "dps"))
           score == CASE objective = "ttk" -> meanTtk
                      [] objective = "sustained-dps" -> dps
                      [] OTHER -> damage
           covered == Round(Coverage(rows, killed))
<1>1. DOMAIN rows # {} /\ DOMAIN rows \in SUBSET DOMAIN rows
  BY RowsAre
<1>2. damage \in Sixes
  <2>1. \A k \in DOMAIN rows : rows[k]["damage"] \in Nat
    BY RowsAre
  <2>2. WeightedMean(rows, DOMAIN rows, "damage") \in Int
    BY <1>1, <2>1, MeanIsWhole
  <2> QED BY <2>2, RoundIsSix
<1>3. dps \in Sixes
  <2>1. \A k \in DOMAIN rows : rows[k]["dps"] \in Nat
    BY RowsAre
  <2>2. WeightedMean(rows, DOMAIN rows, "dps") \in Int
    BY <1>1, <2>1, MeanIsWhole
  <2> QED BY <2>2, RoundIsSix
<1>4. killed \in SUBSET DOMAIN rows /\ \A k \in killed : rows[k]["ttk"] \in Nat
  BY RowsAre DEF Killed
<1>5. meanTtk \in Sixes \cup {Never}
  <2>1. CASE killed # {}
    <3>1. WeightedMean(rows, killed, "ttk") \in Int
      <4> HIDE DEF killed
      <4> QED BY <1>4, <2>1, MeanIsWhole
    <3> QED BY <2>1, <3>1, RoundIsSix
  <2> QED BY <2>1
<1>6. covered \in Sixes
  <2>1. WeightOf(rows, killed) \in Nat
    <3> HIDE DEF killed
    <3> QED BY <1>4, WeightIsPositive
  <2>2. WeightOf(rows, DOMAIN rows) \in Nat /\ WeightOf(rows, DOMAIN rows) > 0
    BY <1>1, WeightIsPositive
  <2>3. One(rows) \in Int
    BY <2>2 DEF One
  <2>4. Coverage(rows, killed) \in Int
    <3> HIDE DEF killed
    <3> QED BY <2>1, <2>3 DEF Coverage
  <2> QED BY <2>4, RoundIsSix
<1>7. score \in Sixes \cup {Never} /\ (objective # "ttk" => score \in Sixes)
  <2> HIDE DEF meanTtk, dps, damage
  <2> QED BY <1>2, <1>3, <1>5
<1>8. SummarizeEvaluation(c, objective, rows)
        = [candidate |-> c, objective |-> objective, score |-> score, weightedDamage |-> damage,
           killCoverage |-> covered, meanTtk |-> meanTtk]
  BY DEF SummarizeEvaluation
<1> HIDE DEF killed, meanTtk, damage, dps, score, covered
<1>9. [SummarizeEvaluation(c, objective, rows) EXCEPT !.candidate = d]
        = [candidate |-> d, objective |-> objective, score |-> score, weightedDamage |-> damage,
           killCoverage |-> covered, meanTtk |-> meanTtk]
  BY <1>8
<1> QED BY <1>2, <1>5, <1>6, <1>7, <1>9 DEF Evaluations

(* "The comparator is exact and total" (optimizer-engine.ts): the same      *)
(* evaluations have one ranking, for any builds, targets and findings.      *)
THEOREM RankingIsDeterministic == RankingDeterministic
<1> SUFFICES ASSUME NEW objective \in Objectives
    PROVE  LET found == {SummarizeEvaluation(CHOOSE c \in Candidates : TRUE, objective, rows) :
                           rows \in TargetRows}
               n == Cardinality(Candidates)
               orders == {order \in [1..n -> Candidates] : IsInjective(order)}
               rankings(of) ==
                 {RankOptimizerEvaluations(
                    [k \in 1..n |-> [of[order[k]] EXCEPT !.candidate = order[k]]], n) : order \in orders}
           IN  \A of \in [Candidates -> found] : Cardinality(rankings(of)) = 1
  BY DEF RankingDeterministic
<1> DEFINE found == {SummarizeEvaluation(CHOOSE c \in Candidates : TRUE, objective, rows) :
                      rows \in TargetRows}
           n == Cardinality(Candidates)
           orders == {order \in [1..n -> Candidates] : IsInjective(order)}
<1> SUFFICES ASSUME NEW of \in [Candidates -> found]
    PROVE  Cardinality({RankOptimizerEvaluations(
                    [k \in 1..n |-> [of[order[k]] EXCEPT !.candidate = order[k]]], n) : order \in orders}) = 1
  OBVIOUS
<1> DEFINE E(c) == [of[c] EXCEPT !.candidate = c]
           S == {E(c) : c \in Candidates}
           R == RankOrder(S)
           Seen(order) == [k \in 1..n |-> E(order[k])]
<1>1. IsFiniteSet(Candidates) /\ n \in Nat
  BY CandidatesAssumption, FS_CardinalityType
<1>2. \A c \in Candidates : E(c) \in Evaluations(objective) /\ E(c).candidate = c
  <2> SUFFICES ASSUME NEW c \in Candidates PROVE E(c) \in Evaluations(objective) /\ E(c).candidate = c
    OBVIOUS
  <2>1. PICK rows \in TargetRows : of[c] = SummarizeEvaluation(CHOOSE b \in Candidates : TRUE, objective, rows)
    OBVIOUS
  <2>2. E(c) \in Evaluations(objective)
    BY <2>1, SummaryIs
  <2>3. E(c).candidate = c
    BY <2>1 DEF SummarizeEvaluation
  <2> QED BY <2>2, <2>3
<1> HIDE DEF E, found
<1>3. S \in SUBSET Evaluations(objective)
  BY <1>2
<1>4. /\ RankedAs(R, S) /\ Transitive(R, S) /\ \A x \in S : <<x, x>> \notin R
      /\ \A x, y \in S : x.candidate # y.candidate => <<x, y>> \in R \/ <<y, x>> \in R
  <2> HIDE DEF S
  <2> QED BY <1>3, RankIsOrder
<1> HIDE DEF R
<1>5. ASSUME NEW order \in orders
      PROVE  Seen(order) \in Seq(S) /\ Len(Seen(order)) = n /\ Range(Seen(order)) = S /\ Apart(Seen(order), R)
  <2>1. order \in [1..n -> Candidates] /\ IsInjective(order)
    OBVIOUS
  <2>2. Seen(order) \in [1..n -> S]
    BY <2>1
  <2>3. Seen(order) \in Seq(S) /\ Len(Seen(order)) = n /\ DOMAIN Seen(order) = 1..n
    <3>1. Seen(order) \in Seq(S) /\ DOMAIN Seen(order) = 1..n
      <4> HIDE DEF S
      <4> QED BY <1>1, <2>2
    <3> QED BY <1>1, <3>1, LenProperties
  <2>4. \A c \in Candidates : \E k \in 1..n : order[k] = c
    <3>1. IsFiniteSet(1..n) /\ Cardinality(1..n) = n
      BY <1>1, FS_Interval
    <3>2. order \in Injection(1..n, Candidates)
      BY <2>1 DEF Injection
    <3>3. order \in Surjection(1..n, Candidates)
      BY <1>1, <3>1, <3>2, FS_Injection
    <3> QED BY <3>3 DEF Surjection
  <2>5. Range(Seen(order)) = S
    <3>1. \A x \in S : \E k \in 1..n : x = Seen(order)[k]
      BY <2>4
    <3>2. \A k \in 1..n : Seen(order)[k] \in S
      BY <2>1
    <3> HIDE DEF S, Seen
    <3> QED BY <2>3, <3>1, <3>2 DEF Range
  <2>6. Apart(Seen(order), R)
    <3> SUFFICES ASSUME NEW i \in 1..n, NEW j \in 1..n, i # j
        PROVE  <<Seen(order)[i], Seen(order)[j]>> \in R \/ <<Seen(order)[j], Seen(order)[i]>> \in R
      BY <2>3 DEF Apart
    <3>1. order[i] # order[j] /\ order[i] \in Candidates /\ order[j] \in Candidates
      BY <2>1 DEF IsInjective
    <3>2. Seen(order)[i] = E(order[i]) /\ Seen(order)[j] = E(order[j])
      OBVIOUS
    <3>3. E(order[i]) \in S /\ E(order[j]) \in S
      BY <3>1
    <3> HIDE DEF S, Seen
    <3> QED BY <1>2, <1>4, <3>1, <3>2, <3>3
  <2> QED BY <2>3, <2>5, <2>6
<1>6. PICK first \in orders : TRUE
  <2>1. \E f : f \in Bijection(1..n, Candidates)
    BY <1>1, FS_CardinalityType DEF ExistsBijection
  <2>2. PICK f : f \in Bijection(1..n, Candidates)
    BY <2>1
  <2>3. f \in orders
    BY <2>2 DEF Bijection, Injection
  <2> QED BY <2>3
<1>7. ASSUME NEW order \in orders
      PROVE  RankOptimizerEvaluations(Seen(order), n) = RankOptimizerEvaluations(Seen(first), n)
  <2>1. /\ Seen(order) \in Seq(S) /\ Apart(Seen(order), R) /\ Range(Seen(order)) = S
        /\ Seen(first) \in Seq(S) /\ Apart(Seen(first), R) /\ Range(Seen(first)) = S
    BY <1>5
  <2> HIDE DEF Seen, S
  <2>2. Ranked(Seen(order)) = Ranked(Seen(first))
    BY <1>4, <2>1, RankedOnce
  <2> QED BY <2>2 DEF RankOptimizerEvaluations, Ranked
<1>8. {RankOptimizerEvaluations([k \in 1..n |-> [of[order[k]] EXCEPT !.candidate = order[k]]], n) :
          order \in orders}
        = {RankOptimizerEvaluations(Seen(order), n) : order \in orders}
  BY DEF E
<1>9. {RankOptimizerEvaluations(Seen(order), n) : order \in orders}
        = {RankOptimizerEvaluations(Seen(first), n)}
  <2> HIDE DEF Seen, orders
  <2> QED BY <1>6, <1>7
<1>10. Cardinality({RankOptimizerEvaluations(Seen(first), n)}) = 1
  BY FS_Singleton
<1> HIDE DEF orders, Seen
<1> QED BY <1>8, <1>9, <1>10

LEMMA SumRises ==
  ASSUME NEW S, IsFiniteSet(S), NEW v, NEW w, \A x \in S : v[x] \in Int /\ w[x] \in Int /\ v[x] <= w[x]
  PROVE  SumOf(v, S) \in Int /\ SumOf(w, S) \in Int /\ SumOf(v, S) <= SumOf(w, S)
<1> DEFINE Good == {T \in SUBSET S : SumOf(v, T) \in Int /\ SumOf(w, T) \in Int /\ SumOf(v, T) <= SumOf(w, T)}
<1>1. {} \in Good
  <2>1. SumOf(v, {}) = 0 /\ SumOf(w, {}) = 0
    BY FS_EmptySet, SumAtChosen
  <2> QED BY <2>1
<1>2. ASSUME NEW T \in SUBSET S, NEW x \in S \ T, T \in Good PROVE T \cup {x} \in Good
  <2>1. IsFiniteSet(T) /\ x \notin T /\ \A y \in T \cup {x} : v[y] \in Int /\ w[y] \in Int
    BY FS_Subset
  <2>2. SumOf(v, T \cup {x}) = SumOf(v, T) + v[x] /\ SumOf(w, T \cup {x}) = SumOf(w, T) + w[x]
    <3> HIDE DEF Good
    <3> QED BY <2>1, SumOneMore
  <2>3. v[x] \in Int /\ w[x] \in Int /\ v[x] <= w[x]
    OBVIOUS
  <2> QED BY <1>2, <2>2, <2>3
<1>3. S \in Good
  <2> HIDE DEF Good
  <2> QED BY <1>1, <1>2, ByElements
<1> QED BY <1>3

LEMMA ShareRises == \A a, b \in Int, w \in Nat \ {0} : a <= b => a \div w <= b \div w
OBVIOUS

LEMMA ProductRises == \A x, y, w \in Nat : x <= y => x * w <= y * w /\ x * w \in Int /\ y * w \in Int
OBVIOUS

LEMMA RoundRises == \A x, y \in Int : x <= y => Round(x) <= Round(y)
BY DEF Round, SixPlaces

LEMMA RoundTells == \A x, y \in Int : x + SixPlaces <= y => Round(x) < Round(y)
BY DEF Round, SixPlaces

(* A mean over the same targets of what is nowhere less.                    *)
LEMMA MeanRises ==
  ASSUME NEW b \in TargetRows, NEW w \in TargetRows, NEW K, K \in SUBSET DOMAIN b, K \in SUBSET DOMAIN w,
         K # {}, NEW field,
         \A k \in K : /\ b[k].weight = w[k].weight
                      /\ b[k][field] \in Nat /\ w[k][field] \in Nat /\ w[k][field] <= b[k][field]
  PROVE  /\ WeightedMean(w, K, field) \in Int /\ WeightedMean(b, K, field) \in Int
         /\ Round(WeightedMean(w, K, field)) <= Round(WeightedMean(b, K, field))
<1> DEFINE vw == [k \in K |-> w[k][field] * w[k].weight]
           vb == [k \in K |-> b[k][field] * b[k].weight]
<1>1. /\ IsFiniteSet(K) /\ WeightOf(w, K) \in Nat \ {0} /\ WeightOf(b, K) \in Nat \ {0}
      /\ WeightOf(w, K) = SumOf([k \in K |-> w[k].weight], K)
      /\ WeightOf(b, K) = SumOf([k \in K |-> b[k].weight], K)
  BY WeightIsPositive
<1>2. WeightOf(w, K) = WeightOf(b, K)
  <2>1. [k \in K |-> w[k].weight] = [k \in K |-> b[k].weight]
    OBVIOUS
  <2> QED BY <1>1, <2>1
<1>3. /\ WeightedMean(w, K, field) \in Int /\ WeightedMean(w, K, field) = SumOf(vw, K) \div WeightOf(w, K)
      /\ WeightedMean(b, K, field) \in Int /\ WeightedMean(b, K, field) = SumOf(vb, K) \div WeightOf(b, K)
  BY MeanIsWhole
<1>4. \A k \in K : vw[k] \in Int /\ vb[k] \in Int /\ vw[k] <= vb[k]
  <2> SUFFICES ASSUME NEW k \in K PROVE vw[k] \in Int /\ vb[k] \in Int /\ vw[k] <= vb[k]
    OBVIOUS
  <2>1. w[k].weight \in Nat /\ b[k].weight = w[k].weight
    BY RowsAre
  <2>2. b[k][field] \in Nat /\ w[k][field] \in Nat /\ w[k][field] <= b[k][field]
    OBVIOUS
  <2>3. /\ w[k][field] * w[k].weight <= b[k][field] * w[k].weight
        /\ w[k][field] * w[k].weight \in Int /\ b[k][field] * w[k].weight \in Int
    BY <2>1, <2>2, ProductRises
  <2> QED BY <2>1, <2>3
<1> HIDE DEF vw, vb
<1>5. SumOf(vw, K) \in Int /\ SumOf(vb, K) \in Int /\ SumOf(vw, K) <= SumOf(vb, K)
  BY <1>1, <1>4, SumRises
<1>6. WeightedMean(w, K, field) <= WeightedMean(b, K, field)
  BY <1>1, <1>2, <1>3, <1>5, ShareRises
<1> QED BY <1>3, <1>6, RoundRises

(* More targets that die are a greater share, by as much as is told apart.  *)
LEMMA CoverageRises ==
  ASSUME NEW b \in TargetRows, NEW w \in TargetRows, DOMAIN b = DOMAIN w,
         \A k \in DOMAIN b : b[k].weight = w[k].weight,
         NEW K \in SUBSET DOMAIN b, NEW L \in SUBSET K
  PROVE  /\ Round(Coverage(w, L)) <= Round(Coverage(b, K))
         /\ L # K => Round(Coverage(w, L)) < Round(Coverage(b, K))
<1>1. DOMAIN b # {} /\ \A k \in DOMAIN b : b[k].weight \in Nat \ {0}
  BY RowsAre
<1>2. \A J \in SUBSET DOMAIN b :
        /\ IsFiniteSet(J) /\ WeightOf(b, J) \in Nat /\ WeightOf(w, J) = WeightOf(b, J)
        /\ J # {} => WeightOf(b, J) > 0
        /\ WeightOf(b, J) = SumOf([k \in J |-> b[k].weight], J)
  <2> SUFFICES ASSUME NEW J \in SUBSET DOMAIN b
      PROVE  /\ IsFiniteSet(J) /\ WeightOf(b, J) \in Nat /\ WeightOf(w, J) = WeightOf(b, J)
             /\ J # {} => WeightOf(b, J) > 0
             /\ WeightOf(b, J) = SumOf([k \in J |-> b[k].weight], J)
    OBVIOUS
  <2>1. [k \in J |-> w[k].weight] = [k \in J |-> b[k].weight]
    OBVIOUS
  <2> QED BY <2>1, WeightIsPositive
<1>3. One(b) \in Nat /\ One(w) = One(b)
  <2>1. WeightOf(b, DOMAIN b) \in Nat /\ WeightOf(b, DOMAIN b) > 0 /\ WeightOf(w, DOMAIN w) = WeightOf(b, DOMAIN b)
    BY <1>1, <1>2
  <2> QED BY <2>1 DEF One
<1> DEFINE v == [k \in K |-> b[k].weight]
<1>4. IsFiniteSet(K) /\ \A k \in K : v[k] \in Nat \ {0}
  BY <1>1, <1>2
<1>5. WeightOf(b, K) = SumOf(v, K) /\ WeightOf(b, L) = SumOf(v, L)
  <2>1. SumOf([k \in L |-> b[k].weight], L) = SumOf(v, L)
    <3> DEFINE u == [k \in L |-> b[k].weight]
    <3>0. IsFiniteSet(L)
      BY <1>4, FS_Subset
    <3>1. \A k \in L : v[k] \in Int /\ u[k] = v[k]
      BY <1>4
    <3> HIDE DEF u, v
    <3>2. SumOf(u, L) = SumOf(v, L)
      BY <3>0, <3>1, SumOfEqual
    <3> QED BY <3>2 DEF u
  <2> QED BY <1>2, <2>1
<1> HIDE DEF v
<1>6. /\ SumOf(v, K) \in Nat /\ SumOf(v, L) \in Nat /\ SumOf(v, L) <= SumOf(v, K)
  BY <1>4, SumGrows
<1> DEFINE x == One(b) * WeightOf(b, L)
           y == One(b) * WeightOf(b, K)
<1>7. /\ Coverage(w, L) = x /\ Coverage(b, K) = y /\ x \in Int /\ y \in Int /\ x <= y
  <2>1. Coverage(w, L) = x /\ Coverage(b, K) = y
    BY <1>2, <1>3 DEF Coverage
  <2>2. \A p, q, r \in Nat : q <= r => p * q \in Int /\ p * r \in Int /\ p * q <= p * r
    OBVIOUS
  <2> QED BY <1>3, <1>5, <1>6, <2>1, <2>2
<1>8. ASSUME L # K PROVE x + SixPlaces <= y
  <2>1. PICK k \in K : k \notin L
    BY <1>8
  <2>2. IsFiniteSet(L) /\ L \cup {k} \in SUBSET K
    BY <1>2
  <2>3. SumOf(v, L \cup {k}) = SumOf(v, L) + v[k]
    <3>1. \A j \in L \cup {k} : v[j] \in Int
      BY <1>4
    <3> QED BY <2>1, <2>2, <3>1, SumOneMore
  <2>4. SumOf(v, L \cup {k}) <= SumOf(v, K) /\ SumOf(v, L \cup {k}) \in Nat
    BY <1>4, <2>2, SumGrows
  <2>5. v[k] = b[k].weight /\ b[k].weight \in Nat /\ One(b) * b[k].weight >= SixPlaces
    <3>1. k \in DOMAIN b
      OBVIOUS
    <3> QED BY <1>1, <3>1, RowsAssumption DEF v
  <2>6. WeightOf(b, L) + b[k].weight <= WeightOf(b, K)
    BY <1>5, <2>3, <2>4, <2>5
  <2>7. \A p, q, r, s \in Nat : q + r <= s => p * q + p * r <= p * s /\ p * q \in Int /\ p * r \in Int /\ p * s \in Int
    OBVIOUS
  <2>8. /\ One(b) * WeightOf(b, L) + One(b) * b[k].weight <= One(b) * WeightOf(b, K)
        /\ One(b) * b[k].weight \in Int
    BY <1>3, <1>5, <1>6, <2>5, <2>6, <2>7
  <2>9. SixPlaces \in Int
    BY DEF SixPlaces
  <2> HIDE DEF x, y
  <2>10. x + One(b) * b[k].weight <= y
    BY <2>8 DEF x, y
  <2> QED BY <1>7, <2>5, <2>8, <2>9, <2>10
<1> HIDE DEF x, y
<1> QED BY <1>7, <1>8, RoundRises, RoundTells

(* A build that does at least as well against every target is not ranked    *)
(* behind at the same price, for any rows of any weights.                   *)
THEOREM RankingRespectsDominance == DominanceRespected
<1> SUFFICES ASSUME NEW objective \in Objectives, NEW candidate \in Candidates,
                    NEW b \in TargetRows, NEW w \in TargetRows, Dominates(b, w)
    PROVE  CompareOptimizerEvaluations(SummarizeEvaluation(candidate, objective, b),
                                       SummarizeEvaluation(candidate, objective, w)) <= 0
  BY DEF DominanceRespected
<1> DEFINE eb == SummarizeEvaluation(candidate, objective, b)
           ew == SummarizeEvaluation(candidate, objective, w)
           kb == {k \in DOMAIN b : Killed(b[k])}
           kw == {k \in DOMAIN w : Killed(w[k])}
<1>1. /\ DOMAIN b = DOMAIN w /\ DOMAIN b # {}
      /\ \A k \in DOMAIN b :
           /\ b[k].damage \in Nat /\ b[k].dps \in Nat /\ b[k].ttk \in Nat \cup {Never}
           /\ w[k].damage \in Nat /\ w[k].dps \in Nat /\ w[k].ttk \in Nat \cup {Never}
           /\ b[k].weight = w[k].weight
           /\ w[k].damage <= b[k].damage /\ w[k].dps <= b[k].dps
           /\ Killed(w[k]) => Killed(b[k]) /\ b[k].ttk <= w[k].ttk
  <2>1. Len(b) = Len(w)
    BY RowsAssumption
  <2>2. DOMAIN b = DOMAIN w
    BY <2>1, RowsAre
  <2> QED BY <2>2, RowsAre DEF Dominates
<1>2. eb \in Evaluations(objective) /\ ew \in Evaluations(objective)
  <2>1. [eb EXCEPT !.candidate = candidate] = eb /\ [ew EXCEPT !.candidate = candidate] = ew
    BY DEF SummarizeEvaluation
  <2> HIDE DEF eb, ew
  <2>2. [eb EXCEPT !.candidate = candidate] \in Evaluations(objective)
    BY SummaryIs DEF eb
  <2>3. [ew EXCEPT !.candidate = candidate] \in Evaluations(objective)
    BY SummaryIs DEF ew
  <2> QED BY <2>1, <2>2, <2>3
<1> DEFINE mb == IF kb = {} THEN Never ELSE Round(WeightedMean(b, kb, "ttk"))
           mw == IF kw = {} THEN Never ELSE Round(WeightedMean(w, kw, "ttk"))
           db == Round(WeightedMean(b, DOMAIN b, "damage"))
           dw == Round(WeightedMean(w, DOMAIN w, "damage"))
           sb == Round(WeightedMean(b, DOMAIN b, "dps"))
           sw == Round(WeightedMean(w, DOMAIN w, "dps"))
           cb == Round(Coverage(b, kb))
           cw == Round(Coverage(w, kw))
<1>3. /\ eb.candidate = candidate /\ eb.objective = objective /\ eb.meanTtk = mb
      /\ eb.weightedDamage = db /\ eb.killCoverage = cb
      /\ objective = "sustained-dps" => eb.score = sb
      /\ objective # "ttk" /\ objective # "sustained-dps" => eb.score = db
      /\ ew.candidate = candidate /\ ew.objective = objective /\ ew.meanTtk = mw
      /\ ew.weightedDamage = dw /\ ew.killCoverage = cw
      /\ objective = "sustained-dps" => ew.score = sw
      /\ objective # "ttk" /\ objective # "sustained-dps" => ew.score = dw
  BY DEF SummarizeEvaluation
<1>4. kb \in SUBSET DOMAIN b /\ kw \in SUBSET kb
  BY <1>1
<1>5. cw <= cb /\ (kw # kb => cw < cb)
  <2> HIDE DEF kb, kw
  <2> QED BY <1>1, <1>4, CoverageRises
<1>6. dw <= db
  <2>1. \A k \in DOMAIN b : /\ b[k].weight = w[k].weight
                            /\ b[k]["damage"] \in Nat /\ w[k]["damage"] \in Nat
                            /\ w[k]["damage"] <= b[k]["damage"]
    BY <1>1
  <2> QED BY <1>1, <2>1, MeanRises
<1>7. sw <= sb
  <2>1. \A k \in DOMAIN b : /\ b[k].weight = w[k].weight
                            /\ b[k]["dps"] \in Nat /\ w[k]["dps"] \in Nat
                            /\ w[k]["dps"] <= b[k]["dps"]
    BY <1>1
  <2> QED BY <1>1, <2>1, MeanRises
<1>8. ASSUME kw = kb, kb # {} PROVE mb # Never /\ mw # Never /\ mb <= mw
  <2>1. \A k \in kb : /\ w[k].weight = b[k].weight
                      /\ w[k]["ttk"] \in Nat /\ b[k]["ttk"] \in Nat
                      /\ b[k]["ttk"] <= w[k]["ttk"]
    BY <1>1, <1>8 DEF Killed
  <2>2. kb \in SUBSET DOMAIN w
    BY <1>1, <1>4
  <2> HIDE DEF kb, kw
  <2>3. /\ Round(WeightedMean(b, kb, "ttk")) <= Round(WeightedMean(w, kb, "ttk"))
        /\ WeightedMean(b, kb, "ttk") \in Int /\ WeightedMean(w, kb, "ttk") \in Int
    BY <1>4, <1>8, <2>1, <2>2, MeanRises
  <2>4. Round(WeightedMean(b, kb, "ttk")) \in Int /\ Round(WeightedMean(w, kb, "ttk")) \in Int
    BY <2>3, RoundIsSix
  <2> QED BY <1>8, <2>3, <2>4, RowsAssumption
<1>9. ~Precedes(ew, eb)
  <2>1. /\ FirstKey(eb) \in Int /\ SecondKey(eb) \in Int /\ ThirdKey(eb) \in Int
        /\ FirstKey(ew) \in Int /\ SecondKey(ew) \in Int /\ ThirdKey(ew) \in Int
        /\ candidate.goldTotal \in Int /\ candidate.identity \in Int
    BY <1>2, NumbersOf, CandidatesAssumption
  <2>2. /\ cb \in Int /\ cw \in Int /\ db \in Int /\ dw \in Int
        /\ objective # "ttk" => eb.score \in Int /\ ew.score \in Int
    <3>1. \A e \in Evaluations(objective) :
            e.killCoverage \in Int /\ e.weightedDamage \in Int /\ (objective # "ttk" => e.score \in Int)
      BY DEF Evaluations, Sixes, SixPlaces
    <3> HIDE DEF eb, ew, cb, cw, db, dw
    <3> QED BY <1>2, <1>3, <3>1
  <2> HIDE DEF eb, ew
  <2>3. CASE objective = "ttk"
    <3>1. FirstKey(eb) = -cb /\ FirstKey(ew) = -cw
      BY <1>3, <2>3 DEF FirstKey
    <3>2. CASE kw # kb
      <4>1. FirstKey(eb) < FirstKey(ew)
        <5> HIDE DEF cb, cw, kb, kw
        <5> QED BY <1>5, <2>2, <3>1, <3>2
      <4> QED BY <2>1, <4>1 DEF Precedes
    <3>3. CASE kw = kb /\ kb = {}
      <4>1. mb = Never /\ mw = Never
        BY <3>3
      <4>2. SecondKey(eb) = 1 /\ SecondKey(ew) = 1 /\ ThirdKey(eb) = 0 /\ ThirdKey(ew) = 0
        <5> HIDE DEF mb, mw
        <5> QED BY <1>3, <2>3, <4>1 DEF SecondKey, ThirdKey
      <4>3. FirstKey(eb) <= FirstKey(ew)
        <5> HIDE DEF cb, cw, kb, kw
        <5> QED BY <1>5, <2>2, <3>1
      <4> HIDE DEF cb, cw, kb, kw, mb, mw
      <4> QED BY <1>3, <2>1, <4>2, <4>3 DEF Precedes
    <3>4. CASE kw = kb /\ kb # {}
      <4>1. mb # Never /\ mw # Never /\ mb <= mw
        BY <1>8, <3>4
      <4>2. SecondKey(eb) = 0 /\ SecondKey(ew) = 0 /\ ThirdKey(eb) = mb /\ ThirdKey(ew) = mw
        <5> HIDE DEF mb, mw
        <5> QED BY <1>3, <2>3, <4>1 DEF SecondKey, ThirdKey
      <4>3. FirstKey(eb) <= FirstKey(ew)
        <5> HIDE DEF cb, cw, kb, kw
        <5> QED BY <1>5, <2>2, <3>1
      <4> HIDE DEF cb, cw, kb, kw, mb, mw
      <4> QED BY <1>3, <2>1, <4>1, <4>2, <4>3 DEF Precedes
    <3> QED BY <3>2, <3>3, <3>4
  <2>4. CASE objective # "ttk"
    <3>1. /\ FirstKey(eb) = -eb.score /\ FirstKey(ew) = -ew.score
          /\ SecondKey(eb) = -cb /\ SecondKey(ew) = -cw /\ ThirdKey(eb) = -db /\ ThirdKey(ew) = -dw
      BY <1>3, <2>4 DEF FirstKey, SecondKey, ThirdKey
    <3>2. ew.score <= eb.score
      <4> HIDE DEF sb, sw, db, dw
      <4> QED BY <1>3, <1>6, <1>7, <2>4
    <3>3. FirstKey(eb) <= FirstKey(ew) /\ SecondKey(eb) <= SecondKey(ew) /\ ThirdKey(eb) <= ThirdKey(ew)
      <4> HIDE DEF cb, cw, kb, kw, db, dw
      <4> QED BY <1>5, <1>6, <2>2, <2>4, <3>1, <3>2
    <3> HIDE DEF cb, cw, kb, kw, mb, mw, db, dw, sb, sw
    <3> QED BY <1>3, <2>1, <3>3 DEF Precedes
  <2> QED BY <2>3, <2>4
<1> HIDE DEF eb, ew
<1>10. CompareOptimizerEvaluations(eb, ew) \in Int /\ ~(CompareOptimizerEvaluations(eb, ew) > 0)
  BY <1>2, <1>9, CompareIsLexicographic
<1> QED BY <1>10 DEF eb, ew

-----------------------------------------------------------------------------
(* The candidates: whether a list of items is legal is said of its items as *)
(* a set; what visit finds from an index on are, by induction downwards,    *)
(* the choices of the items from there, once each; and sorting them and     *)
(* filtering the legal ones neither loses nor repeats any.                  *)

LessThan == {p \in Int \X Int : p[1] < p[2]}

LEMMA LessThanIsOrder ==
  /\ \A x, y \in Int : <<x, y>> \in LessThan <=> x < y
  /\ Transitive(LessThan, Int) /\ \A x \in Int : <<x, x>> \notin LessThan
<1>1. \A x, y \in Int : <<x, y>> \in LessThan <=> x < y
  BY DEF LessThan
<1>2. \A x, y, z \in Int : x < y /\ y < z => x < z
  OBVIOUS
<1>3. Transitive(LessThan, Int)
  BY <1>1, <1>2 DEF Transitive
<1> QED BY <1>1, <1>3

(* The canonical form of a list: its ids, in ascending order if they are    *)
(* different ones.                                                          *)
LEMMA CanonicalIs ==
  ASSUME NEW s \in Seq(Int)
  PROVE  /\ CanonicalizeItemIds(s) \in Seq(Int) /\ Len(CanonicalizeItemIds(s)) = Len(s)
         /\ Range(CanonicalizeItemIds(s)) = Range(s)
         /\ IsInjective(s) => IsInjective(CanonicalizeItemIds(s)) /\ InOrder(CanonicalizeItemIds(s), LessThan)
<1> DEFINE N == Len(s)
           Put(n, q) == PutBefore(q, {k \in DOMAIN q : s[n] < q[k]}, s[n])
           Rec(g) == [n \in 0..N |-> IF n = 0 THEN <<>> ELSE Put(n, g[n - 1])]
           g == CHOOSE g : g = Rec(g)
<1>1. N \in Nat /\ DOMAIN s = 1..N /\ \A n \in 1..N : s[n] \in Int
  BY LenProperties, ElementOfSeq
<1>2. PICK h \in [0..N -> Seq(Int)] :
           /\ Inserts(h, s, LessThan)
           /\ Len(h[N]) = N /\ Range(h[N]) = Range(s)
           /\ IsInjective(s) => IsInjective(h[N])
           /\ Apart(s, LessThan) /\ Transitive(LessThan, Int) => InOrder(h[N], LessThan)
  BY InsertionSorts
<1>a. /\ h[0] = <<>>
      /\ \A n \in 1..N : h[n] = PutBefore(h[n - 1], PlacesAfter(h[n - 1], s[n], LessThan), s[n])
  BY <1>2 DEF Inserts
<1>3. ASSUME NEW n \in 1..N PROVE h[n] = Put(n, h[n - 1])
  <2>1. h[n - 1] \in Seq(Int)
    <3>1. n - 1 \in 0..N
      BY <1>1
    <3> QED BY <1>2, <3>1
  <2>2. \A k \in DOMAIN h[n - 1] : h[n - 1][k] \in Int
    BY <2>1, LenProperties, ElementOfSeq
  <2>3. PlacesAfter(h[n - 1], s[n], LessThan) = {k \in DOMAIN h[n - 1] : s[n] < h[n - 1][k]}
    BY <1>1, <2>2, LessThanIsOrder DEF PlacesAfter
  <2> QED BY <1>a, <2>3
<1>4. h = Rec(h)
  <2>1. h = [n \in 0..N |-> h[n]]
    BY <1>2
  <2>2. \A n \in 0..N : h[n] = IF n = 0 THEN <<>> ELSE Put(n, h[n - 1])
    <3> SUFFICES ASSUME NEW n \in 0..N PROVE h[n] = IF n = 0 THEN <<>> ELSE Put(n, h[n - 1])
      OBVIOUS
    <3>1. n = 0 \/ n \in 1..N
      BY <1>1
    <3>2. CASE n = 0
      BY <1>a, <3>2
    <3>3. CASE n \in 1..N
      <4>1. n # 0
        BY <1>1, <3>3
      <4> HIDE DEF Put
      <4> QED BY <1>3, <3>3, <4>1
    <3> QED BY <3>1, <3>2, <3>3
  <2> HIDE DEF Put
  <2> QED BY <2>1, <2>2
<1>5. CanonicalizeItemIds(s) = g[N]
  BY DEF CanonicalizeItemIds, SortedBy
<1>6. g = Rec(g)
  <2>1. \E f : f = Rec(f)
    BY <1>4
  <2> HIDE DEF Rec
  <2> QED BY <2>1
<1> HIDE DEF g, Put
<1>7. g = h
  <2>1. /\ DOMAIN g = 0..N /\ g = [n \in 0..N |-> g[n]] /\ g[0] = <<>>
        /\ \A n \in 1..N : g[n] = Put(n, g[n - 1])
    <3>0. \A n \in 1..N : n \in 0..N /\ n # 0
      BY <1>1
    <3>1. DOMAIN g = 0..N
      BY <1>6
    <3>2. \A n \in 0..N : g[n] = IF n = 0 THEN <<>> ELSE Put(n, g[n - 1])
      BY <1>6
    <3>3. g = [n \in 0..N |-> g[n]]
      <4>1. Rec(g) = [n \in 0..N |-> Rec(g)[n]]
        OBVIOUS
      <4> HIDE DEF Rec
      <4> QED BY <1>6, <4>1
    <3>4. g[0] = <<>>
      BY <1>1, <3>2
    <3>5. \A n \in 1..N : g[n] = Put(n, g[n - 1])
      BY <3>0, <3>2
    <3> HIDE DEF Rec
    <3> QED BY <3>1, <3>3, <3>4, <3>5
  <2>2. DOMAIN h = 0..N /\ h = [n \in 0..N |-> h[n]] /\ h[0] = <<>>
    BY <1>2, <1>a
  <2>3. \A n \in 1..N : g[n - 1] = h[n - 1] => g[n] = h[n]
    BY <1>3, <2>1
  <2> HIDE DEF Rec
  <2> QED BY <1>1, <2>1, <2>2, <2>3, SameRecursion
<1>8. h[N] \in Seq(Int)
  BY <1>1, <1>2
<1>9. IsInjective(s) => Apart(s, LessThan)
  <2> SUFFICES ASSUME IsInjective(s), NEW m \in 1..N, NEW n \in 1..N, m # n
      PROVE  <<s[m], s[n]>> \in LessThan \/ <<s[n], s[m]>> \in LessThan
    BY <1>1 DEF Apart
  <2>1. s[m] # s[n] /\ s[m] \in Int /\ s[n] \in Int
    BY <1>1 DEF IsInjective
  <2> QED BY <2>1, LessThanIsOrder
<1> QED BY <1>2, <1>5, <1>7, <1>8, <1>9, LessThanIsOrder

(* Lists in ascending order are told by their ids.                          *)
LEMMA AscendingOnce ==
  ASSUME NEW s \in Seq(Int), NEW t \in Seq(Int), InOrder(s, LessThan), InOrder(t, LessThan), Range(s) = Range(t)
  PROVE  s = t
BY LessThanIsOrder, OneOrder

LEMMA CanonicalOnce ==
  ASSUME NEW s \in Seq(Int), NEW t \in Seq(Int), IsInjective(s), IsInjective(t), Range(s) = Range(t)
  PROVE  CanonicalizeItemIds(s) = CanonicalizeItemIds(t)
BY CanonicalIs, AscendingOnce

LEMMA AscendingIs ==
  ASSUME NEW K, K \subseteq Int, IsFiniteSet(K)
  PROVE  /\ Ascending(K) \in Seq(Int) /\ Len(Ascending(K)) = Cardinality(K) /\ Cardinality(K) \in Nat
         /\ Range(Ascending(K)) = K /\ IsInjective(Ascending(K)) /\ InOrder(Ascending(K), LessThan)
<1> DEFINE s == Ascending(K)
<1>1. /\ Cardinality(K) \in Nat
      /\ \A n \in 1..Cardinality(K) : Nth(K, n) \in K /\ Place(K, Nth(K, n)) = n
      /\ \A i \in K : Place(K, i) \in 1..Cardinality(K) /\ Nth(K, Place(K, i)) = i
      /\ \A m, n \in 1..Cardinality(K) : m < n => Nth(K, m) < Nth(K, n)
  BY NthPlace
<1>2. /\ s \in [1..Cardinality(K) -> Int] /\ DOMAIN s = 1..Cardinality(K)
      /\ \A n \in 1..Cardinality(K) : s[n] = Nth(K, n)
  BY <1>1 DEF Ascending
<1>3. s \in Seq(Int) /\ Len(s) = Cardinality(K)
  <2>1. s \in Seq(Int)
    <3> HIDE DEF s
    <3> QED BY <1>1, <1>2
  <2> QED BY <1>1, <1>2, <2>1, LenProperties
<1> HIDE DEF s
<1>4. Range(s) = K
  <2>1. \A n \in DOMAIN s : s[n] \in K
    BY <1>1, <1>2
  <2>2. \A i \in K : \E n \in DOMAIN s : i = s[n]
    BY <1>1, <1>2
  <2> QED BY <2>1, <2>2 DEF Range
<1>5. IsInjective(s)
  BY <1>1, <1>2 DEF IsInjective
<1>6. InOrder(s, LessThan)
  <2>1. \A m, n \in 1..Cardinality(K) : m < n => s[m] \in Int /\ s[n] \in Int /\ s[m] < s[n]
    BY <1>1, <1>2
  <2> QED BY <1>2, <2>1, LessThanIsOrder DEF InOrder
<1> QED BY <1>1, <1>3, <1>4, <1>5, <1>6 DEF s

(* The order in which the builds are listed leaves each of them there once. *)
ListedBuilds(builds) == SortedBy(builds, CompareCanonicalIds)
ListOrder == {p \in Seq(Int) \X Seq(Int) : CompareCanonicalIds(p[1], p[2])}

LEMMA ListedIs ==
  ASSUME NEW s \in Seq(Seq(Int))
  PROVE  Range(ListedBuilds(s)) = Range(s) /\ (IsInjective(s) => IsInjective(ListedBuilds(s)))
<1> DEFINE N == Len(s)
           Put(n, q) == PutBefore(q, {k \in DOMAIN q : CompareCanonicalIds(s[n], q[k])}, s[n])
           Rec(g) == [n \in 0..N |-> IF n = 0 THEN <<>> ELSE Put(n, g[n - 1])]
           g == CHOOSE g : g = Rec(g)
<1>0. \A x, y \in Seq(Int) : <<x, y>> \in ListOrder <=> CompareCanonicalIds(x, y)
  BY DEF ListOrder
<1>1. N \in Nat /\ DOMAIN s = 1..N /\ \A n \in 1..N : s[n] \in Seq(Int)
  BY LenProperties, ElementOfSeq
<1>2. PICK h \in [0..N -> Seq(Seq(Int))] :
           /\ Inserts(h, s, ListOrder)
           /\ Len(h[N]) = N /\ Range(h[N]) = Range(s)
           /\ IsInjective(s) => IsInjective(h[N])
  BY InsertionSorts
<1>a. /\ h[0] = <<>>
      /\ \A n \in 1..N : h[n] = PutBefore(h[n - 1], PlacesAfter(h[n - 1], s[n], ListOrder), s[n])
  BY <1>2 DEF Inserts
<1>3. ASSUME NEW n \in 1..N PROVE h[n] = Put(n, h[n - 1])
  <2>1. h[n - 1] \in Seq(Seq(Int))
    <3>1. n - 1 \in 0..N
      BY <1>1
    <3> QED BY <1>2, <3>1
  <2>2. \A k \in DOMAIN h[n - 1] : h[n - 1][k] \in Seq(Int)
    BY <2>1, LenProperties, ElementOfSeq
  <2>3. PlacesAfter(h[n - 1], s[n], ListOrder) = {k \in DOMAIN h[n - 1] : CompareCanonicalIds(s[n], h[n - 1][k])}
    BY <1>1, <2>2, <1>0 DEF PlacesAfter
  <2> QED BY <1>a, <2>3
<1>4. h = Rec(h)
  <2>1. h = [n \in 0..N |-> h[n]]
    BY <1>2
  <2>2. \A n \in 0..N : h[n] = IF n = 0 THEN <<>> ELSE Put(n, h[n - 1])
    <3> SUFFICES ASSUME NEW n \in 0..N PROVE h[n] = IF n = 0 THEN <<>> ELSE Put(n, h[n - 1])
      OBVIOUS
    <3>1. n = 0 \/ n \in 1..N
      BY <1>1
    <3>2. CASE n = 0
      BY <1>a, <3>2
    <3>3. CASE n \in 1..N
      <4>1. n # 0
        BY <1>1, <3>3
      <4> HIDE DEF Put
      <4> QED BY <1>3, <3>3, <4>1
    <3> QED BY <3>1, <3>2, <3>3
  <2> HIDE DEF Put
  <2> QED BY <2>1, <2>2
<1>5. ListedBuilds(s) = g[N]
  BY DEF ListedBuilds, SortedBy
<1>6. g = Rec(g)
  <2>1. \E f : f = Rec(f)
    BY <1>4
  <2> HIDE DEF Rec
  <2> QED BY <2>1
<1> HIDE DEF g, Put
<1>7. g = h
  <2>1. /\ DOMAIN g = 0..N /\ g = [n \in 0..N |-> g[n]] /\ g[0] = <<>>
        /\ \A n \in 1..N : g[n] = Put(n, g[n - 1])
    <3>0. \A n \in 1..N : n \in 0..N /\ n # 0
      BY <1>1
    <3>1. DOMAIN g = 0..N
      BY <1>6
    <3>2. \A n \in 0..N : g[n] = IF n = 0 THEN <<>> ELSE Put(n, g[n - 1])
      BY <1>6
    <3>3. g = [n \in 0..N |-> g[n]]
      <4>1. Rec(g) = [n \in 0..N |-> Rec(g)[n]]
        OBVIOUS
      <4> HIDE DEF Rec
      <4> QED BY <1>6, <4>1
    <3>4. g[0] = <<>>
      BY <1>1, <3>2
    <3>5. \A n \in 1..N : g[n] = Put(n, g[n - 1])
      BY <3>0, <3>2
    <3> HIDE DEF Rec
    <3> QED BY <3>1, <3>3, <3>4, <3>5
  <2>2. DOMAIN h = 0..N /\ h = [n \in 0..N |-> h[n]] /\ h[0] = <<>>
    BY <1>2, <1>a
  <2>3. \A n \in 1..N : g[n - 1] = h[n - 1] => g[n] = h[n]
    BY <1>3, <2>1
  <2> HIDE DEF Rec
  <2> QED BY <1>1, <2>1, <2>2, <2>3, SameRecursion
<1> QED BY <1>2, <1>5, <1>7

(* A sum over what a function tells apart is the sum over its values.       *)
LEMMA SumOfImage ==
  ASSUME NEW D, IsFiniteSet(D), NEW f, DOMAIN f = D, IsInjective(f), NEW v, NEW w,
         \A k \in D : w[f[k]] \in Int /\ v[k] = w[f[k]]
  PROVE  SumOf(v, D) = SumOf(w, Range(f)) /\ SumOf(v, D) \in Int
<1> DEFINE Image(T) == {f[k] : k \in T}
           Good == {T \in SUBSET D : IsFiniteSet(Image(T)) /\ SumOf(v, T) \in Int /\ SumOf(v, T) = SumOf(w, Image(T))}
<1>0. ASSUME NEW I, IsFiniteSet(I), NEW y, y \notin I, \A z \in I \cup {y} : w[z] \in Int
      PROVE  SumOf(w, I \cup {y}) = SumOf(w, I) + w[y]
  BY <1>0, SumOneMore
<1>1. {} \in Good
  <2>1. Image({}) = {}
    OBVIOUS
  <2>2. SumOf(v, {}) = 0 /\ SumOf(w, {}) = 0 /\ IsFiniteSet({})
    BY FS_EmptySet, SumAtChosen
  <2> HIDE DEF Image
  <2> QED BY <2>1, <2>2
<1>2. ASSUME NEW T \in SUBSET D, NEW x \in D \ T, T \in Good PROVE T \cup {x} \in Good
  <2>1. Image(T \cup {x}) = Image(T) \cup {f[x]}
    OBVIOUS
  <2>2. f[x] \notin Image(T)
    BY DEF IsInjective
  <2>3. /\ \A y \in T \cup {x} : v[y] \in Int
        /\ \A y \in Image(T) \cup {f[x]} : w[y] \in Int
        /\ v[x] = w[f[x]]
    OBVIOUS
  <2>4. IsFiniteSet(T) /\ IsFiniteSet(Image(T)) /\ SumOf(v, T) = SumOf(w, Image(T)) /\ x \notin T
    BY <1>2, FS_Subset
  <2> HIDE DEF Image, Good
  <2>5. SumOf(v, T \cup {x}) = SumOf(v, T) + v[x] /\ SumOf(v, T) \in Int
    BY <2>3, <2>4, SumOneMore
  <2>6. SumOf(w, Image(T) \cup {f[x]}) = SumOf(w, Image(T)) + w[f[x]]
    <3>1. IsFiniteSet(Image(T)) /\ f[x] \notin Image(T)
      BY <2>2, <2>4
    <3> QED BY <1>0, <2>3, <3>1
  <2>7. IsFiniteSet(Image(T) \cup {f[x]})
    BY <2>4, FS_AddElement
  <2>8. v[x] \in Int /\ T \cup {x} \in SUBSET D
    BY <2>3
  <2>9. SumOf(v, T \cup {x}) = SumOf(w, Image(T \cup {x}))
    BY <2>1, <2>3, <2>4, <2>5, <2>6
  <2>10. SumOf(v, T \cup {x}) \in Int
    BY <2>5, <2>8
  <2>11. IsFiniteSet(Image(T \cup {x}))
    BY <2>1, <2>7
  <2> QED BY <2>8, <2>9, <2>10, <2>11 DEF Good
<1>3. D \in Good
  <2> HIDE DEF Good
  <2> QED BY <1>1, <1>2, ByElements
<1>4. Image(D) = Range(f)
  BY DEF Range
<1> QED BY <1>3, <1>4

(* How many places of a list hold members of a set, if none comes twice.    *)
LEMMA PlacesOf ==
  ASSUME NEW s \in Seq(Int), IsInjective(s), NEW B
  PROVE  Cardinality({k \in DOMAIN s : s[k] \in B}) = Cardinality(Range(s) \cap B)
<1> DEFINE P == {k \in DOMAIN s : s[k] \in B}
           T == Range(s) \cap B
           f == [k \in P |-> s[k]]
<1>1. IsFiniteSet(P)
  <2>1. Len(s) \in Nat /\ DOMAIN s = 1..Len(s)
    BY LenProperties
  <2>2. IsFiniteSet(DOMAIN s)
    BY <2>1, FS_Interval
  <2> QED BY <2>2, FS_Subset
<1>2. f \in [P -> T] /\ \A x \in T : \E k \in P : f[k] = x
  BY DEF Range
<1>3. \A k, l \in P : f[k] = f[l] => k = l
  BY DEF IsInjective
<1>4. f \in Surjection(P, T) /\ f \in Injection(P, T)
  <2> HIDE DEF P, T, f
  <2>1. DOMAIN f = P
    BY <1>2
  <2> QED BY <1>2, <1>3, <2>1 DEF Surjection, Injection, IsInjective
<1> HIDE DEF P, T, f
<1>5. Cardinality(T) = Cardinality(P)
  BY <1>1, <1>4, FS_Surjection
<1> QED BY <1>5 DEF P, T

LEMMA InjectiveIsCount ==
  ASSUME NEW s \in Seq(Int)
  PROVE  /\ IsFiniteSet(Range(s)) /\ Cardinality(Range(s)) \in Nat
         /\ Cardinality(Range(s)) = Len(s) <=> IsInjective(s)
<1>1. Len(s) \in Nat /\ DOMAIN s = 1..Len(s) /\ s \in [1..Len(s) -> Int]
  BY LenProperties
<1>2. s \in [1..Len(s) -> Range(s)] /\ \A x \in Range(s) : \E k \in 1..Len(s) : s[k] = x
  BY <1>1 DEF Range
<1>3. s \in Surjection(1..Len(s), Range(s))
  BY <1>2 DEF Surjection
<1>4. IsFiniteSet(1..Len(s)) /\ Cardinality(1..Len(s)) = Len(s)
  BY <1>1, FS_Interval
<1>5. /\ IsFiniteSet(Range(s))
      /\ Cardinality(Range(s)) = Len(s) <=> s \in Injection(1..Len(s), Range(s))
  BY <1>3, <1>4, FS_Surjection
<1>6. s \in Injection(1..Len(s), Range(s)) <=> IsInjective(s)
  BY <1>2 DEF Injection
<1> QED BY <1>5, <1>6, FS_CardinalityType

-----------------------------------------------------------------------------
(* What makes a build legal is said of its items as a set.                  *)
GoldIn(I) == SumOf([i \in I |-> GoldTotal(i)], I)
LegalItems(I, o) ==
  /\ Cardinality(I) = o.slotCount
  /\ I \subseteq EligibleItemIds(o) /\ o.required \subseteq I /\ I \cap o.excluded = {}
  /\ BootRule(o) = "required" => Cardinality(I \cap Boots) # 0
  /\ BootRule(o) = "forbidden" => ~(Cardinality(I \cap Boots) > 0)
  /\ ~(Cardinality(I \cap Boots) > MaxBoots(o))
  /\ ~AboveMaxGold(o, GoldIn(I)) /\ ~BelowMinGold(o, GoldIn(I))

LEMMA GoldIs == \A i \in Int : GoldTotal(i) \in Nat
BY CatalogAssumption DEF GoldTotal

LEMMA TotalGoldIs ==
  ASSUME NEW s \in Seq(Int), IsInjective(s)
  PROVE  TotalGold(s) = GoldIn(Range(s))
<1> DEFINE gold == [k \in DOMAIN s |-> GoldTotal(s[k])]
           w == [i \in Range(s) |-> GoldTotal(i)]
<1>1. TotalGold(s) = SumOf(gold, DOMAIN s)
  BY DEF TotalGold, SumOf
<1>2. Len(s) \in Nat /\ DOMAIN s = 1..Len(s) /\ \A k \in DOMAIN s : s[k] \in Int /\ s[k] \in Range(s)
  BY LenProperties, ElementOfSeq DEF Range
<1>3. IsFiniteSet(DOMAIN s)
  BY <1>2, FS_Interval
<1>4. \A k \in DOMAIN s : w[s[k]] \in Int /\ gold[k] = w[s[k]]
  BY <1>2, GoldIs
<1> HIDE DEF gold, w
<1>5. SumOf(gold, DOMAIN s) = SumOf(w, Range(s))
  BY <1>3, <1>4, SumOfImage
<1> QED BY <1>1, <1>5 DEF GoldIn, w

LEMMA UnionEmpty == \A S : UNION S = {} <=> \A x \in S : x = {}
OBVIOUS

LEMMA LegalIs ==
  ASSUME NEW o, NEW ids \in Seq(Int)
  PROVE  IsLegalBuild(ids, o) <=> Len(ids) = o.slotCount /\ IsInjective(ids) /\ LegalItems(Range(ids), o)
<1> DEFINE items == Range(ids)
           Reason(wrong, name) == IF wrong THEN {name} ELSE {}
           w1 == Len(ids) # o.slotCount
           w2 == \E i \in items : i \notin Catalog
           w3 == \E i \in items : i \in Catalog \ EligibleItemIds(o)
           w4 == Cardinality(items) # Len(ids)
           w5 == BootRule(o) = "required" /\ BootCount(ids) = 0
           w6 == BootRule(o) = "forbidden" /\ BootCount(ids) > 0
           w7 == BootCount(ids) > MaxBoots(o)
           w8 == ~ o.required \subseteq items
           w9 == items \cap o.excluded # {}
           w10 == AboveMaxGold(o, TotalGold(ids))
           w11 == BelowMinGold(o, TotalGold(ids))
           Reasons == {Reason(w1, "wrong-slot-count"), Reason(w2, "unsupported-item"),
                       Reason(w3, "ineligible-item"), Reason(w4, "duplicate-item"),
                       Reason(w5, "boots-required"), Reason(w6, "boots-forbidden"),
                       Reason(w7, "too-many-boots"), Reason(w8, "required-item-missing"),
                       Reason(w9, "excluded-item"), Reason(w10, "above-max-gold"),
                       Reason(w11, "below-min-gold")}
<1>1. IsLegalBuild(ids, o) <=> \A r \in Reasons : r = {}
  <2>1. ValidateBuild(ids, o) = UNION Reasons
    BY DEF ValidateBuild
  <2> HIDE DEF Reasons
  <2> QED BY <2>1, UnionEmpty DEF IsLegalBuild
<1>2. \A wrong \in BOOLEAN : \A name : Reason(wrong, name) = {} <=> ~wrong
  OBVIOUS
<1>3. (\A r \in Reasons : r = {}) <=>
        ~w1 /\ ~w2 /\ ~w3 /\ ~w4 /\ ~w5 /\ ~w6 /\ ~w7 /\ ~w8 /\ ~w9 /\ ~w10 /\ ~w11
  <2> HIDE DEF w1, w2, w3, w4, w5, w6, w7, w8, w9, w10, w11
  <2> QED OBVIOUS
<1> HIDE DEF Reasons, Reason
<1>4. EligibleItemIds(o) \subseteq Catalog
  BY DEF EligibleItemIds
<1>5. ~w2 /\ ~w3 <=> items \subseteq EligibleItemIds(o)
  BY <1>4
<1>6. ~w4 <=> IsInjective(ids)
  BY InjectiveIsCount
<1>7. IsInjective(ids) => /\ BootCount(ids) = Cardinality(items \cap Boots)
                          /\ TotalGold(ids) = GoldIn(items) /\ Cardinality(items) = Len(ids)
  BY PlacesOf, TotalGoldIs, InjectiveIsCount DEF BootCount
<1> HIDE DEF items
<1> QED BY <1>1, <1>3, <1>5, <1>6, <1>7 DEF LegalItems, items

(* An item before each of some lists. *)
LEMMA WithItem ==
  ASSUME NEW x \in Int, NEW deeper \in Seq(Seq(Int))
  PROVE  LET all == [m \in DOMAIN deeper |-> <<x>> \o deeper[m]]
         IN  /\ all \in Seq(Seq(Int))
             /\ Range(all) = {<<x>> \o q : q \in Range(deeper)}
             /\ IsInjective(deeper) => IsInjective(all)
<1> DEFINE all == [m \in DOMAIN deeper |-> <<x>> \o deeper[m]]
<1>1. /\ Len(deeper) \in Nat /\ DOMAIN deeper = 1..Len(deeper)
      /\ \A m \in 1..Len(deeper) : deeper[m] \in Seq(Int)
  BY LenProperties, ElementOfSeq
<1>2. \A q \in Seq(Int) : /\ <<x>> \o q \in Seq(Int) /\ Len(<<x>> \o q) = 1 + Len(q) /\ Len(q) \in Nat
                          /\ \A i \in 1 .. Len(q) : (<<x>> \o q)[i + 1] = q[i]
  <2> SUFFICES ASSUME NEW q \in Seq(Int)
      PROVE  /\ <<x>> \o q \in Seq(Int) /\ Len(<<x>> \o q) = 1 + Len(q) /\ Len(q) \in Nat
             /\ \A i \in 1 .. Len(q) : (<<x>> \o q)[i + 1] = q[i]
    OBVIOUS
  <2>1. <<x>> \in Seq(Int) /\ Len(<<x>>) = 1
    OBVIOUS
  <2>2. Len(q) \in Nat
    BY LenProperties
  <2>3. /\ <<x>> \o q \in Seq(Int) /\ Len(<<x>> \o q) = 1 + Len(q)
        /\ \A i \in 1 .. 1 + Len(q) : (<<x>> \o q)[i] = IF i <= 1 THEN <<x>>[i] ELSE q[i - 1]
    BY <2>1, ConcatProperties
  <2>4. \A i \in 1..Len(q) : i + 1 \in 1 .. 1 + Len(q) /\ ~(i + 1 <= 1) /\ (i + 1) - 1 = i
    BY <2>2
  <2> QED BY <2>2, <2>3, <2>4
<1>3. all \in Seq(Seq(Int))
  <2> DEFINE T == Seq(Int)
             n == Len(deeper)
  <2>1. all \in [1..n -> T]
    BY <1>1, <1>2
  <2>2. n \in Nat
    BY <1>1
  <2> HIDE DEF all, T, n
  <2>3. all \in Seq(T)
    BY <2>1, <2>2
  <2> QED BY <2>3 DEF T
<1>4. Range(all) = {<<x>> \o q : q \in Range(deeper)}
  BY DEF Range
<1>5. ASSUME IsInjective(deeper), NEW m \in DOMAIN deeper, NEW n \in DOMAIN deeper, all[m] = all[n]
      PROVE  m = n
  <2> DEFINE p == deeper[m]
             q == deeper[n]
  <2>1. p \in Seq(Int) /\ q \in Seq(Int) /\ <<x>> \o p = <<x>> \o q
    BY <1>1, <1>5
  <2> HIDE DEF p, q
  <2>2. Len(p) = Len(q) /\ Len(p) \in Nat /\ Len(q) \in Nat
    BY <1>2, <2>1
  <2>3. ASSUME NEW i \in 1..Len(p) PROVE p[i] = q[i]
    <3>1. (<<x>> \o p)[i + 1] = p[i]
      BY <1>2, <2>1
    <3>2. (<<x>> \o q)[i + 1] = q[i]
      BY <1>2, <2>1, <2>2
    <3> QED BY <2>1, <3>1, <3>2
  <2>4. p = q
    BY <2>1, <2>2, <2>3, SeqEqual
  <2> QED BY <1>5, <2>4 DEF IsInjective, p, q
<1>6. IsInjective(deeper) => IsInjective(all)
  <2>1. DOMAIN all = DOMAIN deeper
    OBVIOUS
  <2> HIDE DEF all
  <2> QED BY <1>5, <2>1 DEF IsInjective
<1> QED BY <1>3, <1>4, <1>6

LEMMA InOrderIsInjective ==
  ASSUME NEW q \in Seq(Int), InOrder(q, LessThan)
  PROVE  IsInjective(q)
<1>1. Len(q) \in Nat /\ DOMAIN q = 1..Len(q) /\ \A i \in 1..Len(q) : q[i] \in Int
  BY LenProperties, ElementOfSeq
<1>2. \A i, j \in 1..Len(q) : i < j => q[i] < q[j]
  BY <1>1, LessThanIsOrder DEF InOrder
<1> QED BY <1>1, <1>2 DEF IsInjective

-----------------------------------------------------------------------------
(* The choices of r of the optional items from an index on: as lists in     *)
(* ascending order.                                                         *)
Rest(opt, start) == {opt[j] : j \in (start + 1)..Len(opt)}
Picks(opt, start, r) ==
  {q \in Seq(Int) : Len(q) = r /\ InOrder(q, LessThan) /\ Range(q) \subseteq Rest(opt, start)}

LEMMA PicksOfNone == \A opt, start : Picks(opt, start, 0) = {<<>>}
<1> SUFFICES ASSUME NEW opt, NEW start PROVE Picks(opt, start, 0) = {<<>>}
  OBVIOUS
<1>1. <<>> \in Seq(Int) /\ Len(<<>>) = 0 /\ DOMAIN <<>> = {}
  BY EmptySeq
<1>2. InOrder(<<>>, LessThan) /\ Range(<<>>) = {}
  BY <1>1 DEF InOrder, Range
<1>3. \A q \in Seq(Int) : Len(q) = 0 => q = <<>>
  BY EmptySeq
<1> QED BY <1>1, <1>2, <1>3 DEF Picks

LEMMA PicksOfFew ==
  ASSUME NEW opt \in Seq(Int), NEW start \in 0..Len(opt), NEW r \in Nat, start > Len(opt) - r
  PROVE  Picks(opt, start, r) = {}
<1> SUFFICES ASSUME NEW q \in Picks(opt, start, r) PROVE FALSE
  OBVIOUS
<1>1. Len(opt) \in Nat
  BY LenProperties
<1>2. q \in Seq(Int) /\ Len(q) = r /\ InOrder(q, LessThan) /\ Range(q) \subseteq Rest(opt, start)
  BY DEF Picks
<1>3. DOMAIN q = 1..r /\ IsInjective(q)
  BY <1>2, LenProperties, InOrderIsInjective
<1> DEFINE D == (start + 1)..Len(opt)
           f == [k \in 1..r |-> CHOOSE j \in D : opt[j] = q[k]]
<1>4. \A k \in 1..r : f[k] \in D /\ opt[f[k]] = q[k]
  <2>1. \A k \in 1..r : \E j \in D : opt[j] = q[k]
    BY <1>2, <1>3 DEF Range, Rest
  <2> QED BY <2>1
<1>5. /\ IsFiniteSet(1..r) /\ Cardinality(1..r) = r
      /\ IsFiniteSet(D) /\ Cardinality(D) < r
  <2>1. IsFiniteSet(1..r) /\ Cardinality(1..r) = r
    BY FS_Interval
  <2>2. start \in Int /\ start + 1 \in Int
    BY <1>1
  <2> DEFINE a == start + 1
  <2>3. a \in Int /\ a = start + 1 /\ D = a..Len(opt) /\ Len(opt) \in Int
    BY <1>1, <2>2
  <2> HIDE DEF a, D
  <2>4. IsFiniteSet(D) /\ Cardinality(D) = IF a > Len(opt) THEN 0 ELSE Len(opt) - a + 1
    BY <2>3, FS_Interval
  <2>5. Cardinality(D) < r
    BY <1>1, <2>2, <2>3, <2>4
  <2> QED BY <2>1, <2>4, <2>5
<1>6. f \in [1..r -> D]
  BY <1>4
<1> HIDE DEF f, D
<1>7. \E i, j \in 1..r : i # j /\ f[i] = f[j]
  BY <1>5, <1>6, FS_PigeonHole
<1>8. PICK i, j \in 1..r : i # j /\ f[i] = f[j]
  BY <1>7
<1>9. q[i] = q[j]
  BY <1>4, <1>8
<1>10. \A k, m \in 1..r : q[k] = q[m] => k = m
  BY <1>3, Zenon DEF IsInjective
<1> QED BY <1>8, <1>9, <1>10

LEMMA WithFirst ==
  ASSUME NEW x \in Int, NEW q \in Seq(Int)
  PROVE  /\ <<x>> \o q \in Seq(Int) /\ Len(<<x>> \o q) = Len(q) + 1
         /\ Range(<<x>> \o q) = {x} \cup Range(q)
<1> DEFINE u == <<x>>
<1>1. u \in Seq(Int) /\ Len(u) = 1 /\ Range(u) = {x}
  BY DEF Range
<1>2. Len(q) \in Nat
  BY LenProperties
<1> HIDE DEF u
<1>3. u \o q \in Seq(Int) /\ Len(u \o q) = Len(u) + Len(q)
  BY <1>1, ConcatProperties
<1>4. Range(u \o q) = Range(u) \cup Range(q)
  <2>1. \A a, b \in Seq(Int) : Range(a \o b) = Range(a) \cup Range(b)
    BY ConcatIs
  <2> QED BY <1>1, <2>1, Zenon
<1>5. Len(u \o q) = Len(q) + 1
  BY <1>1, <1>2, <1>3
<1> QED BY <1>1, <1>3, <1>4, <1>5, Zenon DEF u

(* An item that is less than all of a list comes before them.               *)
LEMMA ItemBefore ==
  ASSUME NEW x \in Int, NEW q \in Seq(Int), \A y \in Range(q) : x < y, InOrder(q, LessThan)
  PROVE  LET p == <<x>> \o q
         IN  /\ p \in Seq(Int) /\ Len(p) = Len(q) + 1
             /\ Range(p) = {x} \cup Range(q) /\ InOrder(p, LessThan)
<1> DEFINE p == <<x>> \o q
<1>1. <<x>> \in Seq(Int) /\ Len(<<x>>) = 1 /\ Range(<<x>>) = {x} /\ <<x>>[1] = x
  BY DEF Range
<1>2. Len(q) \in Nat /\ DOMAIN q = 1..Len(q) /\ \A i \in 1..Len(q) : q[i] \in Int /\ q[i] \in Range(q)
  BY LenProperties, ElementOfSeq DEF Range
<1>3. p \in Seq(Int) /\ Len(p) = Len(q) + 1 /\ Range(p) = {x} \cup Range(q)
  BY WithFirst
<1>4. \A i \in 1 .. 1 + Len(q) : p[i] = IF i <= 1 THEN x ELSE q[i - 1]
  BY <1>1, <1>2, ConcatProperties
<1>5. DOMAIN p = 1 .. Len(q) + 1
  <2> HIDE DEF p
  <2> QED BY <1>3, LenProperties
<1> HIDE DEF p
<1>6. ASSUME NEW i \in DOMAIN p, NEW j \in DOMAIN p, i < j PROVE <<p[i], p[j]>> \in LessThan
  <2>1. j - 1 \in 1..Len(q) /\ j \in 1 .. 1 + Len(q) /\ ~(j <= 1) /\ i \in 1 .. 1 + Len(q)
    BY <1>2, <1>5, <1>6
  <2>2. p[j] = q[j - 1]
    BY <1>4, <2>1
  <2>3. CASE i = 1
    <3>1. p[i] = x
      BY <1>4, <2>1, <2>3
    <3>2. x < q[j - 1] /\ q[j - 1] \in Int
      BY <1>2, <2>1
    <3> QED BY <2>2, <3>1, <3>2, LessThanIsOrder
  <2>4. CASE i # 1
    <3>1. i - 1 \in 1..Len(q) /\ ~(i <= 1) /\ i - 1 < j - 1
      BY <1>2, <1>6, <2>1, <2>4
    <3>2. p[i] = q[i - 1]
      BY <1>4, <2>1, <3>1
    <3> QED BY <1>2, <2>1, <2>2, <3>1, <3>2 DEF InOrder
  <2> QED BY <2>3, <2>4
<1>7. InOrder(p, LessThan)
  BY <1>6 DEF InOrder
<1> QED BY <1>3, <1>7 DEF p

(* A list in order that begins with an item.                                *)
LEMMA AfterFirst ==
  ASSUME NEW q \in Seq(Int), Len(q) > 0, InOrder(q, LessThan)
  PROVE  /\ q = <<q[1]>> \o Tail(q) /\ q[1] \in Int /\ q[1] \in Range(q)
         /\ Tail(q) \in Seq(Int) /\ Len(Tail(q)) = Len(q) - 1
         /\ Range(Tail(q)) = Range(q) \ {q[1]} /\ InOrder(Tail(q), LessThan)
         /\ \A y \in Range(q) : q[1] <= y
<1> DEFINE t == Tail(q)
<1>1. Len(q) \in Nat /\ DOMAIN q = 1..Len(q) /\ \A i \in 1..Len(q) : q[i] \in Int
  BY LenProperties, ElementOfSeq
<1>2. /\ t \in Seq(Int) /\ Len(t) = Len(q) - 1
      /\ \A i \in 1..Len(t) : t[i] = q[i + 1]
  BY <1>1
<1>3. q = <<q[1]>> \o t
  BY <1>1
<1> HIDE DEF t
<1>4. DOMAIN t = 1..Len(t) /\ Len(t) \in Nat
  BY <1>2, LenProperties
<1>5. \A i, j \in 1..Len(q) : i < j => q[i] < q[j]
  BY <1>1, LessThanIsOrder DEF InOrder
<1>6. 1 \in 1..Len(q) /\ q[1] \in Int /\ q[1] \in Range(q)
  BY <1>1 DEF Range
<1>7. \A i \in 1..Len(t) : i + 1 \in 1..Len(q) /\ 1 < i + 1
  BY <1>1, <1>2
<1>8. InOrder(t, LessThan)
  <2> SUFFICES ASSUME NEW i \in 1..Len(t), NEW j \in 1..Len(t), i < j PROVE <<t[i], t[j]>> \in LessThan
    BY <1>4 DEF InOrder
  <2>1. i + 1 < j + 1
    OBVIOUS
  <2> QED BY <1>1, <1>2, <1>7, <2>1 DEF InOrder
<1>9. \A y \in Range(q) : q[1] <= y
  <2> SUFFICES ASSUME NEW i \in 1..Len(q) PROVE q[1] <= q[i]
    BY <1>1 DEF Range
  <2>1. i = 1 \/ 1 < i
    BY <1>1
  <2> QED BY <1>1, <1>5, <1>6, <2>1
<1>10. Range(t) = Range(q) \ {q[1]}
  <2>1. ASSUME NEW y \in Range(t) PROVE y \in Range(q) /\ y # q[1]
    <3>1. PICK i \in 1..Len(t) : y = t[i]
      BY <1>4 DEF Range
    <3>2. y = q[i + 1] /\ q[1] < q[i + 1] /\ i + 1 \in DOMAIN q /\ q[i + 1] \in Int
      BY <1>1, <1>2, <1>5, <1>6, <1>7, <3>1
    <3> QED BY <1>6, <3>2 DEF Range
  <2>2. ASSUME NEW y \in Range(q), y # q[1] PROVE y \in Range(t)
    <3>1. PICK i \in 1..Len(q) : y = q[i]
      BY <1>1 DEF Range
    <3>2. i # 1
      BY <2>2, <3>1
    <3>3. i - 1 \in 1..Len(t) /\ (i - 1) + 1 = i
      BY <1>1, <1>2, <3>2
    <3>4. t[i - 1] = y
      BY <1>2, <3>1, <3>3
    <3> QED BY <1>4, <3>3, <3>4 DEF Range
  <2> QED BY <2>1, <2>2
<1> QED BY <1>2, <1>3, <1>6, <1>8, <1>9, <1>10 DEF t

LEMMA PicksStep ==
  ASSUME NEW opt \in Seq(Int), InOrder(opt, LessThan), NEW start \in Nat, start < Len(opt),
         NEW r \in Nat, r > 0
  PROVE  /\ Picks(opt, start, r) =
              {<<opt[start + 1]>> \o q : q \in Picks(opt, start + 1, r - 1)} \cup Picks(opt, start + 1, r)
         /\ {<<opt[start + 1]>> \o q : q \in Picks(opt, start + 1, r - 1)} \cap Picks(opt, start + 1, r) = {}
<1> DEFINE x == opt[start + 1]
           R0 == Rest(opt, start)
           R1 == Rest(opt, start + 1)
<1>1. /\ Len(opt) \in Nat /\ DOMAIN opt = 1..Len(opt) /\ \A i \in 1..Len(opt) : opt[i] \in Int
      /\ start + 1 \in 1..Len(opt) /\ x \in Int
  BY LenProperties, ElementOfSeq
<1>2. \A i, j \in 1..Len(opt) : i < j => opt[i] < opt[j]
  BY <1>1, LessThanIsOrder DEF InOrder
<1>3. \A y \in R1 : x < y /\ y \in Int
  <2> SUFFICES ASSUME NEW j \in (start + 1 + 1)..Len(opt) PROVE x < opt[j] /\ opt[j] \in Int
    BY DEF Rest
  <2>1. j \in 1..Len(opt) /\ start + 1 < j
    BY <1>1
  <2> QED BY <1>1, <1>2, <2>1
<1>4. R0 = {x} \cup R1
  <2>1. (start + 1)..Len(opt) = {start + 1} \cup ((start + 1 + 1)..Len(opt))
    BY <1>1
  <2> QED BY <2>1 DEF Rest
<1>5. x \notin R1
  BY <1>1, <1>3
<1> HIDE DEF x, R0, R1
<1>6. ASSUME NEW q \in Picks(opt, start + 1, r - 1)
      PROVE  <<x>> \o q \in Picks(opt, start, r) /\ x \in Range(<<x>> \o q)
  <2>1. q \in Seq(Int) /\ Len(q) = r - 1 /\ InOrder(q, LessThan) /\ Range(q) \subseteq R1
    BY DEF Picks, R1
  <2>2. \A y \in Range(q) : x < y
    BY <1>3, <2>1
  <2>3. /\ <<x>> \o q \in Seq(Int) /\ Len(<<x>> \o q) = Len(q) + 1
        /\ Range(<<x>> \o q) = {x} \cup Range(q) /\ InOrder(<<x>> \o q, LessThan)
    BY <1>1, <2>1, <2>2, ItemBefore
  <2>4. (r - 1) + 1 = r
    OBVIOUS
  <2> QED BY <1>4, <2>1, <2>3, <2>4 DEF Picks, R0
<1>7. ASSUME NEW q \in Picks(opt, start + 1, r)
      PROVE  q \in Picks(opt, start, r) /\ x \notin Range(q)
  BY <1>4, <1>5 DEF Picks, R0, R1
<1>8. ASSUME NEW q \in Picks(opt, start, r)
      PROVE  \/ q \in Picks(opt, start + 1, r)
             \/ \E t \in Picks(opt, start + 1, r - 1) : q = <<x>> \o t
  <2>1. q \in Seq(Int) /\ Len(q) = r /\ InOrder(q, LessThan) /\ Range(q) \subseteq {x} \cup R1
    BY <1>4 DEF Picks, R0
  <2>2. CASE x \notin Range(q)
    BY <2>1, <2>2 DEF Picks, R1
  <2>3. CASE x \in Range(q)
    <3>1. /\ q = <<q[1]>> \o Tail(q) /\ q[1] \in Int /\ q[1] \in Range(q)
          /\ Tail(q) \in Seq(Int) /\ Len(Tail(q)) = r - 1
          /\ Range(Tail(q)) = Range(q) \ {q[1]} /\ InOrder(Tail(q), LessThan)
          /\ q[1] <= x
      BY <2>1, <2>3, AfterFirst
    <3>2. q[1] = x
      BY <1>1, <1>3, <2>1, <3>1
    <3>3. Tail(q) \in Picks(opt, start + 1, r - 1)
      BY <2>1, <3>1, <3>2 DEF Picks, R1
    <3> QED BY <3>1, <3>2, <3>3
  <2> QED BY <2>2, <2>3
<1> QED BY <1>6, <1>7, <1>8 DEF x

(* What visit finds from one index on, given what it finds from the next.   *)
Prefixed(item, deeper) == [m \in DOMAIN deeper |-> <<item>> \o deeper[m]]
Level(opt, start, below) ==
  [remaining \in 0..MaxSlots |->
     IF remaining = 0 THEN <<(<<>>)>>
     ELSE IF start > LastStart(Len(opt), remaining) THEN <<>>
     ELSE Prefixed(opt[start + 1], below[remaining - 1]) \o below[remaining]]
Visits(opt, g) == g = [start \in 0..Len(opt) |-> Level(opt, start, g[start + 1])]

Finds == [0..MaxSlots -> Seq(Seq(Int))]
Exact(opt, start, level) ==
  /\ level \in Finds
  /\ \A r \in 0..MaxSlots : IsInjective(level[r]) /\ Range(level[r]) = Picks(opt, start, r)

LEMMA VisitChosen == \A opt : Visit(opt) = CHOOSE g : Visits(opt, g)
BY DEF Visit, Visits, Level, Prefixed

LEMMA OneEmpty ==
  /\ <<(<<>>)>> \in Seq(Seq(Int)) /\ Range(<<(<<>>)>>) = {<<>>} /\ IsInjective(<<(<<>>)>>)
  /\ <<>> \in Seq(Seq(Int)) /\ Range(<<>>) = {} /\ IsInjective(<<>>)
<1>1. <<>> \in Seq(Int) /\ <<>> \in Seq(Seq(Int)) /\ DOMAIN <<>> = {}
  BY EmptySeq
<1>2. Range(<<>>) = {} /\ IsInjective(<<>>)
  BY <1>1 DEF Range, IsInjective
<1>3. \A T : \A e \in T : /\ <<e>> \in Seq(T) /\ DOMAIN <<e>> = {1} /\ <<e>>[1] = e
  OBVIOUS
<1>4. \A T : \A e \in T : /\ <<e>> \in Seq(T) /\ Range(<<e>>) = {e} /\ IsInjective(<<e>>)
  BY <1>3 DEF Range, IsInjective
<1> QED BY <1>1, <1>2, <1>4, Zenon

LEMMA LevelInFound ==
  ASSUME NEW opt \in Seq(Int), NEW start \in 0..Len(opt), NEW below,
         start < Len(opt) => below \in Finds
  PROVE  Level(opt, start, below) \in Finds
<1> DEFINE L == Level(opt, start, below)
<1>1. Len(opt) \in Nat /\ MaxSlots \in Nat /\ \A i \in 1..Len(opt) : opt[i] \in Int
  BY LenProperties, ElementOfSeq, CatalogAssumption
<1>2. ASSUME NEW r \in 0..MaxSlots PROVE L[r] \in Seq(Seq(Int))
  <2>1. CASE r = 0
    BY <2>1, OneEmpty DEF Level
  <2>2. CASE r # 0 /\ start > LastStart(Len(opt), r)
    BY <2>2, OneEmpty DEF Level
  <2>3. CASE r # 0 /\ ~(start > LastStart(Len(opt), r))
    <3>1. start < Len(opt) /\ start + 1 \in 1..Len(opt) /\ r - 1 \in 0..MaxSlots
      BY <1>1, <2>3 DEF LastStart
    <3>2. below[r - 1] \in Seq(Seq(Int)) /\ below[r] \in Seq(Seq(Int)) /\ opt[start + 1] \in Int
      BY <1>1, <3>1 DEF Finds
    <3>3. Prefixed(opt[start + 1], below[r - 1]) \in Seq(Seq(Int))
      BY <3>2, WithItem DEF Prefixed
    <3>4. L[r] = Prefixed(opt[start + 1], below[r - 1]) \o below[r]
      BY <2>3 DEF Level
    <3> QED BY <3>2, <3>3, <3>4, ConcatIs
  <2> QED BY <2>1, <2>2, <2>3
<1>3. L = [r \in 0..MaxSlots |-> L[r]]
  BY DEF Level
<1> HIDE DEF L
<1>4. L \in Finds
  BY <1>2, <1>3 DEF Finds
<1> QED BY <1>4 DEF L

LEMMA LevelIs ==
  ASSUME NEW opt \in Seq(Int), InOrder(opt, LessThan), NEW start \in 0..Len(opt), NEW below,
         start < Len(opt) => Exact(opt, start + 1, below)
  PROVE  Exact(opt, start, Level(opt, start, below))
<1> DEFINE L == Level(opt, start, below)
<1>1. Len(opt) \in Nat /\ MaxSlots \in Nat /\ \A i \in 1..Len(opt) : opt[i] \in Int
  BY LenProperties, ElementOfSeq, CatalogAssumption
<1>2. L \in Finds
  BY LevelInFound DEF Exact
<1>3. ASSUME NEW r \in 0..MaxSlots PROVE IsInjective(L[r]) /\ Range(L[r]) = Picks(opt, start, r)
  <2>1. CASE r = 0
    <3>1. L[r] = <<(<<>>)>>
      BY <2>1 DEF Level
    <3> QED BY <2>1, <3>1, OneEmpty, PicksOfNone
  <2>2. CASE r # 0 /\ start > LastStart(Len(opt), r)
    <3>1. L[r] = <<>>
      BY <2>2 DEF Level
    <3>2. Picks(opt, start, r) = {}
      BY <2>2, PicksOfFew DEF LastStart
    <3> QED BY <3>1, <3>2, OneEmpty
  <2>3. CASE r # 0 /\ ~(start > LastStart(Len(opt), r))
    <3>1. start < Len(opt) /\ start + 1 \in 1..Len(opt) /\ r - 1 \in 0..MaxSlots /\ r \in Nat /\ r > 0 /\ start \in Nat
      BY <1>1, <2>3 DEF LastStart
    <3> DEFINE x == opt[start + 1]
               d == below[r - 1]
               e == below[r]
               p == Prefixed(x, d)
    <3>2. /\ d \in Seq(Seq(Int)) /\ e \in Seq(Seq(Int)) /\ x \in Int
          /\ IsInjective(d) /\ Range(d) = Picks(opt, start + 1, r - 1)
          /\ IsInjective(e) /\ Range(e) = Picks(opt, start + 1, r)
      BY <1>1, <3>1 DEF Finds, Exact
    <3>3. L[r] = p \o e
      BY <2>3 DEF Level
    <3>4. /\ Picks(opt, start, r) =
              {<<x>> \o q : q \in Picks(opt, start + 1, r - 1)} \cup Picks(opt, start + 1, r)
          /\ {<<x>> \o q : q \in Picks(opt, start + 1, r - 1)} \cap Picks(opt, start + 1, r) = {}
      BY <3>1, PicksStep
    <3> HIDE DEF x, d, e, L
    <3>5. p \in Seq(Seq(Int)) /\ Range(p) = {<<x>> \o q : q \in Range(d)} /\ IsInjective(p)
      BY <3>2, WithItem DEF Prefixed
    <3> HIDE DEF p
    <3>6. Range(p \o e) = Range(p) \cup Range(e) /\ (Range(p) \cap Range(e) = {} => IsInjective(p \o e))
      <4> DEFINE T == Seq(Int)
      <4>1. p \in Seq(T) /\ e \in Seq(T)
        BY <3>2, <3>5
      <4> HIDE DEF T
      <4>2. \A a, b \in Seq(T) : Range(a \o b) = Range(a) \cup Range(b)
        BY ConcatIs
      <4>3. \A a, b \in Seq(T) : IsInjective(a) /\ IsInjective(b) /\ Range(a) \cap Range(b) = {} => IsInjective(a \o b)
        BY ConcatIs
      <4> QED BY <3>2, <3>5, <4>1, <4>2, <4>3, Zenon
    <3> QED BY <3>2, <3>3, <3>4, <3>5, <3>6
  <2> QED BY <2>1, <2>2, <2>3
<1> HIDE DEF L
<1>4. Exact(opt, start, L)
  BY <1>2, <1>3 DEF Exact
<1> QED BY <1>4 DEF L

(* There is such a function.                                                *)
LEMMA VisitExists ==
  ASSUME NEW opt \in Seq(Int)
  PROVE  Visits(opt, Visit(opt))
<1> DEFINE n == Len(opt)
           F == [k \in 1..n |-> [below \in Finds |-> Level(opt, n - k, below)]]
           a == Level(opt, n, <<>>)
<1>1. n \in Nat
  BY LenProperties
<1>2. a \in Finds
  BY <1>1, LevelInFound
<1>3. Steps(F, n, Finds)
  <2>1. ASSUME NEW k \in 1..n, NEW below \in Finds PROVE F[k][below] \in Finds
    <3>1. n - k \in 0..n
      BY <1>1
    <3>2. Level(opt, n - k, below) \in Finds
      BY <3>1, LevelInFound
    <3> HIDE DEF n
    <3> QED BY <3>2
  <2> HIDE DEF F, n
  <2> QED BY <2>1 DEF Steps
<1>4. PICK h \in [0..n -> Finds] : Follows(h, a, F, n)
  <2> HIDE DEF F, n, a
  <2> QED BY <1>1, <1>2, <1>3, Recursion
<1>5. h[0] = a /\ \A k \in 1..n : h[k] = Level(opt, n - k, h[k - 1])
  <2>1. ASSUME NEW k \in 1..n PROVE h[k] = Level(opt, n - k, h[k - 1])
    <3>1. k - 1 \in 0..n
      BY <1>1
    <3>2. h[k - 1] \in Finds
      BY <1>4, <3>1
    <3>3. h[k] = F[k][h[k - 1]]
      BY <1>4 DEF Follows
    <3> HIDE DEF n
    <3> QED BY <3>2, <3>3
  <2> HIDE DEF F, n, a
  <2> QED BY <1>4, <2>1 DEF Follows
<1>6. \A below : Level(opt, n, below) = a
  <2> SUFFICES ASSUME NEW below PROVE Level(opt, n, below) = a
    OBVIOUS
  <2>1. \A r \in 0..MaxSlots : r # 0 => n > LastStart(Len(opt), r)
    BY <1>1, CatalogAssumption DEF LastStart
  <2> HIDE DEF n
  <2> QED BY <2>1 DEF Level
<1> DEFINE g == [start \in 0..n |-> h[n - start]]
<1>7. Visits(opt, g)
  <2>1. ASSUME NEW start \in 0..n PROVE g[start] = Level(opt, start, g[start + 1])
    <3>1. CASE start = n
      <4>1. n - start = 0
        BY <1>1, <3>1
      <4> QED BY <1>5, <1>6, <3>1, <4>1
    <3>2. CASE start # n
      <4>1. n - start \in 1..n /\ n - (n - start) = start /\ start + 1 \in 0..n /\ (n - start) - 1 = n - (start + 1)
        BY <1>1, <3>2
      <4>2. h[n - start] = Level(opt, n - (n - start), h[(n - start) - 1])
        BY <1>5, <4>1
      <4>3. g[start] = h[n - start] /\ g[start + 1] = h[n - (start + 1)]
        BY <4>1
      <4> QED BY <4>1, <4>2, <4>3
    <3> QED BY <3>1, <3>2
  <2>2. g = [start \in 0..n |-> g[start]]
    OBVIOUS
  <2> HIDE DEF g
  <2> QED BY <2>1, <2>2 DEF Visits
<1> HIDE DEF g
<1> QED BY <1>7, VisitChosen

LEMMA VisitIs ==
  ASSUME NEW opt \in Seq(Int), InOrder(opt, LessThan)
  PROVE  Exact(opt, 0, Visit(opt)[0])
<1> DEFINE n == Len(opt)
           g == Visit(opt)
           Good == {k \in 0..n : Exact(opt, n - k, g[n - k])}
<1>1. n \in Nat
  BY LenProperties
<1>2. \A start \in 0..n : g[start] = Level(opt, start, g[start + 1])
  <2>1. g = [start \in 0..n |-> Level(opt, start, g[start + 1])]
    BY VisitExists DEF Visits
  <2> HIDE DEF g
  <2> QED BY <2>1
<1> HIDE DEF g
<1>3. 0 \in Good
  <2>1. Exact(opt, n, Level(opt, n, g[n + 1]))
    BY <1>1, LevelIs
  <2>2. g[n] = Level(opt, n, g[n + 1]) /\ n - 0 = n
    BY <1>1, <1>2
  <2> HIDE DEF n
  <2> QED BY <1>1, <2>1, <2>2
<1>4. ASSUME NEW k \in 1..n, k - 1 \in Good PROVE k \in Good
  <2>1. n - k \in 0..n /\ (n - k) + 1 = n - (k - 1) /\ k \in 0..n
    BY <1>1
  <2>2. Exact(opt, (n - k) + 1, g[(n - k) + 1])
    BY <1>4, <2>1
  <2>3. Exact(opt, n - k, Level(opt, n - k, g[(n - k) + 1]))
    BY <2>1, <2>2, LevelIs
  <2>4. g[n - k] = Level(opt, n - k, g[(n - k) + 1])
    BY <1>2, <2>1
  <2> HIDE DEF n
  <2> QED BY <2>1, <2>3, <2>4
<1>5. n \in Good
  <2> HIDE DEF Good, n
  <2>1. \A k \in 0..n : k \in Good
    BY <1>1, <1>3, <1>4, BySteps
  <2>2. n \in 0..n
    BY <1>1
  <2> QED BY <2>1, <2>2
<1>6. n - n = 0
  BY <1>1
<1> HIDE DEF n
<1> QED BY <1>5, <1>6 DEF g

LEMMA GoldInIs ==
  ASSUME NEW I, I \subseteq Int, IsFiniteSet(I)
  PROVE  GoldIn(I) \in Nat
<1> DEFINE w == [i \in I |-> GoldTotal(i)]
           Good == {T \in SUBSET I : SumOf(w, T) \in Nat}
<1>1. {} \in Good
  BY FS_EmptySet, SumAtChosen
<1>2. ASSUME NEW T \in SUBSET I, NEW x \in I \ T, T \in Good PROVE T \cup {x} \in Good
  <2>1. \A y \in T \cup {x} : w[y] \in Nat
    BY GoldIs
  <2>2. IsFiniteSet(T) /\ x \notin T /\ SumOf(w, T) \in Nat
    BY <1>2, FS_Subset
  <2> HIDE DEF w
  <2>3. SumOf(w, T \cup {x}) = SumOf(w, T) + w[x]
    <3>1. \A y \in T \cup {x} : w[y] \in Int
      BY <2>1
    <3> QED BY <2>2, <3>1, SumOneMore
  <2> QED BY <2>1, <2>2, <2>3
<1>3. I \in Good
  <2> HIDE DEF Good
  <2> QED BY <1>1, <1>2, ByElements
<1> QED BY <1>3 DEF GoldIn

LEMMA MaxBootsIs ==
  ASSUME NEW o \in SearchOptions
  PROVE  MaxBoots(o) \in Int
<1>1. o.maxBoots \in Int
  BY OptionsAssumption
<1>2. Max({0, o.maxBoots}) \in Int
  BY <1>1, MaxMinOfTwo
<1>3. Min({1, Max({0, o.maxBoots})}) \in Int
  <2> DEFINE a == Max({0, o.maxBoots})
  <2>a. a \in Int
    BY <1>2
  <2> HIDE DEF a
  <2>1. Min({1, a}) = IF 1 <= a THEN 1 ELSE a
    BY <2>a, MaxMinOfTwo
  <2>2. Min({1, a}) \in Int
    BY <2>a, <2>1
  <2> QED BY <2>2 DEF a
<1> QED BY <1>3 DEF MaxBoots

(* No search that has a legal build is given up before it begins.           *)
LEMMA LegalGenerates ==
  ASSUME NEW o \in SearchOptions, o.minGold = Unset \/ o.minGold >= 0,
         NEW I, LegalItems(I, o)
  PROVE  CanGenerate(o)
<1> DEFINE E == EligibleItemIds(o)
           R == o.required
           B == Boots
<1>1. /\ IsFiniteSet(E) /\ E \subseteq Int
      /\ IsFiniteSet(I) /\ I \subseteq E /\ R \subseteq I /\ I \cap o.excluded = {} /\ Cardinality(I) = o.slotCount
  <2>1. E \subseteq Catalog
    BY DEF EligibleItemIds
  <2>2. IsFiniteSet(E) /\ E \subseteq Int
    <3>1. Catalog \subseteq Nat /\ IsFiniteSet(Catalog)
      BY CatalogAssumption
    <3> HIDE DEF E
    <3>2. E \subseteq Int
      BY <2>1, <3>1
    <3> QED BY <2>1, <3>1, <3>2, FS_Subset
  <2>3. I \subseteq E /\ R \subseteq I /\ I \cap o.excluded = {} /\ Cardinality(I) = o.slotCount
    BY DEF LegalItems
  <2> QED BY <2>2, <2>3, FS_Subset
<1>2. /\ Cardinality(I) \in Nat /\ Cardinality(R) \in Nat /\ Cardinality(R) <= Cardinality(I)
      /\ IsFiniteSet(I \cap B) /\ Cardinality(I \cap B) \in Nat
      /\ Cardinality(R \cap B) \in Nat /\ Cardinality(R \cap B) <= Cardinality(I \cap B)
  <2>1. /\ IsFiniteSet(I) /\ IsFiniteSet(R) /\ IsFiniteSet(I \cap B) /\ IsFiniteSet(R \cap B)
        /\ R \subseteq I /\ R \cap B \subseteq I \cap B
    BY <1>1, FS_Subset
  <2> QED BY <2>1, FS_Subset, FS_CardinalityType
<1>3. R \subseteq E \ o.excluded
  BY <1>1
<1>4. GoldIn(I) \in Nat
  <2>1. I \subseteq Int
    BY <1>1
  <2> QED BY <1>1, <2>1, GoldInIs
<1>5. o.maxGold \in Int \cup {Unset} /\ o.minGold \in Int \cup {Unset}
  BY OptionsAssumption
<1>6. ~AboveMaxGold(o, GoldIn(I)) /\ ~BelowMinGold(o, GoldIn(I)) /\ ~(Cardinality(I \cap B) > MaxBoots(o))
      /\ (BootRule(o) = "required" => Cardinality(I \cap B) # 0)
  BY DEF LegalItems
<1>7. /\ o.maxGold # Unset => o.maxGold >= 0
      /\ o.minGold # Unset => o.minGold >= 0
      /\ o.maxGold # Unset /\ o.minGold # Unset => o.minGold <= o.maxGold
  <2> DEFINE gold == GoldIn(I)
  <2> HIDE DEF gold
  <2> QED BY <1>4, <1>5, <1>6 DEF AboveMaxGold, BelowMinGold, gold
<1>8. Cardinality(R \cap B) <= MaxBoots(o)
  <2>1. MaxBoots(o) \in Int
    BY MaxBootsIs
  <2> QED BY <1>2, <1>6, <2>1
<1>9. ASSUME BootRule(o) = "required", Cardinality(R \cap B) = 0
      PROVE  (E \cap B) \ (R \cup o.excluded) # {}
  <2>1. IsFiniteSet(R \cap B)
    BY <1>1, FS_Subset
  <2>2. R \cap B = {}
    BY <1>9, <2>1, FS_EmptySet
  <2>3. I \cap B # {}
    BY <1>6, <1>9, FS_EmptySet
  <2> QED BY <1>1, <2>2, <2>3
<1> HIDE DEF E, R, B
<1> QED BY <1>1, <1>2, <1>3, <1>7, <1>8, <1>9 DEF CanGenerate, E, R, B

(* What the generator makes of a choice of the optional items.              *)
BuildOf(o, q) == CanonicalizeItemIds(Ascending(o.required) \o q)
Optional(o) == Ascending(EligibleItemIds(o) \ o.required)
Free(o) == o.slotCount - Cardinality(o.required)
ItemChoices(o) == Picks(Optional(o), 0, Free(o))

LEMMA EligibleAre ==
  ASSUME NEW o \in SearchOptions, CanGenerate(o)
  PROVE  /\ EligibleItemIds(o) \subseteq Catalog /\ EligibleItemIds(o) \subseteq Int
         /\ IsFiniteSet(EligibleItemIds(o))
         /\ o.required \subseteq EligibleItemIds(o) /\ IsFiniteSet(o.required)
         /\ Cardinality(o.required) \in Nat /\ o.slotCount \in Nat /\ o.slotCount <= MaxSlots
         /\ Free(o) \in 0..MaxSlots
<1>1. EligibleItemIds(o) \subseteq Catalog
  BY DEF EligibleItemIds
<1>2. Catalog \subseteq Int /\ IsFiniteSet(Catalog) /\ MaxSlots \in Nat
  BY CatalogAssumption
<1>3. o.slotCount \in Int /\ o.slotCount <= MaxSlots
  BY OptionsAssumption
<1>4. /\ o.slotCount >= 0 /\ Cardinality(o.required) <= o.slotCount
      /\ o.required \subseteq EligibleItemIds(o)
  BY DEF CanGenerate
<1>5. IsFiniteSet(EligibleItemIds(o)) /\ IsFiniteSet(o.required)
  BY <1>1, <1>2, <1>4, FS_Subset
<1>6. Cardinality(o.required) \in Nat
  BY <1>5, FS_CardinalityType
<1>7. Free(o) \in 0..MaxSlots /\ o.slotCount \in Nat
  BY <1>2, <1>3, <1>4, <1>6 DEF Free
<1>8. EligibleItemIds(o) \subseteq Int
  BY <1>1, <1>2
<1> QED BY <1>1, <1>3, <1>4, <1>5, <1>6, <1>7, <1>8

LEMMA ChoicesAre ==
  ASSUME NEW o \in SearchOptions, CanGenerate(o)
  PROVE  /\ Optional(o) \in Seq(Int) /\ InOrder(Optional(o), LessThan)
         /\ \A q : q \in ItemChoices(o) <=>
              /\ q \in Seq(Int) /\ Len(q) = Free(o) /\ InOrder(q, LessThan)
              /\ Range(q) \subseteq EligibleItemIds(o) \ o.required
<1> DEFINE K == EligibleItemIds(o) \ o.required
<1>1. K \subseteq Int /\ IsFiniteSet(K)
  BY EligibleAre, FS_Subset
<1> HIDE DEF K
<1>2. Ascending(K) \in Seq(Int) /\ InOrder(Ascending(K), LessThan) /\ Range(Ascending(K)) = K
  BY <1>1, AscendingIs
<1>3. Optional(o) = Ascending(K)
  BY DEF Optional, K
<1>4. Rest(Optional(o), 0) = Range(Optional(o))
  <2>1. DOMAIN Optional(o) = 1..Len(Optional(o))
    BY <1>2, <1>3, LenProperties
  <2> QED BY <2>1 DEF Rest, Range
<1> QED BY <1>2, <1>3, <1>4 DEF ItemChoices, Picks, K

LEMMA BuildOfIs ==
  ASSUME NEW o \in SearchOptions, CanGenerate(o), NEW q \in ItemChoices(o)
  PROVE  /\ BuildOf(o, q) \in Seq(Int) /\ Len(BuildOf(o, q)) = o.slotCount
         /\ IsInjective(BuildOf(o, q)) /\ InOrder(BuildOf(o, q), LessThan)
         /\ Range(BuildOf(o, q)) = o.required \cup Range(q) /\ Range(q) \cap o.required = {}
<1> DEFINE a == Ascending(o.required)
           s == a \o q
<1>1. /\ o.required \subseteq Int /\ IsFiniteSet(o.required)
      /\ Cardinality(o.required) \in Nat /\ o.slotCount \in Nat
  BY EligibleAre
<1>2. a \in Seq(Int) /\ Len(a) = Cardinality(o.required) /\ Range(a) = o.required /\ IsInjective(a)
  BY <1>1, AscendingIs
<1>3. /\ q \in Seq(Int) /\ Len(q) = Free(o) /\ IsInjective(q)
      /\ Range(q) \cap o.required = {}
  <2>1. q \in Seq(Int) /\ Len(q) = Free(o) /\ InOrder(q, LessThan) /\ Range(q) \cap o.required = {}
    BY ChoicesAre
  <2> QED BY <2>1, InOrderIsInjective
<1> HIDE DEF a
<1>4. /\ s \in Seq(Int) /\ Len(s) = Len(a) + Len(q)
      /\ Range(s) = Range(a) \cup Range(q) /\ IsInjective(s)
  <2>1. s \in Seq(Int) /\ Len(s) = Len(a) + Len(q)
    BY <1>2, <1>3, ConcatProperties, Zenon
  <2>2. \A x, y \in Seq(Int) : Range(x \o y) = Range(x) \cup Range(y)
    BY ConcatIs
  <2>3. \A x, y \in Seq(Int) : IsInjective(x) /\ IsInjective(y) /\ Range(x) \cap Range(y) = {} => IsInjective(x \o y)
    BY ConcatIs
  <2>4. Range(a) \cap Range(q) = {}
    BY <1>2, <1>3
  <2> QED BY <1>2, <1>3, <2>1, <2>2, <2>3, <2>4, Zenon
<1>5. Len(s) = o.slotCount
  BY <1>1, <1>2, <1>3, <1>4 DEF Free
<1>6. BuildOf(o, q) = CanonicalizeItemIds(s)
  BY DEF BuildOf, a
<1> HIDE DEF s
<1>7. /\ CanonicalizeItemIds(s) \in Seq(Int) /\ Len(CanonicalizeItemIds(s)) = Len(s)
      /\ Range(CanonicalizeItemIds(s)) = Range(s)
      /\ IsInjective(CanonicalizeItemIds(s)) /\ InOrder(CanonicalizeItemIds(s), LessThan)
  BY <1>4, CanonicalIs
<1> QED BY <1>2, <1>3, <1>4, <1>5, <1>6, <1>7

(* No two choices make the same build.                                      *)
LEMMA BuildOfOnce ==
  ASSUME NEW o \in SearchOptions, CanGenerate(o), NEW p \in ItemChoices(o), NEW q \in ItemChoices(o),
         BuildOf(o, p) = BuildOf(o, q)
  PROVE  p = q
<1>1. Range(p) = Range(BuildOf(o, p)) \ o.required /\ Range(q) = Range(BuildOf(o, q)) \ o.required
  BY BuildOfIs
<1>2. Range(p) = Range(q)
  BY <1>1
<1>3. p \in Seq(Int) /\ q \in Seq(Int) /\ InOrder(p, LessThan) /\ InOrder(q, LessThan)
  BY ChoicesAre
<1> QED BY <1>2, <1>3, AscendingOnce

(* Each legal list of items is, in canonical form, the build of a choice.   *)
LEMMA ChoiceOfLegal ==
  ASSUME NEW o \in SearchOptions, CanGenerate(o), NEW ids \in Seq(Int), IsLegalBuild(ids, o)
  PROVE  \E q \in ItemChoices(o) : BuildOf(o, q) = CanonicalizeItemIds(ids)
<1> DEFINE I == Range(ids)
           K == I \ o.required
           q == Ascending(K)
<1>1. Len(ids) = o.slotCount /\ IsInjective(ids) /\ LegalItems(I, o)
  BY LegalIs
<1>2. I \subseteq EligibleItemIds(o) /\ o.required \subseteq I /\ Cardinality(I) = o.slotCount
  BY <1>1 DEF LegalItems
<1>3. EligibleItemIds(o) \subseteq Int /\ IsFiniteSet(EligibleItemIds(o)) /\ IsFiniteSet(o.required)
  BY EligibleAre
<1> HIDE DEF I
<1>4. K \subseteq Int /\ IsFiniteSet(K) /\ Cardinality(K) = Free(o)
  <2>1. IsFiniteSet(I)
    BY <1>2, <1>3, FS_Subset
  <2>2. I \cap o.required = o.required
    BY <1>2
  <2>3. IsFiniteSet(K) /\ Cardinality(K) = Cardinality(I) - Cardinality(I \cap o.required)
    BY <2>1, <1>3, FS_Difference
  <2> QED BY <1>2, <1>3, <2>2, <2>3 DEF Free
<1> HIDE DEF K
<1>5. q \in Seq(Int) /\ Len(q) = Free(o) /\ Range(q) = K /\ InOrder(q, LessThan)
  BY <1>4, AscendingIs
<1> HIDE DEF q
<1>6. q \in ItemChoices(o)
  <2>1. K \subseteq EligibleItemIds(o) \ o.required
    BY <1>2 DEF K
  <2> QED BY <1>5, <2>1, ChoicesAre
<1>7. /\ BuildOf(o, q) \in Seq(Int) /\ InOrder(BuildOf(o, q), LessThan)
      /\ Range(BuildOf(o, q)) = o.required \cup K
  BY <1>5, <1>6, BuildOfIs
<1>8. o.required \cup K = I
  BY <1>2 DEF K
<1>9. /\ CanonicalizeItemIds(ids) \in Seq(Int) /\ InOrder(CanonicalizeItemIds(ids), LessThan)
      /\ Range(CanonicalizeItemIds(ids)) = I
  BY <1>1, CanonicalIs DEF I
<1>10. BuildOf(o, q) = CanonicalizeItemIds(ids)
  BY <1>7, <1>8, <1>9, AscendingOnce
<1> QED BY <1>6, <1>10

LegalLists(o) == {ids \in SeqOf(Catalog \cup o.eligible, MaxSlots) : IsLegalBuild(ids, o)}

LEMMA LegalListsAre ==
  ASSUME NEW o \in SearchOptions
  PROVE  \A ids : ids \in LegalLists(o) <=> ids \in Seq(Int) /\ IsLegalBuild(ids, o)
<1> DEFINE P == Catalog \cup o.eligible
<1>1. P \subseteq Int /\ o.slotCount \in Int /\ o.slotCount <= MaxSlots /\ MaxSlots \in Nat
  <2>1. Catalog \subseteq Int /\ MaxSlots \in Nat
    BY CatalogAssumption
  <2>2. o.eligible \subseteq Int /\ o.slotCount \in Int /\ o.slotCount <= MaxSlots
    BY OptionsAssumption
  <2> QED BY <2>1, <2>2
<1>2. ASSUME NEW ids \in SeqOf(P, MaxSlots) PROVE ids \in Seq(Int)
  <2>1. PICK m \in 0..MaxSlots : ids \in [1..m -> P]
    BY DEF SeqOf
  <2>2. m \in Nat /\ ids \in [1..m -> Int]
    BY <1>1, <2>1
  <2> QED BY <2>2
<1>3. ASSUME NEW ids \in Seq(Int), IsLegalBuild(ids, o) PROVE ids \in SeqOf(P, MaxSlots)
  <2>1. Len(ids) = o.slotCount /\ LegalItems(Range(ids), o)
    BY <1>3, LegalIs
  <2>2. Range(ids) \subseteq P
    BY <2>1 DEF LegalItems, EligibleItemIds
  <2>3. Len(ids) \in 0..MaxSlots /\ ids \in [1..Len(ids) -> Int] /\ DOMAIN ids = 1..Len(ids)
    BY <1>1, <2>1, LenProperties
  <2>4. ids \in [1..Len(ids) -> P]
    BY <2>2, <2>3 DEF Range
  <2> QED BY <2>3, <2>4 DEF SeqOf
<1> HIDE DEF P
<1> QED BY <1>2, <1>3 DEF LegalLists, P

LEMMA CanonicalLegal ==
  ASSUME NEW o, NEW s \in Seq(Int), NEW t \in Seq(Int), IsInjective(s), IsInjective(t),
         Range(s) = Range(t), Len(s) = Len(t)
  PROVE  IsLegalBuild(s, o) <=> IsLegalBuild(t, o)
BY LegalIs

(* The candidates of a search, which are sorted last of all.                *)
Builds(o) ==
  LET chosen == Visit(Optional(o))[0][Free(o)]
  IN  [m \in DOMAIN chosen |-> BuildOf(o, chosen[m])]
LegalOf(o) == {m \in DOMAIN Builds(o) : IsLegalBuild(Builds(o)[m], o)}

LEMMA BuildsAre ==
  ASSUME NEW o \in SearchOptions, CanGenerate(o)
  PROVE  /\ Builds(o) \in Seq(Seq(Int)) /\ IsInjective(Builds(o))
         /\ Range(Builds(o)) = {BuildOf(o, q) : q \in ItemChoices(o)}
<1> DEFINE chosen == Visit(Optional(o))[0][Free(o)]
           T == Seq(Int)
           b == Builds(o)
<1>1. chosen \in Seq(T) /\ IsInjective(chosen) /\ Range(chosen) = ItemChoices(o)
  <2>1. Optional(o) \in Seq(Int) /\ InOrder(Optional(o), LessThan)
    BY ChoicesAre
  <2>2. Free(o) \in 0..MaxSlots
    BY EligibleAre
  <2>3. Exact(Optional(o), 0, Visit(Optional(o))[0])
    BY <2>1, VisitIs
  <2> QED BY <2>2, <2>3 DEF Exact, Finds, ItemChoices
<1>2. b = [m \in DOMAIN chosen |-> BuildOf(o, chosen[m])]
  BY DEF Builds
<1> HIDE DEF chosen, b
<1>3. \A m \in DOMAIN chosen : chosen[m] \in ItemChoices(o)
  BY <1>1 DEF Range
<1>4. \A q \in ItemChoices(o) : BuildOf(o, q) \in T
  BY BuildOfIs
<1> HIDE DEF T
<1>5. b \in Seq(T)
  <2> DEFINE n == Len(chosen)
  <2>1. n \in Nat /\ DOMAIN chosen = 1..n
    BY <1>1, LenProperties
  <2> HIDE DEF n
  <2>2. b \in [1..n -> T]
    BY <1>2, <1>3, <1>4, <2>1
  <2> QED BY <2>1, <2>2
<1>6. IsInjective(b)
  <2> SUFFICES ASSUME NEW m \in DOMAIN chosen, NEW n \in DOMAIN chosen,
                      BuildOf(o, chosen[m]) = BuildOf(o, chosen[n])
      PROVE  m = n
    BY <1>2 DEF IsInjective
  <2>1. chosen[m] = chosen[n]
    BY <1>3, BuildOfOnce
  <2> QED BY <1>1, <2>1 DEF IsInjective
<1>7. Range(b) = {BuildOf(o, q) : q \in ItemChoices(o)}
  <2>1. Range(b) = {BuildOf(o, chosen[m]) : m \in DOMAIN chosen}
    BY <1>2 DEF Range
  <2>2. ItemChoices(o) = {chosen[m] : m \in DOMAIN chosen}
    BY <1>1 DEF Range
  <2> QED BY <2>1, <2>2
<1> QED BY <1>5, <1>6, <1>7 DEF b, T

LEMMA GeneratedIs ==
  ASSUME NEW o \in SearchOptions, CanGenerate(o)
  PROVE  /\ IsInjective(GenerateLegalBuilds(o))
         /\ Range(GenerateLegalBuilds(o)) = {x \in Range(Builds(o)) : IsLegalBuild(x, o)}
<1> DEFINE b == Builds(o)
           K == LegalOf(o)
           s == At(b, K)
           T == Seq(Int)
<1>1. GenerateLegalBuilds(o) = ListedBuilds(s)
  BY DEF GenerateLegalBuilds, ListedBuilds, Builds, LegalOf, BuildOf, Optional, Free
<1>2. b \in Seq(T) /\ IsInjective(b)
  BY BuildsAre
<1> HIDE DEF b, T
<1>3. K = {m \in DOMAIN b : IsLegalBuild(b[m], o)}
  BY DEF LegalOf, b
<1>4. K \subseteq DOMAIN b /\ IsFiniteSet(K) /\ K \subseteq Int
  <2>1. Len(b) \in Nat /\ DOMAIN b = 1..Len(b)
    BY <1>2, LenProperties
  <2>2. IsFiniteSet(1..Len(b))
    BY <2>1, FS_Interval
  <2> QED BY <1>3, <2>1, <2>2, FS_Subset
<1> HIDE DEF K
<1>5. \A i \in K : b[i] \in T
  BY <1>2, <1>4, LenProperties, ElementOfSeq
<1>6. \A i, j \in K : b[i] = b[j] => i = j
  BY <1>2, <1>4 DEF IsInjective
<1>7. /\ Cardinality(K) \in Nat /\ DOMAIN s = 1..Cardinality(K)
      /\ s \in Seq(T)
      /\ \A n \in 1..Cardinality(K) : Nth(K, n) \in K /\ s[n] = b[Nth(K, n)]
      /\ \A i \in K : Place(K, i) \in 1..Cardinality(K) /\ s[Place(K, i)] = b[i]
      /\ \A m, n \in 1..Cardinality(K) : s[m] = s[n] => m = n
  <2>1. /\ Cardinality(K) \in Nat /\ DOMAIN s = 1..Cardinality(K)
        /\ \A n \in 1..Cardinality(K) : Nth(K, n) \in K /\ s[n] = b[Nth(K, n)]
        /\ \A i \in K : Place(K, i) \in 1..Cardinality(K) /\ s[Place(K, i)] = b[i]
    <3>1. Cardinality(K) \in Nat /\ DOMAIN s = 1..Cardinality(K)
      BY <1>4, AtPlaces, Zenon
    <3>2. \A n \in 1..Cardinality(K) : Nth(K, n) \in K /\ s[n] = b[Nth(K, n)]
      BY <1>4, AtPlaces, Zenon
    <3>3. \A i \in K : Place(K, i) \in 1..Cardinality(K) /\ s[Place(K, i)] = b[i]
      BY <1>4, AtPlaces
    <3> QED BY <3>1, <3>2, <3>3, Zenon
  <2>2. s \in Seq(T)
    BY <1>4, <1>5, AtPlaces, Zenon
  <2>3. \A m, n \in 1..Cardinality(K) : s[m] = s[n] => m = n
    BY <1>4, <1>6, AtPlaces, Zenon
  <2> QED BY <2>1, <2>2, <2>3, Zenon
<1> HIDE DEF s
<1>8. IsInjective(s)
  BY <1>7 DEF IsInjective
<1>9. Range(s) = {b[i] : i \in K}
  <2>1. \A x \in Range(s) : \E i \in K : x = b[i]
    BY <1>7 DEF Range
  <2>2. \A i \in K : b[i] \in Range(s)
    BY <1>7 DEF Range
  <2> QED BY <2>1, <2>2
<1>10. Range(s) = {x \in Range(b) : IsLegalBuild(x, o)}
  BY <1>3, <1>9 DEF Range
<1>11. Range(ListedBuilds(s)) = Range(s) /\ IsInjective(ListedBuilds(s))
  BY <1>7, <1>8, ListedIs DEF T
<1> QED BY <1>1, <1>10, <1>11 DEF b

LEMMA OneSearchExact ==
  ASSUME NEW o \in SearchOptions, o.minGold = Unset \/ o.minGold >= 0
  PROVE  /\ IsInjective(GenerateLegalBuilds(o))
         /\ Range(GenerateLegalBuilds(o)) = {CanonicalizeItemIds(ids) : ids \in LegalLists(o)}
<1>1. CASE ~CanGenerate(o)
  <2>1. GenerateLegalBuilds(o) = <<>>
    BY <1>1 DEF GenerateLegalBuilds
  <2>2. LegalLists(o) = {}
    <3> SUFFICES ASSUME NEW ids \in LegalLists(o) PROVE FALSE
      OBVIOUS
    <3>1. ids \in Seq(Int) /\ IsLegalBuild(ids, o)
      BY LegalListsAre
    <3>2. LegalItems(Range(ids), o)
      BY <3>1, LegalIs
    <3> QED BY <1>1, <3>2, LegalGenerates
  <2>3. IsInjective(<<>>) /\ Range(<<>>) = {}
    BY OneEmpty
  <2> QED BY <2>1, <2>2, <2>3
<1>2. CASE CanGenerate(o)
  <2> DEFINE g == GenerateLegalBuilds(o)
  <2>1. /\ IsInjective(g)
        /\ Range(g) = {x \in {BuildOf(o, q) : q \in ItemChoices(o)} : IsLegalBuild(x, o)}
    BY <1>2, BuildsAre, GeneratedIs
  <2> HIDE DEF g
  <2>2. ASSUME NEW x \in Range(g) PROVE \E ids \in LegalLists(o) : x = CanonicalizeItemIds(ids)
    <3>1. PICK q \in ItemChoices(o) : x = BuildOf(o, q)
      BY <2>1
    <3>2. x \in Seq(Int) /\ IsInjective(x) /\ InOrder(x, LessThan) /\ IsLegalBuild(x, o)
      BY <1>2, <2>1, <3>1, BuildOfIs
    <3>3. /\ CanonicalizeItemIds(x) \in Seq(Int) /\ Range(CanonicalizeItemIds(x)) = Range(x)
          /\ InOrder(CanonicalizeItemIds(x), LessThan)
      BY <3>2, CanonicalIs
    <3>4. x = CanonicalizeItemIds(x)
      BY <3>2, <3>3, AscendingOnce
    <3> QED BY <3>2, <3>4, LegalListsAre
  <2>3. ASSUME NEW ids \in LegalLists(o) PROVE CanonicalizeItemIds(ids) \in Range(g)
    <3>1. ids \in Seq(Int) /\ IsLegalBuild(ids, o)
      BY LegalListsAre
    <3>2. PICK q \in ItemChoices(o) : BuildOf(o, q) = CanonicalizeItemIds(ids)
      BY <1>2, <3>1, ChoiceOfLegal
    <3>3. Len(ids) = o.slotCount /\ IsInjective(ids)
      BY <3>1, LegalIs
    <3> DEFINE c == CanonicalizeItemIds(ids)
    <3>4. c \in Seq(Int) /\ Len(c) = Len(ids) /\ Range(c) = Range(ids) /\ IsInjective(c)
      BY <3>1, <3>3, CanonicalIs
    <3> HIDE DEF c
    <3>5. IsLegalBuild(c, o)
      BY <3>1, <3>3, <3>4, CanonicalLegal
    <3> QED BY <2>1, <3>2, <3>5 DEF c
  <2> QED BY <2>1, <2>2, <2>3 DEF g
<1> QED BY <1>1, <1>2

(* "Every generated build is canonical, unique, and validated against the   *)
(* exact same legal-build predicate" (optimizer.ts), and none is missing.   *)
THEOREM GeneratorIsExact == EnumerationExact
BY OneSearchExact DEF EnumerationExact, LegalLists

-----------------------------------------------------------------------------
(* While a search runs, what it goes through is each legal build once and   *)
(* nothing else (generateLegalBuilds and validateBuild), for any catalog    *)
(* and any options.                                                         *)
THEOREM AlwaysSearchExhaustive == Spec => []SearchExhaustive
<1>1. SearchExhaustive
  BY GeneratorIsExact DEF SearchExhaustive
<1> QED BY <1>1, PTL

(* What is shown is ranked in the one order that the evaluations admit, in  *)
(* which no build comes before one of its price that is at least as good    *)
(* against every target (rankOptimizerEvaluations).                         *)
THEOREM AlwaysShownRanking == Spec => []ShownRanking
<1>1. ShownRanking
  BY RankingIsDeterministic, RankingRespectsDominance DEF ShownRanking
<1> QED BY <1>1, PTL
=============================================================================
