-------------------------- MODULE OptimizerSearch --------------------------
(***************************************************************************)
(* The build optimizer of the lab: the page (app/page.tsx) and its worker  *)
(* (workers/optimizer.worker.ts, optimizer-protocol.ts), which talk over   *)
(* two FIFO channels.                                                      *)
(*                                                                         *)
(* The page runs one search at a time; its token tells late messages of    *)
(* abandoned searches from those of the current one.  The worker evaluates *)
(* the candidates of a search in chunks and takes messages between them,   *)
(* so that an abandoned search may still be suspended between two chunks   *)
(* when the next is under way.                                             *)
(*                                                                         *)
(* What a search depends on is one input; the target cohort of an input is *)
(* loaded first and taken to be the same each time.  What the worker finds *)
(* is represented by the input and the number of chunks it comes from.     *)
(***************************************************************************)
EXTENDS LegalBuilds, BuildRanking

CONSTANTS
  Inputs, Hashes,
  HashOf,        (* optimizerContextHash, 32 bits, of the context of an input *)
  Chunks,        (* the chunks of a search                                    *)
  None,
  MaxSearches    (* bound: the searches that are started                      *)

ASSUME SearchAssumption ==
  /\ HashOf \in [Inputs -> Hashes]
  /\ Chunks \in Nat \ {0}
  /\ MaxSearches \in Nat
  /\ None \notin Inputs /\ None \notin Hashes

(* The 32 bits of the context hash tell the inputs of a session apart. *)
ASSUME HashAssumption == \A i, j \in Inputs : HashOf[i] = HashOf[j] => i = j

VARIABLES
  input,      (* the inputs on display                                        *)
  seenInput,  (* optimizerInputKeyRef: the inputs the effect has seen         *)
  token,      (* optimizerTokenRef                                            *)
  search,     (* optimizerSearchRef: the token of the current search, 0: none *)
  hash,       (* its contextHash, once a message has told it                  *)
  running, progress, result,
  loading,    (* the searches that await their cohort, with their input       *)
  deserted,   (* history: the searches given up on an error event             *)
  commands, responses,
  activeRun,  (* the worker's: the token of a run, 0: none                    *)
  cancelled,  (* the runs whose cancelled flag is set                         *)
  suspended,  (* the runs between two chunks: input and chunks done           *)
  cache

page == <<input, seenInput, token, search, hash, running, progress, result, loading,
          deserted>>
worker == <<activeRun, cancelled, suspended, cache>>
vars == <<page, commands, responses, worker>>

Tokens == 1..MaxSearches
Found == [of : Inputs, chunks : 0..Chunks]
Response ==
  [type : {"progress", "result"}, token : Tokens, hash : Hashes, found : Found]
    \cup [type : {"cancelled"}, token : Tokens, hash : Hashes]
    \cup [type : {"error"}, token : Tokens]
Command == [type : {"optimize"}, token : Tokens, input : Inputs] \cup [type : {"cancel"}, token : Tokens]

Partial(T, S) == UNION {[U -> S] : U \in SUBSET T}

TypeOK ==
  /\ input \in Inputs /\ seenInput \in Inputs
  /\ token \in 0..MaxSearches
  /\ search \in 0..token /\ hash \in Hashes \cup {None}
  /\ running = (search # 0)
  /\ progress \in Found \cup {None} /\ result \in Found \cup {None}
  /\ progress # None => running
  /\ loading \in Partial(1..token, Inputs)
  /\ deserted \subseteq 1..token
  /\ commands \in Seq(Command) /\ responses \in Seq(Response)
  /\ activeRun \in 0..token /\ cancelled \subseteq 1..token
  /\ suspended \in Partial(1..token, Found)
  /\ cache \in Partial(Hashes, Found)

Init ==
  /\ input \in Inputs /\ seenInput = input
  /\ token = 0 /\ search = 0 /\ hash = None
  /\ running = FALSE /\ progress = None /\ result = None
  /\ loading = <<>> /\ deserted = {}
  /\ commands = <<>> /\ responses = <<>>
  /\ activeRun = 0 /\ cancelled = {} /\ suspended = <<>> /\ cache = <<>>

Without(f, x) == [y \in DOMAIN f \ {x} |-> f[y]]
With(f, x, v) == [y \in DOMAIN f \cup {x} |-> IF y = x THEN v ELSE f[y]]

-----------------------------------------------------------------------------
(* The page. *)

(* React runs the effects of a render before it renders again. *)
ChangeInput(i) ==
  /\ seenInput = input /\ i # input
  /\ input' = i
  /\ UNCHANGED <<seenInput, token, search, hash, running, progress, result, loading, deserted,
                 commands, responses, worker>>

EndSearch ==
  /\ search' = 0 /\ hash' = None
  /\ running' = FALSE /\ progress' = None

CancelOptimizer_NotPosted ==
  /\ EndSearch
  /\ UNCHANGED commands

CancelOptimizer ==
  /\ EndSearch
  /\ commands' = IF search = 0 THEN commands
                 ELSE Append(commands, [type |-> "cancel", token |-> search])

(* The effect on the inputs: a search of others is of no use any more. *)
InputEffect ==
  /\ seenInput # input
  /\ seenInput' = input
  /\ CancelOptimizer
  /\ result' = None
  /\ UNCHANGED <<input, token, loading, deserted, responses, worker>>

RunOptimizer ==
  /\ search = 0 /\ token < MaxSearches
  /\ token' = token + 1
  /\ search' = token + 1 /\ hash' = None
  /\ running' = TRUE /\ progress' = None /\ result' = None
  /\ loading' = With(loading, token + 1, input)
  /\ UNCHANGED <<input, seenInput, deserted, commands, responses, worker>>

CancelButton ==
  /\ running
  /\ CancelOptimizer
  /\ UNCHANGED <<input, seenInput, token, result, loading, deserted, responses, worker>>

(* A search that was abandoned while it awaited its cohort is not posted. *)
CohortLoaded(t) ==
  /\ t \in DOMAIN loading
  /\ loading' = Without(loading, t)
  /\ commands' = IF search = t
                 THEN Append(commands, [type |-> "optimize", token |-> t, input |-> loading[t]])
                 ELSE commands
  /\ UNCHANGED <<input, seenInput, token, search, hash, running, progress, result, deserted,
                 responses, worker>>

(* The request failed, or no target matched. *)
CohortFailed(t) ==
  /\ t \in DOMAIN loading
  /\ loading' = Without(loading, t)
  /\ IF search = t THEN EndSearch ELSE UNCHANGED <<search, hash, running, progress>>
  /\ UNCHANGED <<input, seenInput, token, result, deserted, commands, responses, worker>>

Accepts_AnyToken(message) == search # 0

Accepts_HashRequired(message) ==
  /\ search # 0 /\ message.token = search
  /\ message.type # "error" => message.hash = hash

(* acceptsOptimizerUiResponse *)
Accepts(message) ==
  /\ search # 0 /\ message.token = search
  /\ hash # None /\ message.type # "error" => message.hash = hash

OnMessage ==
  /\ responses # <<>>
  /\ responses' = Tail(responses)
  /\ LET message == Head(responses) IN
       CASE ~Accepts(message) -> UNCHANGED <<search, hash, running, progress, result>>
         [] Accepts(message) /\ message.type = "progress" ->
              /\ hash' = message.hash /\ progress' = message.found
              /\ UNCHANGED <<search, running, result>>
         [] Accepts(message) /\ message.type = "result" ->
              EndSearch /\ result' = message.found
         [] OTHER -> EndSearch /\ UNCHANGED result
  /\ UNCHANGED <<input, seenInput, token, loading, deserted, commands, worker>>

(* An error event of the worker: the page gives up its search, the worker  *)
(* is not told.                                                            *)
OnError ==
  /\ search # 0
  /\ EndSearch
  /\ deserted' = deserted \cup {search}
  /\ UNCHANGED <<input, seenInput, token, result, loading, commands, responses, worker>>

-----------------------------------------------------------------------------
(* The worker. *)

Progress(t, found) == [type |-> "progress", token |-> t, hash |-> HashOf[found.of], found |-> found]
Result(t, found) == [type |-> "result", token |-> t, hash |-> HashOf[found.of], found |-> found]

Post(messages) == responses' = responses \o messages

(* onmessage, a cancel command. *)
ReceiveCancel ==
  /\ commands # <<>> /\ Head(commands).type = "cancel"
  /\ commands' = Tail(commands)
  /\ cancelled' = IF Head(commands).token = activeRun THEN cancelled \cup {activeRun} ELSE cancelled
  /\ UNCHANGED <<page, responses, activeRun, suspended, cache>>

(* A chunk of an active run; the last one completes the search. *)
EvaluateChunk(t, found, before) ==
  LET next == [found EXCEPT !.chunks = @ + 1] IN
  IF next.chunks = Chunks
  THEN /\ cache' = With(cache, HashOf[found.of], next)
       /\ Post(before \o <<Progress(t, next), Result(t, next)>>)
       /\ suspended' = Without(suspended, t)
  ELSE /\ Post(before \o <<Progress(t, next)>>)
       /\ suspended' = With(suspended, t, next)
       /\ UNCHANGED cache

(* An evaluation throws. *)
EvaluationThrows(t, before) ==
  /\ Post(before \o <<[type |-> "error", token |-> t]>>)
  /\ suspended' = Without(suspended, t)
  /\ UNCHANGED cache

(* onmessage, a request: it replaces the run before it, answers from the   *)
(* cache or evaluates its first chunk.                                     *)
ReceiveRequest ==
  /\ commands # <<>> /\ Head(commands).type = "optimize"
  /\ commands' = Tail(commands)
  /\ LET t == Head(commands).token
         start == [of |-> Head(commands).input, chunks |-> 0]
         h == HashOf[start.of]
     IN /\ activeRun' = t
        /\ IF h \in DOMAIN cache
           THEN /\ Post(<<Progress(t, cache[h]), Result(t, cache[h])>>)
                /\ UNCHANGED <<suspended, cache>>
           ELSE \/ EvaluateChunk(t, start, <<Progress(t, start)>>)
                \/ EvaluationThrows(t, <<Progress(t, start)>>)
  /\ cancelled' = IF activeRun = 0 THEN cancelled ELSE cancelled \cup {activeRun}
  /\ UNCHANGED page

IsActive(t) == activeRun = t /\ t \notin cancelled

(* After the yield to the event loop.  A cancelled run says so, unless it  *)
(* has been replaced.                                                      *)
ContinueRun(t) ==
  /\ t \in DOMAIN suspended
  /\ IF IsActive(t)
     THEN EvaluateChunk(t, suspended[t], <<>>) \/ EvaluationThrows(t, <<>>)
     ELSE /\ suspended' = Without(suspended, t)
          /\ Post(IF activeRun = t
                  THEN <<[type |-> "cancelled", token |-> t, hash |-> HashOf[suspended[t].of]]>>
                  ELSE <<>>)
          /\ UNCHANGED cache
  /\ UNCHANGED <<page, commands, activeRun, cancelled>>

-----------------------------------------------------------------------------
Next ==
  \/ \E i \in Inputs : ChangeInput(i)
  \/ InputEffect \/ RunOptimizer \/ CancelButton
  \/ \E t \in Tokens : CohortLoaded(t) \/ CohortFailed(t)
  \/ OnMessage \/ OnError
  \/ ReceiveCancel \/ ReceiveRequest
  \/ \E t \in Tokens : ContinueRun(t)

Spec == Init /\ [][Next]_vars

(* A request of the cohort settles, effects run, messages arrive, and both *)
(* event loops go on.  The user need not do anything.                      *)
Progressing ==
  /\ WF_vars(InputEffect) /\ WF_vars(OnMessage)
  /\ WF_vars(ReceiveCancel) /\ WF_vars(ReceiveRequest)
  /\ \A t \in Tokens : WF_vars(CohortLoaded(t) \/ CohortFailed(t)) /\ WF_vars(ContinueRun(t))

LiveSpec == Spec /\ Progressing

-----------------------------------------------------------------------------
Complete(i) == [of |-> i, chunks |-> Chunks]

(* Once its effects have run, the page shows the complete ranking of the   *)
(* inputs on display or none - never one of other inputs or of a part of   *)
(* the candidates, whatever messages of abandoned searches are under way.  *)
(* Nor does the worker keep any other for later: a cached ranking is that  *)
(* of a whole search of its context, although most end in the middle.      *)
ResultCurrent ==
  /\ result # None /\ seenInput = input => result = Complete(input)
  /\ \A h \in DOMAIN cache : \E i \in Inputs : HashOf[i] = h /\ cache[h] = Complete(i)

(* The worker never works on for a page that has given up, except while    *)
(* the cancellation is on its way: whoever ends a search before its        *)
(* verdict tells the worker.  (After an error event the page does not; the *)
(* worker then works until the next request.)                              *)
Supervised ==
  \A t \in DOMAIN suspended :
    IsActive(t) /\ search # t /\ t \notin deserted =>
      \E c \in 1..Len(commands) : commands[c] = [type |-> "cancel", token |-> t]

(* A search ends: with a ranking, an error or a cancellation.              *)
SearchEnds == running ~> ~running

-----------------------------------------------------------------------------
(* The pure parts where a search relies on them. *)

(* While a search runs, runOptimizerInChunks goes through the candidates of *)
(* generateCandidateBuilds: these are all the legal builds and no others.   *)
SearchExhaustive == running => EnumerationExact

(* The ranking that is shown is the only one that the evaluations admit, in *)
(* whatever order the chunks brought them (rankOptimizerEvaluations), and   *)
(* puts no build before one that is at least as good against every target.  *)
ShownRanking ==
  (progress # None \/ result # None) => RankingDeterministic /\ DominanceRespected
=============================================================================
