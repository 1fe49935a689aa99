--------------------------- MODULE MCApiGates --------------------------
(***************************************************************************)
(* The gates, the queries behind them and the search of entries for TLC.   *)
(* As they share only the clock, if anything, each behaviour looks at one  *)
(* of them: the product would say no more.                                 *)
(***************************************************************************)
EXTENDS ApiGates, SemanticQueries, MCMemorySearch

CONSTANTS m1, m2, m3, ann, bob, cy, work, trip, n1, n2
MCInvolves == (m1 :> {ann}) @@ (m2 :> {ann, bob}) @@ (m3 :> {ann, bob, cy})
MCSpeakers == (m1 :> {ann}) @@ (m2 :> {bob}) @@ (m3 :> {bob})
MCTopicOf  == (m1 :> work) @@ (m2 :> work) @@ (m3 :> trip)
MCImportance == (m1 :> 1) @@ (m2 :> 1) @@ (m3 :> 2)
MCNamedBy  == (n1 :> {ann}) @@ (n2 :> {ann, bob})

VARIABLE focus

TheRequest == Request("topics", <<FALSE, Nothing, Nothing>>, Nothing, FALSE, 0)
MCInit ==
  /\ focus \in {"limit", "breaker", "clear", "query", "search", "lists"}
  /\ focus # "query" => stored = {} /\ asked = TheRequest /\ date = [e \in Events |-> 0]
  /\ GatesInit /\ QueryInit /\ SearchInit
  /\ focus # "clear" => Present = {}
  /\ focus = "query" => date[m3] = 1      \* the others before, with, after it or undated

\* Bound: the weights are changed, once and one part of them, or requests fail; a
\* behaviour with failures has one move or two searches at a time and asks for the
\* session, one with other weights asks for the user.
MCSearch ==
  /\ SearchNext
  /\ mishaps' > 0 =>
       /\ weights' = AnyWeights /\ moves' <= 1
       /\ moves' = 0 \/ Cardinality({s \in Searchers : stage'[s] # "idle"}) <= 1
  /\ weights' # weights =>
       /\ weights = AnyWeights
       /\ weights.blend = weights'.blend \/ weights.boosts = weights'.boosts
  /\ \A s \in Searchers : stage'[s] # "idle" =>
       CASE focus = "lists" -> search'[s].req = OfEither
         [] mishaps' > 0 -> search'[s].req = InSession
         [] weights' # AnyWeights -> search'[s].req = OfUser
         [] OTHER -> search'[s].req # OfEither
  /\ focus = "lists" => mishaps' = 0 /\ weights' = AnyWeights /\ begun' <= 1

MCNext ==
  /\ \/ focus = "limit" /\ LimitNext /\ UNCHANGED <<queryVars, searchVars>>
     \/ focus = "breaker" /\ BreakerNext /\ UNCHANGED <<queryVars, searchVars>>
     \/ focus = "clear" /\ ClearNext /\ calls' <= 4 /\ UNCHANGED <<queryVars, searchVars>>
     \/ focus = "query" /\ QueryNext /\ UNCHANGED <<vars, searchVars>>
     \/ focus \in {"search", "lists"} /\ MCSearch /\ UNCHANGED <<vars, queryVars>>
  /\ UNCHANGED focus
MCSpec == MCInit /\ [][MCNext]_<<vars, queryVars, searchVars, focus>>

SearcherSymmetry == Permutations(Searchers)

\* The queries alone.
MCQuerySpec == MCSpec /\ focus = "query"
=============================================================================
