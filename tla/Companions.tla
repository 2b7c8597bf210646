----------------------------- MODULE Companions -----------------------------
(***************************************************************************)
(* What lies beside an artifact: builds of one stem, by the native driver, *)
(* by --emit=c and by sv0 vm-native-compile, in whatever coverage modes    *)
(* and one after another or at once.                                       *)
(*                                                                         *)
(* prog, prog.c and prog.sv0b all have prog.sv0covmap.json for their       *)
(* default map.  The compiler writes the map and the binding itself, while *)
(* it compiles; the artifact comes later, and what an earlier build left   *)
(* is removed last.                                                        *)
(***************************************************************************)
EXTENDS Naturals, FiniteSets

CONSTANTS
  MaxBuild  \* how many builds there are

ASSUME MaxBuildAssumption == MaxBuild \in Nat

Builds == 1 .. MaxBuild

None    == 0
Foreign == MaxBuild + 1  \* a file that is no companion

Kind == {"exe", "c", "sv0b"}

(* mode: --coverage; away: --coverage-map names another path.              *)
Wish == {w \in [kind : Kind, mode : {"off", "map", "instrument"}, away : BOOLEAN] :
           w.away => w.mode # "off"}

VARIABLES
  wish,      \* build -> what was asked of it, for the builds that have begun
  stage,     \* of those builds
  artifact,  \* kind -> the build that made it
  defaultMap, \* the build that wrote the default map
  binding,   \* the build that wrote the binding of the .sv0b
  solitary,     \* history: the builds that overlapped with none
  tidied     \* history: the builds whose removals did not fail

companionVars == <<wish, stage, artifact, defaultMap, binding, solitary, tidied>>

CompanionsInit ==
  /\ wish = << >> /\ stage = << >>
  /\ artifact = [k \in Kind |-> None]
  /\ defaultMap \in {None, Foreign} /\ binding \in {None, Foreign}
  /\ solitary = {} /\ tidied = {}

UnderWay == {b \in DOMAIN stage : stage[b] \notin {"done", "failed", "killed"}}

Moves(b, from, to) == b \in UnderWay /\ stage[b] = from /\ stage' = [stage EXCEPT ![b] = to]

(* The builds begin in the order of their numbers.                         *)
BeginBuild(b) ==
  /\ b \notin DOMAIN stage /\ \A c \in Builds : c < b => c \in DOMAIN stage
  /\ \E w \in Wish : wish' = [c \in DOMAIN wish \union {b} |-> IF c = b THEN w ELSE wish[c]]
  /\ stage' = [c \in DOMAIN stage \union {b} |-> IF c = b THEN "map" ELSE stage[c]]
  /\ solitary' = IF UnderWay = {} THEN solitary \union {b} ELSE solitary \ UnderWay
  /\ UNCHANGED <<artifact, defaultMap, binding, tidied>>

Files == <<artifact, defaultMap, binding>>

History == <<solitary, tidied>>

(* resolve: a map at the default place unless it is off or away.           *)
WritesMap(w) == w.mode # "off" /\ ~w.away

(* resolve: only instrumented bytecode has a binding.                      *)
WritesBinding(w) == w.kind = "sv0b" /\ w.mode = "instrument"

WriteMap(b) ==
  /\ Moves(b, "map", "binding")
  /\ defaultMap' = IF WritesMap(wish[b]) THEN b ELSE defaultMap
  /\ UNCHANGED <<wish, artifact, binding, History>>

WriteBinding(b) ==
  /\ Moves(b, "binding", "publish")
  /\ binding' = IF WritesBinding(wish[b]) THEN b ELSE binding
  /\ UNCHANGED <<wish, artifact, defaultMap, History>>

(* The compiler, the C compiler or the rename fails, before or after the   *)
(* map: what has been written stays.                                       *)
BuildFails(b) ==
  /\ \E s \in {"map", "binding", "publish"} : Moves(b, s, "failed")
  /\ UNCHANGED <<wish, Files, History>>

(* The artifact under a temporary name is renamed over the old one.        *)
PublishBuild(b) ==
  /\ Moves(b, "publish", "clean map")
  /\ artifact' = [artifact EXCEPT ![wish[b].kind] = b]
  /\ UNCHANGED <<wish, defaultMap, binding, History>>

StaleOutputs_mapOnly(w) == IF WritesMap(w) THEN {} ELSE {"map"}

(* stale_outputs: the companions beside an artifact that its build does    *)
(* not write.                                                              *)
StaleOutputs(w) ==
  {p \in {"map", "binding"} :
     \/ p = "map" /\ ~WritesMap(w)
     \/ p = "binding" /\ w.kind = "sv0b" /\ ~WritesBinding(w)}

Without(path, b, file) == IF path \in StaleOutputs(wish[b]) /\ file # Foreign THEN None ELSE file

CleanMap(b) ==
  /\ Moves(b, "clean map", "clean binding")
  /\ defaultMap' = Without("map", b, defaultMap)
  /\ UNCHANGED <<wish, artifact, binding, History>>

CleanBinding(b) ==
  /\ Moves(b, "clean binding", "done")
  /\ binding' = Without("binding", b, binding)
  /\ tidied' = tidied \union {b}
  /\ UNCHANGED <<wish, artifact, defaultMap, solitary>>

(* remove_stale_outputs passes over what it cannot read or remove, and a   *)
(* build whose clean-up failed is no failure.                              *)
CleanFails(b) ==
  /\ \E s \in {"clean map", "clean binding"} : Moves(b, s, "done")
  /\ UNCHANGED <<wish, Files, History>>

BuildKilled(b) ==
  /\ \E s \in {"map", "binding", "publish", "clean map", "clean binding"} : Moves(b, s, "killed")
  /\ UNCHANGED <<wish, Files, History>>

CompanionsNext ==
  \E b \in Builds : \/ BeginBuild(b) \/ WriteMap(b) \/ WriteBinding(b) \/ BuildFails(b) \/ PublishBuild(b)
                    \/ CleanMap(b) \/ CleanBinding(b) \/ CleanFails(b) \/ BuildKilled(b)

CompanionsSpec == CompanionsInit /\ [][CompanionsNext]_companionVars

-----------------------------------------------------------------------------
(* Properties.                                                             *)

(* When a build has ended well that overlapped with no other, its artifact *)
(* has its own map and binding beside it or none, whatever earlier builds  *)
(* of the stem left there, finished, failed or killed.                     *)
CompanionsMatchTheArtifact ==
  \A b \in solitary \intersect tidied :
    (\A c \in DOMAIN stage : c <= b) =>
      /\ artifact[wish[b].kind] = b
      /\ defaultMap = b \/ (~WritesMap(wish[b]) /\ defaultMap \in {None, Foreign})
      /\ wish[b].kind = "sv0b" =>
           binding = b \/ (~WritesBinding(wish[b]) /\ binding \in {None, Foreign})
=============================================================================
