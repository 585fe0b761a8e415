-------------------------- MODULE BlueprintProofs --------------------------
(***************************************************************************)
(* The blueprints.  The cycle check of the block format refuses cycles and *)
(* nothing else, and what is accepted is compiled in the order and in the  *)
(* stages that were announced, for any targets, requires lists and order   *)
(* of the blocks.  In INI and lean blueprints, whatever the lines, and in  *)
(* the fallback the graph that is accepted has no cycle, and the inferred  *)
(* order puts providers first.  A graph in JSON is not looked at.          *)
(***************************************************************************)
EXTENDS DslBuild, BlueprintParser, PickingProofs, SequenceTheorems

Listed(s) == {s[j] : j \in DOMAIN s}

Black == {t \in Targets : color[t] = "black"}

Frames == [node : Targets, ahead : Seq(Targets)]

TypesOK ==
  /\ requires \in [Targets -> Seq(Targets)]
  /\ color \in [Targets -> {"white", "gray", "black"}]
  /\ path \in Seq(Frames)

\* The gray targets are those of the stack, each there once, and each of
\* them requires the next.
StackOK ==
  /\ \A i \in DOMAIN path : color[path[i].node] = "gray"
  /\ \A t \in Targets : color[t] = "gray" => \E i \in DOMAIN path : path[i].node = t
  /\ \A i, j \in DOMAIN path : path[i].node = path[j].node => i = j
  /\ \A i \in DOMAIN path : i + 1 \in DOMAIN path => path[i + 1].node \in Needs(path[i].node)

\* What is ahead of a target on the stack is what it requires, less what is
\* black and the one that is looked at.
AheadOK ==
  \A i \in DOMAIN path :
    /\ Listed(path[i].ahead) \subseteq Needs(path[i].node)
    /\ \A n \in Needs(path[i].node) :
         n \in Listed(path[i].ahead) \cup Black
           \/ (i + 1 \in DOMAIN path /\ n = path[i + 1].node)

Acyclic(T) == \A S \in SUBSET T : S # {} => \E t \in S : Needs(t) \cap S = {}

\* Black targets lead to black targets only, and on no cycle.
BlackOK ==
  /\ \A t \in Black : Needs(t) \subseteq Black
  /\ Acyclic(Black)

SearchOK == TypesOK /\ StackOK /\ AheadOK /\ BlackOK

RealCycle ==
  /\ Len(cycle) > 1 /\ cycle[1] = cycle[Len(cycle)]
  /\ \A i \in 1..(Len(cycle) - 1) : cycle[i + 1] \in Needs(cycle[i])

OutcomeOK ==
  /\ pc \in {"sorting", "compiling"} => Black = Targets
  /\ exit = 2 => RealCycle

GateInv == SearchOK /\ OutcomeOK

-----------------------------------------------------------------------------

LEMMA NeedsTargets ==
  ASSUME TypesOK, NEW t \in Targets
  PROVE  Needs(t) = Listed(requires[t]) /\ Needs(t) \subseteq Targets
BY DEF TypesOK, Needs, Listed

LEMMA GateInit == Init => GateInv
<1> SUFFICES ASSUME Init PROVE GateInv
  OBVIOUS
<1>1. requires \in [Targets -> Seq(Targets)]
  <2>1. ASSUME NEW n \in 0..MaxRequires, NEW s \in [1..n -> Targets] PROVE s \in Seq(Targets)
    BY <2>1, DslAssumption
  <2>2. QED
    BY <2>1 DEF Init
<1>2. path = <<>> /\ color = [t \in Targets |-> "white"] /\ exit = 0 /\ pc = "checking"
  BY DEF Init
<1>3. Black = {}
  BY <1>2 DEF Black
<1>4. TypesOK /\ StackOK /\ AheadOK
  BY <1>1, <1>2 DEF TypesOK, StackOK, AheadOK
<1>5. BlackOK
  BY <1>3 DEF BlackOK, Acyclic
<1>6. QED
  BY <1>2, <1>4, <1>5 DEF GateInv, SearchOK, OutcomeOK

\* A target that requires black targets only may turn black.
LEMMA AcyclicAdd ==
  ASSUME NEW T, NEW v, Acyclic(T), v \notin T, Needs(v) \subseteq T,
         \A t \in T : Needs(t) \subseteq T
  PROVE  Acyclic(T \cup {v})
<1> SUFFICES ASSUME NEW S \in SUBSET (T \cup {v}), S # {}
             PROVE  \E t \in S : Needs(t) \cap S = {}
  BY DEF Acyclic
<1>1. CASE S \subseteq {v}
  BY <1>1
<1>2. CASE ~(S \subseteq {v})
  <2>1. S \ {v} \in SUBSET T /\ S \ {v} # {}
    BY <1>2
  <2>2. PICK t \in S \ {v} : Needs(t) \cap (S \ {v}) = {}
    BY <2>1 DEF Acyclic
  <2>3. v \notin Needs(t)
    BY <2>1, <2>2
  <2>4. QED
    BY <2>2, <2>3
<1>3. QED
  BY <1>1, <1>2

LEMMA StartOK == SearchOK /\ StartSearch => SearchOK'
<1> SUFFICES ASSUME SearchOK, StartSearch PROVE SearchOK'
  OBVIOUS
<1>1. PICK i \in Roots : Enter(Declared[i], <<>>)
  BY DEF StartSearch
<1> DEFINE t == Declared[i]
<1>2. t \in Targets /\ color[t] = "white"
  BY <1>1, DslAssumption DEF Roots, Targets
<1>3. TypesOK
  BY DEF SearchOK
<1>4. requires' = requires /\ path = <<>>
  BY DEF StartSearch
<1>5. /\ color' = [color EXCEPT ![t] = "gray"]
      /\ path' = <<[node |-> t, ahead |-> requires[t]]>>
  BY <1>1 DEF Enter
<1> HIDE DEF t
<1>6. Black' = Black
  BY <1>2, <1>3, <1>5 DEF Black, TypesOK
<1>7. \A u : Needs(u)' = Needs(u)
  BY <1>4 DEF Needs
<1>8. TypesOK'
  BY <1>2, <1>3, <1>4, <1>5 DEF TypesOK, Frames
<1>9. StackOK'
  BY <1>2, <1>3, <1>4, <1>5 DEF TypesOK, StackOK, SearchOK
<1>10. AheadOK'
  <2>1. Needs(t) = Listed(requires[t])
    BY <1>2, <1>3, NeedsTargets
  <2>2. DOMAIN path' = {1} /\ path'[1].node = t /\ path'[1].ahead = requires[t]
    BY <1>5
  <2>3. QED
    BY <1>7, <2>1, <2>2 DEF AheadOK
<1>11. BlackOK'
  BY <1>6, <1>7 DEF SearchOK, BlackOK, Acyclic
<1>12. QED
  BY <1>8, <1>9, <1>10, <1>11 DEF SearchOK

LEMMA ListedTail ==
  ASSUME NEW s \in Seq(Targets), s # <<>>
  PROVE  Listed(s) = {Head(s)} \cup Listed(Tail(s)) /\ Tail(s) \in Seq(Targets)
<1>1. /\ Tail(s) \in Seq(Targets) /\ Len(Tail(s)) = Len(s) - 1 /\ Head(s) = s[1]
      /\ \A j \in 1..(Len(s) - 1) : Tail(s)[j] = s[j + 1]
  OBVIOUS
<1>2. \A j \in 1..Len(s) : j = 1 \/ (j - 1 \in 1..(Len(s) - 1) /\ s[j] = Tail(s)[j - 1])
  BY <1>1
<1>3. /\ DOMAIN s = 1..Len(s) /\ Len(s) \in Nat \ {0}
      /\ DOMAIN Tail(s) = 1..(Len(s) - 1)
  BY <1>1
<1>4. ASSUME NEW x \in Listed(s) PROVE x \in {Head(s)} \cup Listed(Tail(s))
  <2>1. PICK j \in 1..Len(s) : x = s[j]
    BY <1>3, <1>4 DEF Listed
  <2>2. QED
    BY <1>1, <1>2, <1>3, <2>1 DEF Listed
<1>5. ASSUME NEW x \in Listed(Tail(s)) PROVE x \in Listed(s)
  <2>1. PICK j \in 1..(Len(s) - 1) : x = Tail(s)[j]
    BY <1>3, <1>5 DEF Listed
  <2>2. x = s[j + 1] /\ j + 1 \in 1..Len(s)
    BY <1>1, <1>3, <2>1
  <2>3. QED
    BY <1>3, <2>2 DEF Listed
<1>6. Head(s) \in Listed(s)
  BY <1>1, <1>3 DEF Listed
<1>7. QED
  BY <1>1, <1>4, <1>5, <1>6

\* The neighbour, and the stack when it is taken off the list.
LEMMA LookingAt ==
  ASSUME SearchOK, Looking
  PROVE  LET n == Len(path) IN
         /\ n \in DOMAIN path /\ Neighbour \in Targets /\ Neighbour \in Needs(path[n].node)
         /\ Advanced \in Seq(Frames) /\ Len(Advanced) = n
         /\ \A i \in DOMAIN path : Advanced[i].node = path[i].node
         /\ \A i \in DOMAIN path : i # n => Advanced[i].ahead = path[i].ahead
         /\ Listed(path[n].ahead) = {Neighbour} \cup Listed(Advanced[n].ahead)
<1> DEFINE n == Len(path)
<1>1. path \in Seq(Frames) /\ path # <<>>
  BY DEF SearchOK, TypesOK, Looking
<1>2. n \in DOMAIN path /\ path[n] \in Frames /\ Last(path) = path[n]
  BY <1>1 DEF Last
<1>3. path[n].ahead # <<>> /\ Neighbour = Head(path[n].ahead)
  BY <1>2 DEF Looking, Neighbour
<1>4. /\ path[n].ahead \in Seq(Targets)
      /\ Listed(path[n].ahead) = {Neighbour} \cup Listed(Tail(path[n].ahead))
      /\ Tail(path[n].ahead) \in Seq(Targets)
  BY <1>2, <1>3, ListedTail DEF Frames
<1>5. /\ Advanced[n] = [path[n] EXCEPT !.ahead = Tail(path[n].ahead)]
      /\ \A i \in DOMAIN path : i # n => Advanced[i] = path[i]
      /\ DOMAIN Advanced = DOMAIN path
  BY <1>1, <1>2 DEF Advanced
<1>6. Advanced[n] \in Frames /\ Advanced[n].node = path[n].node
      /\ Advanced[n].ahead = Tail(path[n].ahead)
  BY <1>2, <1>4, <1>5 DEF Frames
<1>7. Advanced \in Seq(Frames) /\ Len(Advanced) = n
  BY <1>1, <1>5, <1>6 DEF Advanced
<1>8. Neighbour \in Targets /\ Neighbour \in Needs(path[n].node)
  BY <1>2, <1>3, <1>4 DEF SearchOK, AheadOK, Frames
<1>9. QED
  BY <1>2, <1>4, <1>5, <1>6, <1>7, <1>8

LEMMA PassByOK == SearchOK /\ PassBy => SearchOK'
<1> SUFFICES ASSUME SearchOK, PassBy PROVE SearchOK'
  OBVIOUS
<1> DEFINE n == Len(path)
<1>1. Looking /\ color[Neighbour] = "black" /\ path' = Advanced
      /\ UNCHANGED <<requires, color>>
  BY DEF PassBy
<1>2. /\ n \in DOMAIN path /\ Neighbour \in Black
      /\ path' \in Seq(Frames) /\ DOMAIN path' = DOMAIN path
      /\ \A i \in DOMAIN path : path'[i].node = path[i].node
      /\ \A i \in DOMAIN path : i # n => path'[i].ahead = path[i].ahead
      /\ Listed(path[n].ahead) = {Neighbour} \cup Listed(path'[n].ahead)
  <2>1. path \in Seq(Frames)
    BY DEF SearchOK, TypesOK
  <2>2. QED
    BY <1>1, <2>1, LookingAt DEF Black
<1>3. Black' = Black /\ \A u : Needs(u)' = Needs(u)
  BY <1>1 DEF Black, Needs
<1>4. TypesOK'
  BY <1>1, <1>2 DEF SearchOK, TypesOK
<1>5. StackOK'
  BY <1>1, <1>2, <1>3 DEF SearchOK, StackOK
<1>6. AheadOK'
  <2> SUFFICES ASSUME NEW i \in DOMAIN path
               PROVE  /\ Listed(path'[i].ahead) \subseteq Needs(path[i].node)
                      /\ \A u \in Needs(path[i].node) :
                           u \in Listed(path'[i].ahead) \cup Black
                             \/ (i + 1 \in DOMAIN path /\ u = path[i + 1].node)
    BY <1>2, <1>3 DEF AheadOK
  <2>1. CASE i = n
    BY <1>2, <2>1 DEF SearchOK, AheadOK
  <2>2. CASE i # n
    BY <1>2, <2>2 DEF SearchOK, AheadOK
  <2>3. QED
    BY <2>1, <2>2
<1>7. BlackOK'
  BY <1>3 DEF SearchOK, BlackOK, Acyclic
<1>8. QED
  BY <1>4, <1>5, <1>6, <1>7 DEF SearchOK

LEMMA DescendOK == SearchOK /\ Descend => SearchOK'
<1> SUFFICES ASSUME SearchOK, Descend PROVE SearchOK'
  OBVIOUS
<1> DEFINE n == Len(path)
           v == Neighbour
           top == [node |-> v, ahead |-> requires[v]]
<1>1. /\ Looking /\ color[v] = "white" /\ requires' = requires
      /\ color' = [color EXCEPT ![v] = "gray"] /\ path' = Append(Advanced, top)
  BY DEF Descend, Enter
<1>2. /\ n \in DOMAIN path /\ v \in Targets /\ v \in Needs(path[n].node)
      /\ Advanced \in Seq(Frames) /\ Len(Advanced) = n
      /\ \A i \in DOMAIN path : Advanced[i].node = path[i].node
      /\ \A i \in DOMAIN path : i # n => Advanced[i].ahead = path[i].ahead
      /\ Listed(path[n].ahead) = {v} \cup Listed(Advanced[n].ahead)
  BY <1>1, LookingAt
<1>3. n \in Nat /\ DOMAIN path = 1..n /\ \A i \in 1..n : path[i] \in Frames
  BY DEF SearchOK, TypesOK
<1>4. top \in Frames
  BY <1>2 DEF SearchOK, TypesOK, Frames
<1> HIDE DEF n, v
<1>5. /\ path' \in Seq(Frames) /\ DOMAIN path' = 1..(n + 1)
      /\ path'[n + 1].node = v /\ path'[n + 1].ahead = requires[v]
      /\ \A i \in 1..n : path'[i].node = path[i].node
      /\ \A i \in 1..n : i # n => path'[i].ahead = path[i].ahead
      /\ Listed(path[n].ahead) = {v} \cup Listed(path'[n].ahead)
  <2> HIDE DEF top
  <2>1. /\ path' \in Seq(Frames) /\ DOMAIN path' = 1..(n + 1) /\ path'[n + 1] = top
        /\ \A i \in 1..n : path'[i] = Advanced[i]
    BY <1>1, <1>2, <1>3, <1>4
  <2>2. top.node = v /\ top.ahead = requires[v]
    BY DEF top
  <2>3. n \in 1..n
    BY <1>2, <1>3
  <2>4. QED
    BY <1>2, <1>3, <2>1, <2>2, <2>3
<1>6. /\ color' \in [Targets -> {"white", "gray", "black"}] /\ color'[v] = "gray"
      /\ \A u \in Targets : u # v => color'[u] = color[u]
  BY <1>1, <1>2 DEF SearchOK, TypesOK
<1>7. Black' = Black /\ \A u : Needs(u)' = Needs(u)
  BY <1>1, <1>2, <1>6 DEF Black, Needs
<1>8. \A i \in 1..n : path[i].node \in Targets /\ path[i].node # v
  <2>1. \A i \in 1..n : path[i].node \in Targets
    BY <1>3 DEF Frames
  <2>2. \A i \in 1..n : color[path[i].node] = "gray"
    BY <1>3 DEF SearchOK, StackOK
  <2>3. QED
    BY <1>1, <2>1, <2>2
<1>9. TypesOK'
  BY <1>1, <1>5, <1>6 DEF SearchOK, TypesOK
<1>10. StackOK'
  <2>1. \A i \in DOMAIN path' : color'[path'[i].node] = "gray"
    BY <1>3, <1>5, <1>6, <1>8 DEF SearchOK, StackOK
  <2>2. \A u \in Targets : color'[u] = "gray" => \E i \in DOMAIN path' : path'[i].node = u
    <3> SUFFICES ASSUME NEW u \in Targets, color'[u] = "gray"
                 PROVE  \E i \in DOMAIN path' : path'[i].node = u
      OBVIOUS
    <3>1. CASE u = v
      BY <1>3, <1>5, <3>1
    <3>2. CASE u # v
      <4>1. color[u] = "gray"
        BY <1>6, <3>2
      <4>2. PICK i \in 1..n : path[i].node = u
        BY <1>3, <4>1 DEF SearchOK, StackOK
      <4>3. i \in DOMAIN path' /\ path'[i].node = u
        BY <1>3, <1>5, <4>2
      <4>4. QED
        BY <4>3
    <3>3. QED
      BY <3>1, <3>2
  <2>3. \A i, j \in DOMAIN path' : path'[i].node = path'[j].node => i = j
    <3> SUFFICES ASSUME NEW i \in 1..(n + 1), NEW j \in 1..(n + 1),
                        path'[i].node = path'[j].node
                 PROVE  i = j
      BY <1>5
    <3>1. CASE i \in 1..n /\ j \in 1..n
      BY <1>3, <1>5, <3>1, SMTT(30) DEF SearchOK, StackOK
    <3>2. CASE ~(i \in 1..n /\ j \in 1..n)
      BY <1>3, <1>5, <1>8, <3>2
    <3>3. QED
      BY <3>1, <3>2
  <2>4. \A i \in DOMAIN path' : i + 1 \in DOMAIN path' =>
          path'[i + 1].node \in Needs(path'[i].node)
    <3> SUFFICES ASSUME NEW i \in 1..n PROVE path'[i + 1].node \in Needs(path[i].node)
      BY <1>3, <1>5
    <3>1. CASE i = n
      BY <1>2, <1>5, <3>1
    <3>2. CASE i # n
      <4>1. i + 1 \in 1..n
        BY <1>3, <3>2
      <4>2. path[i + 1].node \in Needs(path[i].node)
        BY <1>3, <4>1 DEF SearchOK, StackOK
      <4>3. path'[i + 1].node = path[i + 1].node
        BY <1>5, <4>1
      <4>4. QED
        BY <4>2, <4>3
    <3>3. QED
      BY <3>1, <3>2
  <2>5. QED
    BY <1>7, <2>1, <2>2, <2>3, <2>4 DEF StackOK
<1>11. AheadOK'
  <2> SUFFICES ASSUME NEW i \in 1..(n + 1)
               PROVE  /\ Listed(path'[i].ahead) \subseteq Needs(path'[i].node)
                      /\ \A u \in Needs(path'[i].node) :
                           u \in Listed(path'[i].ahead) \cup Black
                             \/ (i + 1 \in 1..(n + 1) /\ u = path'[i + 1].node)
    BY <1>5, <1>7 DEF AheadOK
  <2>1. CASE i = n + 1
    BY <1>2, <1>5, <2>1, NeedsTargets DEF SearchOK
  <2>2. CASE i = n
    BY <1>2, <1>3, <1>5, <2>2 DEF SearchOK, AheadOK
  <2>3. CASE i \in 1..n /\ i # n
    <3>1. i + 1 \in 1..n /\ i + 1 \in 1..(n + 1)
      BY <1>3, <2>3
    <3>2. /\ path'[i].node = path[i].node /\ path'[i].ahead = path[i].ahead
          /\ path'[i + 1].node = path[i + 1].node
      BY <1>5, <2>3, <3>1
    <3>3. /\ Listed(path[i].ahead) \subseteq Needs(path[i].node)
          /\ \A u \in Needs(path[i].node) :
               u \in Listed(path[i].ahead) \cup Black \/ u = path[i + 1].node
      BY <1>3, <2>3, <3>1 DEF SearchOK, AheadOK
    <3>4. QED
      BY <3>1, <3>2, <3>3
  <2>4. QED
    BY <1>3, <2>1, <2>2, <2>3
<1>12. BlackOK'
  BY <1>7 DEF SearchOK, BlackOK, Acyclic
<1>13. QED
  BY <1>9, <1>10, <1>11, <1>12 DEF SearchOK

LEMMA LeaveOK == SearchOK /\ Leave => SearchOK'
<1> SUFFICES ASSUME SearchOK, Leave PROVE SearchOK'
  OBVIOUS
<1> DEFINE n == Len(path)
           t == path[n].node
<1>1. path \in Seq(Frames) /\ path # <<>> /\ Last(path) = path[n]
  BY DEF SearchOK, TypesOK, Leave, Last
<1>2. /\ n \in Nat \ {0} /\ DOMAIN path = 1..n /\ \A i \in 1..n : path[i] \in Frames
      /\ path[n].ahead = <<>> /\ requires' = requires
      /\ color' = [color EXCEPT ![t] = "black"] /\ path' = Front(path)
  BY <1>1 DEF Leave
<1>3. /\ path' \in Seq(Frames) /\ DOMAIN path' = 1..(n - 1)
      /\ \A i \in 1..(n - 1) : path'[i] = path[i]
  BY <1>1, <1>2 DEF Front
<1> HIDE DEF n
<1>4. t \in Targets
  BY <1>2 DEF Frames
<1>5. color[t] = "gray"
  BY <1>2 DEF SearchOK, StackOK
<1>6. /\ color' \in [Targets -> {"white", "gray", "black"}] /\ color'[t] = "black"
      /\ \A u \in Targets : u # t => color'[u] = color[u]
  BY <1>2, <1>4 DEF SearchOK, TypesOK
<1>7. t \notin Black /\ Black' = Black \cup {t} /\ \A u : Needs(u)' = Needs(u)
  BY <1>2, <1>4, <1>5, <1>6 DEF Black, Needs
<1>8. \A i \in 1..(n - 1) : path[i].node # t
  BY <1>2 DEF SearchOK, StackOK
<1>9. Needs(t) \subseteq Black
  <2>1. Listed(path[n].ahead) = {}
    BY <1>2 DEF Listed
  <2>2. n + 1 \notin DOMAIN path
    BY <1>2
  <2>3. QED
    BY <1>2, <2>1, <2>2 DEF SearchOK, AheadOK
<1> HIDE DEF t
<1>10. TypesOK'
  BY <1>2, <1>3, <1>6 DEF SearchOK, TypesOK
<1>11. StackOK'
  <2>1. \A i \in DOMAIN path' : color'[path'[i].node] = "gray"
    <3> SUFFICES ASSUME NEW i \in 1..(n - 1) PROVE color'[path[i].node] = "gray"
      BY <1>3
    <3>1. path[i].node \in Targets /\ color[path[i].node] = "gray" /\ path[i].node # t
      <4>1. i \in 1..n
        BY <1>2
      <4>2. path[i].node \in Targets
        BY <1>2, <4>1 DEF Frames
      <4>3. color[path[i].node] = "gray"
        BY <1>2, <4>1 DEF SearchOK, StackOK
      <4>4. QED
        BY <1>8, <4>2, <4>3
    <3>2. QED
      BY <1>6, <3>1
  <2>2. \A u \in Targets : color'[u] = "gray" => \E i \in DOMAIN path' : path'[i].node = u
    <3> SUFFICES ASSUME NEW u \in Targets, color'[u] = "gray"
                 PROVE  \E i \in 1..(n - 1) : path[i].node = u
      BY <1>3
    <3>1. u # t /\ color[u] = "gray"
      BY <1>6
    <3>2. PICK i \in 1..n : path[i].node = u
      BY <1>2, <3>1 DEF SearchOK, StackOK
    <3>3. i # n
      BY <3>1, <3>2 DEF t
    <3>4. QED
      BY <1>2, <3>2, <3>3
  <2>3. \A i, j \in DOMAIN path' : path'[i].node = path'[j].node => i = j
    BY <1>2, <1>3 DEF SearchOK, StackOK
  <2>4. \A i \in DOMAIN path' : i + 1 \in DOMAIN path' =>
          path'[i + 1].node \in Needs(path'[i].node)
    BY <1>2, <1>3 DEF SearchOK, StackOK
  <2>5. QED
    BY <1>7, <2>1, <2>2, <2>3, <2>4 DEF StackOK
<1>12. AheadOK'
  <2> SUFFICES ASSUME NEW i \in 1..(n - 1)
               PROVE  /\ Listed(path[i].ahead) \subseteq Needs(path[i].node)
                      /\ \A u \in Needs(path[i].node) :
                           u \in Listed(path[i].ahead) \cup Black \cup {t}
                             \/ (i + 1 \in 1..(n - 1) /\ u = path'[i + 1].node)
    BY <1>3, <1>7 DEF AheadOK
  <2>1. /\ Listed(path[i].ahead) \subseteq Needs(path[i].node)
        /\ \A u \in Needs(path[i].node) :
             u \in Listed(path[i].ahead) \cup Black \/ u = path[i + 1].node
    <3>1. i \in DOMAIN path
      BY <1>2
    <3>2. QED
      BY <3>1 DEF SearchOK, AheadOK
  <2>2. CASE i = n - 1
    <3>1. path[i + 1].node = t
      BY <1>2, <2>2 DEF t
    <3>2. QED
      BY <2>1, <3>1
  <2>3. CASE i # n - 1
    <3>1. i + 1 \in 1..(n - 1)
      BY <1>2, <2>3
    <3>2. QED
      BY <1>3, <2>1, <3>1
  <2>4. QED
    BY <2>2, <2>3
<1>13. BlackOK'
  <2>1. Acyclic(Black \cup {t})
    BY <1>7, <1>9, AcyclicAdd DEF SearchOK, BlackOK
  <2>2. QED
    BY <1>7, <1>9, <2>1 DEF SearchOK, BlackOK, Acyclic
<1>14. QED
  BY <1>10, <1>11, <1>12, <1>13 DEF SearchOK

LEMMA FindCycleOK == SearchOK /\ FindCycle => RealCycle'
<1> SUFFICES ASSUME SearchOK, FindCycle PROVE RealCycle'
  OBVIOUS
<1> DEFINE n == Len(path)
<1>1. Looking /\ requires' = requires
  BY DEF FindCycle
<1>2. PICK i \in DOMAIN path : path[i].node = Neighbour /\ cycle' = Loop(i)
  BY DEF FindCycle
<1>3. /\ n \in Nat /\ DOMAIN path = 1..n /\ \A j \in 1..n : path[j].node \in Targets
      /\ Neighbour \in Needs(path[n].node)
  <2>1. n \in Nat /\ DOMAIN path = 1..n /\ \A j \in 1..n : path[j] \in Frames
    BY DEF SearchOK, TypesOK
  <2>2. QED
    BY <1>1, <2>1, LookingAt DEF Frames
<1> DEFINE m == n - i + 1
           part == [j \in 1..m |-> path[i + j - 1].node]
<1>4. cycle' = Append(part, path[i].node)
  BY <1>2 DEF Loop
<1> HIDE DEF n
<1>5. m \in Nat \ {0}
  BY <1>2, <1>3
<1>6. part \in Seq(Targets) /\ Len(part) = m
  <2>1. \A j \in 1..m : i + j - 1 \in 1..n
    BY <1>2, <1>3, <1>5
  <2>2. \A j \in 1..m : part[j] \in Targets
    BY <1>3, <2>1
  <2>3. QED
    BY <1>5, <2>2
<1>7. \A j \in 1..m : part[j] = path[i + j - 1].node
  OBVIOUS
<1> HIDE DEF part
<1>8. path[i].node \in Targets
  BY <1>2, <1>3
<1>9. /\ Len(cycle') = m + 1 /\ cycle'[m + 1] = path[i].node
      /\ \A j \in 1..m : cycle'[j] = path[i + j - 1].node
  <2>1. /\ Len(cycle') = m + 1 /\ cycle'[m + 1] = path[i].node
        /\ \A j \in 1..m : cycle'[j] = part[j]
    BY <1>4, <1>5, <1>6, <1>8
  <2>2. QED
    BY <1>7, <2>1
<1>10. cycle'[1] = cycle'[Len(cycle')]
  BY <1>2, <1>3, <1>5, <1>9
<1>11. ASSUME NEW k \in 1..m PROVE cycle'[k + 1] \in Needs(cycle'[k])
  <2>1. CASE k = m
    <3>1. i + k - 1 = n
      BY <1>2, <1>3, <2>1
    <3>2. QED
      BY <1>2, <1>3, <1>9, <2>1, <3>1
  <2>2. CASE k # m
    <3>1. k + 1 \in 1..m
      BY <1>5, <2>2
    <3>2. i + k - 1 \in 1..n /\ (i + k - 1) + 1 \in 1..n /\ i + (k + 1) - 1 = (i + k - 1) + 1
      BY <1>2, <1>3, <1>5, <3>1
    <3>3. path[(i + k - 1) + 1].node \in Needs(path[i + k - 1].node)
      BY <1>3, <3>2 DEF SearchOK, StackOK
    <3>4. QED
      BY <1>9, <3>1, <3>2, <3>3
  <2>3. QED
    BY <2>1, <2>2
<1>12. \A u : Needs(u)' = Needs(u)
  BY <1>1 DEF Needs
<1>13. QED
  BY <1>5, <1>9, <1>10, <1>11, <1>12 DEF RealCycle

\* When the search is over every target is black.
LEMMA AcceptOK == SearchOK /\ Accept => Black = Targets
<1> SUFFICES ASSUME SearchOK, Accept, NEW t \in Targets PROVE color[t] = "black"
  BY DEF Black
<1>1. path = <<>> /\ Roots = {}
  BY DEF Accept
<1>2. PICK i \in 1..N : Declared[i] = t
  BY DslAssumption
<1>3. color[t] # "white"
  BY <1>1, <1>2 DEF Roots
<1>4. color[t] # "gray"
  BY <1>1 DEF SearchOK, StackOK
<1>5. QED
  BY <1>3, <1>4 DEF SearchOK, TypesOK

LEMMA GateNext == GateInv /\ [Next]_vars => GateInv'
<1> SUFFICES ASSUME GateInv, [Next]_vars PROVE GateInv'
  OBVIOUS
<1>1. SearchOK /\ OutcomeOK
  BY DEF GateInv
<1>2. ASSUME UNCHANGED <<requires, color, path>> PROVE SearchOK' /\ Black' = Black
  <2>1. Black' = Black /\ \A u : Needs(u)' = Needs(u)
    BY <1>2 DEF Black, Needs
  <2>2. QED
    BY <1>1, <1>2, <2>1 DEF SearchOK, TypesOK, StackOK, AheadOK, BlackOK, Acyclic
<1>3. ASSUME SearchOK', pc' = "checking", UNCHANGED <<cycle, exit, requires>>
      PROVE  GateInv'
  BY <1>1, <1>3 DEF GateInv, OutcomeOK, RealCycle, Needs
<1>4. CASE StartSearch
  BY <1>1, <1>3, <1>4, StartOK DEF StartSearch
<1>5. CASE Descend
  BY <1>1, <1>3, <1>5, DescendOK DEF Descend, Looking
<1>6. CASE PassBy
  BY <1>1, <1>3, <1>6, PassByOK DEF PassBy, Looking
<1>7. CASE Leave
  BY <1>1, <1>3, <1>7, LeaveOK DEF Leave
<1>8. CASE FindCycle
  <2>1. SearchOK' /\ RealCycle' /\ pc' = "exited"
    BY <1>1, <1>2, <1>8, FindCycleOK DEF FindCycle
  <2>2. QED
    BY <2>1 DEF GateInv, OutcomeOK
<1>9. CASE Accept
  <2>1. SearchOK' /\ Black' = Targets
    BY <1>1, <1>2, <1>9, AcceptOK DEF Accept, check
  <2>2. UNCHANGED <<cycle, exit, requires>>
    BY <1>9 DEF Accept, check
  <2>3. QED
    BY <1>1, <2>1, <2>2 DEF GateInv, OutcomeOK, RealCycle, Needs
<1>10. ASSUME UNCHANGED <<requires, check>>,
              pc' \in {"sorting", "compiling"} => pc \in {"sorting", "compiling"},
              exit' = 2 => exit = 2
       PROVE  GateInv'
  <2>1. SearchOK' /\ Black' = Black
    BY <1>2, <1>10 DEF check
  <2>2. RealCycle => RealCycle'
    BY <1>10 DEF RealCycle, Needs, check
  <2>3. QED
    BY <1>1, <1>10, <2>1, <2>2 DEF GateInv, OutcomeOK
<1>11. CASE Place \/ StartCompiling \/ CompileRaises
  BY <1>10, <1>11 DEF Place, StartCompiling, CompileRaises
<1>12. CASE (\E done \in BOOLEAN : Compile(done)) \/ Report
  <2>1. UNCHANGED <<requires, check>> /\ pc = "compiling"
    BY <1>12 DEF Compile, Report
  <2>2. exit' = exit \/ exit' \in {0, 1}
    BY <1>12 DEF Compile, Report
  <2>3. QED
    BY <1>10, <2>1, <2>2
<1>13. CASE Exited \/ UNCHANGED vars
  BY <1>10, <1>13 DEF Exited, vars
<1>14. QED
  BY <1>4, <1>5, <1>6, <1>7, <1>8, <1>9, <1>11, <1>12, <1>13 DEF Next, Step

\* The depth-first search, at each of its steps.
THEOREM GateInvariant == Spec => []GateInv
BY GateInit, GateNext, PTL DEF Spec

\* The cycle check refuses cycles and nothing else.
THEOREM OnlyCyclesAreRefusedAlways == Spec => []OnlyCyclesAreRefused
<1>1. GateInv => OnlyCyclesAreRefused
  <2> SUFFICES ASSUME GateInv PROVE CycleIsReal /\ AcceptedIsAcyclic
    BY DEF OnlyCyclesAreRefused
  <2>1. CycleIsReal
    BY DEF GateInv, OutcomeOK, RealCycle, CycleIsReal
  <2>2. OrderFixed => Acyclic(Targets)
    BY DEF GateInv, OutcomeOK, OrderFixed, SearchOK, BlackOK
  <2>3. ASSUME OrderFixed, NEW S \in (SUBSET Targets) \ {{}}
        PROVE  \E t \in S : Needs(t) \cap S = {}
    BY <2>2, <2>3 DEF Acyclic
  <2>4. AcceptedIsAcyclic
    BY <2>3, Zenon DEF AcceptedIsAcyclic
  <2>5. QED
    BY <2>1, <2>4
<1>2. QED
  BY <1>1, GateInvariant, PTL
-----------------------------------------------------------------------------
(* Kahn's algorithm.  The targets placed and those in the queue stand in   *)
(* one line, which only grows at its end.                                  *)

Line == order \o queue

\* Where the list of d names a target that is not placed yet.
Waits(d) == {i \in DOMAIN requires[d] : requires[d][i] \notin Listed(order)}

Distinct(s) == \A i, j \in DOMAIN s : s[i] = s[j] => i = j

\* A target is in line when nothing it requires is still to be placed.
LineOK ==
  /\ order \in Seq(Targets) /\ queue \in Seq(Targets)
  /\ Distinct(Line)
  /\ degree = [d \in Targets |-> Cardinality(Waits(d))]
  /\ \A d \in Targets : d \in Listed(Line) <=> Needs(d) \subseteq Listed(order)
  /\ \A i \in DOMAIN order : Needs(order[i]) \subseteq {order[j] : j \in 1..(i - 1)}

\* What was compiled is what the order begins with.
ResultsOK ==
  /\ results \in Seq([target : Targets, success : BOOLEAN])
  /\ Len(results) <= Len(order)
  /\ \A i \in DOMAIN results : results[i].target = order[i]

AllCompiled ==
  /\ Len(results) = Len(order)
  /\ \A i \in DOMAIN results : results[i].success

OrderInv ==
  /\ pc = "checking" => order = <<>> /\ results = <<>>
  /\ pc = "sorting" => LineOK /\ results = <<>>
  /\ pc = "compiling" => LineOK /\ queue = <<>> /\ ResultsOK
  /\ pc = "exited" /\ exit = 0 =>
       LineOK /\ queue = <<>> /\ ResultsOK /\ AllCompiled /\ Black = Targets

\* Any set of targets has its members in the order of their names.
LEMMA SortedExists ==
  ASSUME NEW S \in SUBSET Targets
  PROVE  \E s \in [1..Cardinality(S) -> S] :
           \A i, j \in 1..Cardinality(S) : i < j => s[i] < s[j]
<1> DEFINE n == Cardinality(S)
           Below(t) == {u \in S : u <= t}
           rank == [t \in S |-> Cardinality(Below(t))]
<1>1. IsFiniteSet(S) /\ n \in Nat /\ S \subseteq Nat
  <2>1. IsFiniteSet(1..N) /\ 1..N \subseteq Nat
    <3>1. 1 \in Int /\ N \in Int
      BY DslAssumption
    <3>2. QED
      BY <3>1, FS_Interval
  <2>2. IsFiniteSet(S)
    BY <2>1, FS_Subset DEF Targets
  <2>3. QED
    BY <2>1, <2>2, FS_CardinalityType DEF Targets
<1>2. ASSUME NEW t \in S
      PROVE  /\ IsFiniteSet(Below(t)) /\ Cardinality(Below(t)) \in Nat
             /\ Cardinality(Below(t)) <= n /\ Cardinality(Below(t)) # 0
  <2>1. Below(t) \in SUBSET S /\ t \in Below(t)
    BY <1>1
  <2>2. IsFiniteSet(Below(t)) /\ Cardinality(Below(t)) <= n
    BY <1>1, <2>1, FS_Subset
  <2>3. Cardinality(Below(t)) \in Nat
    BY <2>2, FS_CardinalityType
  <2>4. Cardinality(Below(t)) # 0
    BY <2>1, <2>2, FS_EmptySet
  <2>5. QED
    BY <2>2, <2>3, <2>4
<1>3. ASSUME NEW t \in S, NEW u \in S, t < u PROVE rank[t] < rank[u]
  <2>1. Below(t) \in SUBSET Below(u) /\ u \in Below(u) /\ u \notin Below(t)
    <3>1. t \in Nat /\ u \in Nat
      BY <1>1
    <3>2. \A v \in S : v \in Nat /\ (v <= t => v <= u)
      BY <1>1, <1>3, <3>1
    <3>3. u <= u /\ ~(u <= t)
      BY <1>3, <3>1
    <3>4. QED
      BY <3>2, <3>3
  <2>2. Cardinality(Below(t)) <= Cardinality(Below(u))
        /\ (Cardinality(Below(u)) = Cardinality(Below(t)) => Below(u) = Below(t))
    BY <1>2, <2>1, FS_Subset
  <2>3. Cardinality(Below(t)) < Cardinality(Below(u))
    BY <1>2, <2>1, <2>2
  <2>4. QED
    BY <2>3
<1>4. rank \in [S -> 1..n]
  BY <1>1, <1>2
<1> HIDE DEF rank
<1>5. rank \in Injection(S, 1..n)
  <2>1. ASSUME NEW t \in S, NEW u \in S, rank[t] = rank[u] PROVE t = u
    BY <1>1, <1>3, <1>4, <2>1
  <2>2. QED
    BY <1>4, <2>1 DEF Injection, IsInjective
<1>6. rank \in Surjection(S, 1..n)
  <2>1. IsFiniteSet(1..n) /\ Cardinality(1..n) = n
    BY <1>1, FS_Interval
  <2>2. QED
    BY <1>1, <1>5, <2>1, FS_Injection
<1>7. \A i \in 1..n : \E t \in S : rank[t] = i
  BY <1>6 DEF Surjection
<1> DEFINE s == [i \in 1..n |-> CHOOSE t \in S : rank[t] = i]
<1>8. \A i \in 1..n : s[i] \in S /\ rank[s[i]] = i
  BY <1>7
<1>9. s \in [1..n -> S]
  BY <1>8
<1> HIDE DEF s
<1>10. ASSUME NEW i \in 1..n, NEW j \in 1..n, i < j PROVE s[i] < s[j]
  <2>1. s[i] \in S /\ s[j] \in S /\ rank[s[i]] = i /\ rank[s[j]] = j
    BY <1>8
  <2>2. s[j] < s[i] => j < i
    BY <1>3, <2>1
  <2>3. s[j] = s[i] => j = i
    BY <2>1
  <2>4. s[i] \in Nat /\ s[j] \in Nat
    BY <1>1, <2>1
  <2>5. i \in Int /\ j \in Int /\ ~(j < i) /\ i # j
    <3>1. \A k \in 1..n : k \in Int
      BY <1>1
    <3>2. i \in Int /\ j \in Int
      BY <3>1
    <3>3. QED
      BY <1>10, <3>2
  <2>6. QED
    BY <2>2, <2>3, <2>4, <2>5
<1>11. QED
  BY <1>9, <1>10

LEMMA SortedIs ==
  ASSUME NEW S \in SUBSET Targets
  PROVE  /\ Sorted(S) \in Seq(Targets) /\ Distinct(Sorted(S))
         /\ Listed(Sorted(S)) = S
<1> DEFINE n == Cardinality(S)
           s == Sorted(S)
<1>1. n \in Nat /\ IsFiniteSet(S) /\ S \subseteq Nat
  <2>1. IsFiniteSet(1..N) /\ 1..N \subseteq Nat
    <3>1. 1 \in Int /\ N \in Int
      BY DslAssumption
    <3>2. QED
      BY <3>1, FS_Interval
  <2>2. IsFiniteSet(S)
    BY <2>1, FS_Subset DEF Targets
  <2>3. QED
    BY <2>1, <2>2, FS_CardinalityType DEF Targets
<1>2. s \in [1..n -> S] /\ \A i, j \in 1..n : i < j => s[i] < s[j]
  BY SortedExists DEF Sorted
<1> HIDE DEF s
<1>3. s \in Seq(Targets)
  <2>1. s \in [1..n -> Targets]
    BY <1>2
  <2>2. QED
    BY <1>1, <2>1
<1>4. \A i, j \in 1..n : s[i] = s[j] => i = j
  <2>1. \A i, j \in 1..n : s[i] \in Nat /\ s[j] \in Nat
    BY <1>1, <1>2
  <2>2. QED
    BY <1>1, <1>2, <2>1
<1>5. s \in Surjection(1..n, S)
  <2>1. s \in Injection(1..n, S)
    BY <1>2, <1>4 DEF Injection, IsInjective
  <2>2. IsFiniteSet(1..n) /\ Cardinality(1..n) = n
    BY <1>1, FS_Interval
  <2>3. QED
    BY <1>1, <2>1, <2>2, FS_Injection
<1>6. Listed(s) = S
  BY <1>2, <1>5 DEF Listed, Surjection
<1>7. Distinct(s)
  BY <1>2, <1>4 DEF Distinct
<1>8. QED
  BY <1>3, <1>6, <1>7 DEF s

LEMMA ListedConcat ==
  ASSUME NEW s \in Seq(Targets), NEW r \in Seq(Targets)
  PROVE  /\ s \o r \in Seq(Targets) /\ Listed(s \o r) = Listed(s) \cup Listed(r)
         /\ Distinct(s \o r)
              <=> Distinct(s) /\ Distinct(r) /\ Listed(s) \cap Listed(r) = {}
<1> DEFINE q == s \o r
           m == Len(s)
           n == Len(r)
<1>1. /\ m \in Nat /\ n \in Nat /\ DOMAIN s = 1..m /\ DOMAIN r = 1..n
      /\ q \in Seq(Targets) /\ DOMAIN q = 1..(m + n)
      /\ \A i \in 1..m : q[i] = s[i]
      /\ \A i \in 1..n : q[m + i] = r[i]
  OBVIOUS
<1> HIDE DEF q, m, n
<1>2. \A i \in 1..(m + n) : i \in 1..m \/ \E j \in 1..n : i = m + j
  <2>1. ASSUME NEW i \in 1..(m + n), i \notin 1..m PROVE i - m \in 1..n /\ i = m + (i - m)
    BY <1>1, <2>1
  <2>2. QED
    BY <2>1
<1>3. \A i \in 1..m : i \in 1..(m + n)
  BY <1>1
<1>4. \A j \in 1..n : m + j \in 1..(m + n)
  BY <1>1
<1>5. ASSUME NEW x PROVE x \in Listed(q) <=> x \in Listed(s) \cup Listed(r)
  <2>1. ASSUME x \in Listed(q) PROVE x \in Listed(s) \cup Listed(r)
    <3>1. PICK i \in 1..(m + n) : x = q[i]
      BY <1>1, <2>1 DEF Listed
    <3>2. CASE i \in 1..m
      BY <1>1, <3>1, <3>2 DEF Listed
    <3>3. CASE \E j \in 1..n : i = m + j
      BY <1>1, <3>1, <3>3 DEF Listed
    <3>4. QED
      BY <1>2, <3>2, <3>3
  <2>2. x \in Listed(s) => x \in Listed(q)
    BY <1>1, <1>3 DEF Listed
  <2>3. x \in Listed(r) => x \in Listed(q)
    BY <1>1, <1>4 DEF Listed
  <2>4. QED
    BY <2>1, <2>2, <2>3
<1>6. Distinct(q) => Distinct(s) /\ Distinct(r) /\ Listed(s) \cap Listed(r) = {}
  <2> SUFFICES ASSUME Distinct(q)
               PROVE  Distinct(s) /\ Distinct(r) /\ Listed(s) \cap Listed(r) = {}
    OBVIOUS
  <2>1. Distinct(s)
    BY <1>1, <1>3 DEF Distinct
  <2>2. Distinct(r)
    <3> SUFFICES ASSUME NEW i \in 1..n, NEW j \in 1..n, r[i] = r[j] PROVE i = j
      BY <1>1 DEF Distinct
    <3>1. q[m + i] = q[m + j] /\ m + i \in DOMAIN q /\ m + j \in DOMAIN q
      BY <1>1, <1>4
    <3>2. m + i = m + j
      BY <3>1 DEF Distinct
    <3>3. QED
      BY <1>1, <3>2
  <2>3. ASSUME NEW i \in 1..m, NEW j \in 1..n PROVE s[i] # r[j]
    <3>1. i # m + j /\ i \in DOMAIN q /\ m + j \in DOMAIN q
      BY <1>1, <1>3, <1>4
    <3>2. q[i] # q[m + j]
      BY <3>1 DEF Distinct
    <3>3. QED
      BY <1>1, <3>2
  <2>4. QED
    BY <1>1, <2>1, <2>2, <2>3 DEF Listed
<1>7. ASSUME Distinct(s), Distinct(r), Listed(s) \cap Listed(r) = {} PROVE Distinct(q)
  <2> SUFFICES ASSUME NEW i \in 1..(m + n), NEW j \in 1..(m + n), q[i] = q[j] PROVE i = j
    BY <1>1 DEF Distinct
  <2>1. \A a \in 1..m, b \in 1..n : s[a] # r[b]
    BY <1>1, <1>7 DEF Listed
  <2>2. CASE i \in 1..m /\ j \in 1..m
    BY <1>1, <1>7, <2>2 DEF Distinct
  <2>3. CASE i \in 1..m /\ j \notin 1..m
    <3>1. PICK b \in 1..n : j = m + b
      BY <1>2, <2>3
    <3>2. q[i] = s[i] /\ q[j] = r[b]
      BY <1>1, <2>3, <3>1
    <3>3. QED
      BY <2>1, <2>3, <3>2
  <2>4. CASE i \notin 1..m /\ j \in 1..m
    <3>1. PICK b \in 1..n : i = m + b
      BY <1>2, <2>4
    <3>2. q[j] = s[j] /\ q[i] = r[b]
      BY <1>1, <2>4, <3>1
    <3>3. QED
      BY <2>1, <2>4, <3>2
  <2>5. CASE i \notin 1..m /\ j \notin 1..m
    <3>1. PICK a \in 1..n, b \in 1..n : i = m + a /\ j = m + b
      BY <1>2, <2>5
    <3>2. r[a] = r[b]
      <4>1. q[i] = r[a] /\ q[j] = r[b]
        BY <1>1, <3>1
      <4>2. QED
        BY <4>1
    <3>3. a = b
      BY <1>1, <1>7, <3>2 DEF Distinct
    <3>4. QED
      BY <3>1, <3>3
  <2>6. QED
    BY <2>2, <2>3, <2>4, <2>5
<1>8. Listed(q) = Listed(s) \cup Listed(r)
  BY <1>5
<1>9. QED
  BY <1>1, <1>6, <1>7, <1>8 DEF q

LEMMA LineAccept ==
  SearchOK /\ order = <<>> /\ results = <<>> /\ Accept => LineOK' /\ results' = <<>>
<1> SUFFICES ASSUME SearchOK, order = <<>>, results = <<>>, Accept
             PROVE  LineOK' /\ results' = <<>>
  OBVIOUS
<1> DEFINE first == {t \in Targets : requires[t] = <<>>}
<1>1. /\ requires' = requires /\ order' = <<>> /\ results' = <<>> /\ queue' = Sorted(first)
      /\ degree' = [t \in Targets |-> Len(requires[t])]
  BY DEF Accept
<1>2. queue' \in Seq(Targets) /\ Distinct(queue') /\ Listed(queue') = first
  <2>1. first \in SUBSET Targets
    OBVIOUS
  <2>2. QED
    BY <1>1, <2>1, SortedIs
<1>3. Line' = queue'
  BY <1>1, <1>2 DEF Line
<1>4. requires \in [Targets -> Seq(Targets)]
  BY DEF SearchOK, TypesOK
<1>5. Listed(order') = {}
  BY <1>1 DEF Listed
<1>6. ASSUME NEW d \in Targets PROVE Cardinality(Waits(d)') = Len(requires[d])
  <2>1. Len(requires[d]) \in Nat /\ DOMAIN requires[d] = 1..Len(requires[d])
    BY <1>4
  <2>2. Waits(d)' = 1..Len(requires[d])
    BY <1>1, <1>5, <2>1 DEF Waits
  <2>3. Cardinality(1..Len(requires[d])) = Len(requires[d])
    BY <2>1, FS_Interval
  <2>4. QED
    BY <2>2, <2>3
<1>7. ASSUME NEW d \in Targets PROVE d \in Listed(Line') <=> Needs(d)' \subseteq Listed(order')
  <2>1. requires[d] \in Seq(Targets)
    BY <1>4
  <2>2. Needs(d)' = {} <=> requires[d] = <<>>
    <3>1. DOMAIN requires[d] = {} <=> requires[d] = <<>>
      <4>1. /\ Len(requires[d]) \in Nat /\ DOMAIN requires[d] = 1..Len(requires[d])
            /\ Len(requires[d]) = 0 <=> requires[d] = <<>>
        BY <2>1
      <4>2. \A n \in Nat : 1..n = {} <=> n = 0
        <5>1. \A n \in Nat : n # 0 => 1 \in 1..n
          OBVIOUS
        <5>2. 1..0 = {}
          OBVIOUS
        <5>3. QED
          BY <5>1, <5>2
      <4>3. QED
        BY <4>1, <4>2
    <3>2. Needs(d)' = {requires[d][i] : i \in DOMAIN requires[d]}
      BY <1>1 DEF Needs
    <3>3. QED
      BY <3>1, <3>2
  <2>3. QED
    BY <1>2, <1>3, <1>5, <2>2
<1>8. degree' = [d \in Targets |-> Cardinality(Waits(d)')]
  BY <1>1, <1>6
<1>9. DOMAIN order' = {} /\ order' \in Seq(Targets)
  BY <1>1
<1>10. Distinct(Line')
  BY <1>2, <1>3
<1>11. QED
  BY <1>1, <1>2, <1>7, <1>8, <1>9, <1>10 DEF LineOK, Distinct, Listed

\* A target is released when the one that is placed is all it still waits for.
LEMMA ReleasedIs ==
  ASSUME SearchOK, LineOK, NEW h \in Targets, h \notin Listed(order), NEW d \in Targets
  PROVE  /\ degree[d] - Times(d, h)
              = Cardinality({i \in DOMAIN requires[d] :
                               requires[d][i] \notin Listed(order) \cup {h}})
         /\ d \in Released(h)
              <=> h \in Needs(d) /\ Needs(d) \subseteq Listed(order) \cup {h}
<1> DEFINE D == DOMAIN requires[d]
           At == {i \in D : requires[d][i] = h}
           Left == {i \in D : requires[d][i] \notin Listed(order) \cup {h}}
<1>1. IsFiniteSet(D)
  <2>1. requires[d] \in Seq(Targets)
    BY DEF SearchOK, TypesOK
  <2>2. D = 1..Len(requires[d]) /\ 1 \in Int /\ Len(requires[d]) \in Int
    BY <2>1
  <2>3. QED
    BY <2>2, FS_Interval
<1>2. degree[d] = Cardinality(Waits(d)) /\ Times(d, h) = Cardinality(At)
  BY DEF LineOK, Times
<1>3. At \in SUBSET Waits(d) /\ Waits(d) \in SUBSET D
  BY DEF Waits
<1>4. IsFiniteSet(Waits(d)) /\ IsFiniteSet(At)
  BY <1>1, <1>3, FS_Subset
<1>5. Cardinality(Waits(d)) \in Nat /\ Cardinality(At) \in Nat
  BY <1>4, FS_CardinalityType
<1>6. Waits(d) \ At = Left /\ Waits(d) \cap At = At
  BY <1>3 DEF Waits
<1>7. Cardinality(Left) = Cardinality(Waits(d)) - Cardinality(At)
  <2>1. Cardinality(Waits(d) \ At)
          = Cardinality(Waits(d)) - Cardinality(Waits(d) \cap At)
    BY <1>4, FS_Difference
  <2>2. QED
    BY <1>6, <2>1
<1>8. Cardinality(Waits(d)) = Cardinality(At) <=> Waits(d) = At
  BY <1>3, <1>4, FS_Subset
<1>9. Waits(d) = At <=> Needs(d) \subseteq Listed(order) \cup {h}
  BY DEF Waits, Needs
<1>10. d \in Released(h) <=> h \in Needs(d) /\ degree[d] = Times(d, h)
  BY DEF Released
<1>11. QED
  BY <1>2, <1>7, <1>8, <1>9, <1>10

\* The line grows at its end, by what is released.
LEMMA LineGrows ==
  ASSUME LineOK, Place
  PROVE  LET h == Head(queue) IN
           /\ h \in Targets /\ h \notin Listed(order)
           /\ order' = Append(order, h) /\ Listed(order') = Listed(order) \cup {h}
           /\ order' \in Seq(Targets) /\ queue' \in Seq(Targets)
           /\ Line' = Line \o Sorted(Released(h))
           /\ Listed(Line) = Listed(order) \cup Listed(queue) /\ Line \in Seq(Targets)
           /\ Len(order) + 1 \in DOMAIN Line /\ Line[Len(order) + 1] = h
           /\ \A i \in DOMAIN order : Line[i] = order[i] /\ i \in DOMAIN Line
<1> DEFINE h == Head(queue)
           rest == Tail(queue)
           new == Sorted(Released(h))
<1>1. queue # <<>> /\ order' = Append(order, h) /\ queue' = rest \o new
  BY DEF Place, Enqueued
<1>2. order \in Seq(Targets) /\ queue \in Seq(Targets) /\ Distinct(Line)
  BY DEF LineOK
<1>3. h \in Targets /\ rest \in Seq(Targets) /\ queue = <<h>> \o rest /\ queue[1] = h
  BY <1>1, <1>2
<1>4. new \in Seq(Targets)
  <2>1. Released(h) \in SUBSET Targets
    BY DEF Released
  <2>2. QED
    BY <2>1, SortedIs
<1>5. /\ Len(order) + 1 \in DOMAIN Line /\ Line[Len(order) + 1] = h
      /\ \A i \in DOMAIN order : Line[i] = order[i] /\ i \in DOMAIN Line
  BY <1>1, <1>2, <1>3 DEF Line
<1> HIDE DEF h, rest, new
<1>6. <<h>> \in Seq(Targets) /\ Listed(<<h>>) = {h} /\ order' = order \o <<h>>
  BY <1>1, <1>2, <1>3 DEF Listed
<1>7. Listed(queue) = {h} \cup Listed(rest) /\ Listed(order') = Listed(order) \cup {h}
  BY <1>2, <1>3, <1>6, ListedConcat
<1>8. h \notin Listed(order)
  BY <1>2, <1>7, ListedConcat DEF Line
<1>9. Line' = Line \o new
  <2>1. Line' = (order \o <<h>>) \o (rest \o new)
    BY <1>1, <1>6 DEF Line
  <2>2. Line = order \o (<<h>> \o rest)
    BY <1>3 DEF Line
  <2>3. (order \o <<h>>) \o (rest \o new) = ((order \o <<h>>) \o rest) \o new
    <3>1. order \o <<h>> \in Seq(Targets) /\ rest \in Seq(Targets) /\ new \in Seq(Targets)
      BY <1>2, <1>3, <1>4, <1>6
    <3>2. QED
      BY ONLY <3>1, ConcatAssociative
  <2>4. (order \o <<h>>) \o rest = order \o (<<h>> \o rest)
    BY <1>2, <1>3, <1>6, ConcatAssociative
  <2>5. QED
    BY <2>1, <2>2, <2>3, <2>4
<1>10. Line \in Seq(Targets) /\ Listed(Line) = Listed(order) \cup Listed(queue)
  BY <1>2, ListedConcat DEF Line
<1>11. order' \in Seq(Targets) /\ queue' \in Seq(Targets)
  BY <1>1, <1>2, <1>3, <1>4
<1>12. QED
  BY <1>1, <1>3, <1>5, <1>7, <1>8, <1>9, <1>10, <1>11 DEF h, new

LEMMA LinePlace == SearchOK /\ LineOK /\ Place => LineOK'
<1> SUFFICES ASSUME SearchOK, LineOK, Place PROVE LineOK'
  OBVIOUS
<1> DEFINE h == Head(queue)
           new == Sorted(Released(h))
<1>1. /\ requires' = requires
      /\ degree' = [d \in Targets |-> degree[d] - Times(d, h)]
  BY DEF Place
<1>2. order \in Seq(Targets) /\ queue \in Seq(Targets) /\ Distinct(Line)
  BY DEF LineOK
<1>3. new \in Seq(Targets) /\ Distinct(new) /\ Listed(new) = Released(h)
  <2>1. Released(h) \in SUBSET Targets
    BY DEF Released
  <2>2. QED
    BY <2>1, SortedIs
<1>4. /\ h \in Targets /\ h \notin Listed(order)
      /\ order' = Append(order, h) /\ Listed(order') = Listed(order) \cup {h}
      /\ order' \in Seq(Targets) /\ queue' \in Seq(Targets)
      /\ Line' = Line \o new
      /\ Listed(Line) = Listed(order) \cup Listed(queue) /\ Line \in Seq(Targets)
      /\ Len(order) + 1 \in DOMAIN Line /\ Line[Len(order) + 1] = h
  BY LineGrows
<1> HIDE DEF h, new
<1>5. ASSUME NEW d \in Targets
      PROVE  /\ degree[d] - Times(d, h) = Cardinality(Waits(d)')
             /\ d \in Released(h)
                  <=> h \in Needs(d) /\ Needs(d) \subseteq Listed(order')
  <2>1. Waits(d)' = {i \in DOMAIN requires[d] : requires[d][i] \notin Listed(order')}
    BY <1>1 DEF Waits, Listed
  <2>2. /\ degree[d] - Times(d, h)
              = Cardinality({i \in DOMAIN requires[d] :
                               requires[d][i] \notin Listed(order) \cup {h}})
        /\ d \in Released(h)
              <=> h \in Needs(d) /\ Needs(d) \subseteq Listed(order) \cup {h}
    BY <1>4, ReleasedIs
  <2>3. QED
    BY <1>4, <2>1, <2>2
<1>6. \A d \in Targets : d \in Listed(Line) <=> Needs(d) \subseteq Listed(order)
  BY DEF LineOK
<1>7. Listed(Line) \cap Released(h) = {}
  <2>1. \A d \in Released(h) : d \in Targets
    BY DEF Released
  <2>2. QED
    BY <1>4, <1>5, <1>6, <2>1
<1>8. Listed(Line') = Listed(Line) \cup Released(h) /\ Distinct(Line')
  BY <1>2, <1>3, <1>4, <1>7, ListedConcat
<1>9. \A u : Needs(u)' = Needs(u)
  BY <1>1 DEF Needs
<1>10. \A d \in Targets : d \in Listed(Line') <=> Needs(d)' \subseteq Listed(order')
  BY <1>4, <1>5, <1>6, <1>8, <1>9
<1>11. ASSUME NEW i \in DOMAIN order'
       PROVE  Needs(order'[i]) \subseteq {order'[j] : j \in 1..(i - 1)}
  <2>1. /\ Len(order) \in Nat /\ DOMAIN order' = 1..(Len(order) + 1)
        /\ order'[Len(order) + 1] = h /\ DOMAIN order = 1..Len(order)
        /\ \A j \in 1..Len(order) : order'[j] = order[j]
    BY <1>2, <1>4
  <2>2. CASE i = Len(order) + 1
    <3>1. Needs(h) \subseteq Listed(order)
      <4>1. h \in Listed(Line)
        BY <1>4 DEF Listed
      <4>2. QED
        BY <1>4, <1>6, <4>1
    <3>2. Listed(order) = {order'[j] : j \in 1..Len(order)}
      BY <2>1 DEF Listed
    <3>3. i - 1 = Len(order) /\ order'[i] = h
      BY <2>1, <2>2
    <3>4. QED
      BY <3>1, <3>2, <3>3
  <2>3. CASE i # Len(order) + 1
    <3>1. i \in 1..Len(order) /\ \A j \in 1..(i - 1) : j \in 1..Len(order)
      BY <2>1, <2>3
    <3>2. Needs(order[i]) \subseteq {order[j] : j \in 1..(i - 1)}
      BY <2>1, <3>1 DEF LineOK
    <3>3. {order'[j] : j \in 1..(i - 1)} = {order[j] : j \in 1..(i - 1)}
      BY <2>1, <3>1
    <3>4. QED
      BY <2>1, <3>1, <3>2, <3>3
  <2>4. QED
    BY <2>2, <2>3
<1>12. degree' = [d \in Targets |-> Cardinality(Waits(d)')]
  BY <1>1, <1>5
<1>13. (\A i \in DOMAIN order : Needs(order[i]) \subseteq {order[j] : j \in 1..(i - 1)})'
  <2>1. \A u : {requires'[u][k] : k \in DOMAIN requires'[u]} = Needs(u)
    BY <1>1 DEF Needs
  <2>2. QED
    BY <1>11, <2>1 DEF Needs
<1>14. QED
  BY <1>4, <1>8, <1>10, <1>12, <1>13 DEF LineOK, Distinct, Listed

\* Nothing is left when the queue is empty: what is left over would wait for
\* itself.
LEMMA NothingLeft ==
  ASSUME SearchOK, Black = Targets, LineOK, queue = <<>>
  PROVE  Listed(order) = Targets /\ Len(order) = N
<1>1. order \in Seq(Targets) /\ Distinct(order) /\ Line = order
  <2>1. order \in Seq(Targets) /\ Distinct(Line)
    BY DEF LineOK
  <2>2. Line = order
    BY <2>1 DEF Line
  <2>3. QED
    BY <2>1, <2>2
<1>2. Listed(order) \subseteq Targets
  BY <1>1 DEF Listed
<1>3. Listed(order) = Targets
  <2> DEFINE S == Targets \ Listed(order)
  <2> SUFFICES ASSUME S # {} PROVE FALSE
    BY <1>2
  <2>1. PICK t \in S : Needs(t) \cap S = {}
    BY DEF SearchOK, BlackOK, Acyclic
  <2>2. Needs(t) \subseteq Targets
    BY <2>1, NeedsTargets DEF SearchOK
  <2>3. Needs(t) \subseteq Listed(order)
    BY <2>1, <2>2
  <2>4. t \in Listed(order)
    BY <1>1, <2>1, <2>3 DEF LineOK
  <2>5. QED
    BY <2>1, <2>4
<1>4. Len(order) = N
  <2> DEFINE n == Len(order)
  <2>1. n \in Nat /\ DOMAIN order = 1..n /\ order \in [1..n -> Targets]
    BY <1>1
  <2> HIDE DEF n
  <2>2. order \in Bijection(1..n, Targets)
    BY <1>1, <1>3, <2>1 DEF Distinct, Listed, Bijection, Injection, Surjection, IsInjective
  <2>3. ExistsBijection(1..n, Targets)
    BY <2>2 DEF ExistsBijection
  <2>4. Cardinality(Targets) = n
    BY <2>1, <2>3, FS_CountingElements
  <2>5. Cardinality(1..N) = N
    <3>1. N \in Int /\ 1 \in Int /\ ~(1 > N) /\ N - 1 + 1 = N
      BY DslAssumption
    <3>2. QED
      BY <3>1, FS_Interval
  <2>6. QED
    BY <2>4, <2>5 DEF Targets, n
<1>5. QED
  BY <1>3, <1>4

LEMMA CompileOK ==
  ASSUME NEW done \in BOOLEAN, LineOK, ResultsOK, Compile(done)
  PROVE  ResultsOK'
<1> DEFINE k == Len(results) + 1
           new == [target |-> order[k], success |-> done]
<1>1. results' = Append(results, new) /\ order' = order /\ Len(results) < Len(order)
  BY DEF Compile, sort
<1>2. /\ results \in Seq([target : Targets, success : BOOLEAN])
      /\ order \in Seq(Targets) /\ Len(results) \in Nat /\ Len(order) \in Nat
      /\ \A i \in DOMAIN results : results[i].target = order[i]
  BY DEF ResultsOK, LineOK
<1>3. k \in 1..Len(order) /\ order[k] \in Targets
  BY <1>1, <1>2
<1> HIDE DEF k
<1>4. new \in [target : Targets, success : BOOLEAN] /\ new.target = order[k]
  BY <1>3
<1> HIDE DEF new
<1>5. /\ results' \in Seq([target : Targets, success : BOOLEAN])
      /\ Len(results') = k /\ results'[k] = new
      /\ \A i \in 1..Len(results) : results'[i] = results[i]
  BY <1>1, <1>2, <1>4 DEF k
<1>6. Len(results') <= Len(order')
  BY <1>1, <1>2, <1>5 DEF k
<1>7. ASSUME NEW i \in DOMAIN results' PROVE results'[i].target = order'[i]
  <2>1. i \in 1..k /\ (i = k \/ i \in 1..Len(results))
    BY <1>2, <1>5 DEF k
  <2>2. CASE i = k
    BY <1>1, <1>4, <1>5, <2>2
  <2>3. CASE i \in 1..Len(results)
    BY <1>1, <1>2, <1>5, <2>3
  <2>4. QED
    BY <2>1, <2>2, <2>3
<1>8. QED
  BY <1>5, <1>6, <1>7 DEF ResultsOK

LEMMA OrderInit == Init => OrderInv
BY DEF Init, OrderInv

LEMMA OrderNext == GateInv /\ OrderInv /\ [Next]_vars => OrderInv'
<1> SUFFICES ASSUME GateInv, OrderInv, [Next]_vars PROVE OrderInv'
  OBVIOUS
<1>1. SearchOK /\ (pc \in {"sorting", "compiling"} => Black = Targets)
  BY DEF GateInv, OutcomeOK
<1>2. ASSUME UNCHANGED <<requires, degree, queue, order>> PROVE LineOK => LineOK'
  <2> SUFFICES ASSUME LineOK PROVE LineOK'
    OBVIOUS
  <2>1. (\A u : Needs(u)' = Needs(u)) /\ (\A d : Waits(d)' = Waits(d)) /\ Line' = Line
    BY <1>2 DEF Needs, Waits, Line, Listed
  <2>2. (\A d \in Targets : d \in Listed(Line) <=> Needs(d) \subseteq Listed(order))'
    <3>1. \A d \in Targets : d \in Listed(Line) <=> Needs(d) \subseteq Listed(order)
      BY DEF LineOK
    <3>2. Listed(Line)' = Listed(Line) /\ Listed(order)' = Listed(order)
      BY <1>2 DEF Listed, Line
    <3>3. \A d \in Targets : Needs(d)' = Needs(d)
      BY <2>1
    <3>4. ASSUME NEW d \in Targets
          PROVE  d \in Listed(Line)' <=> Needs(d)' \subseteq Listed(order)'
      BY <3>1, <3>2, <3>3
    <3>5. QED
      BY <3>4
  <2>3. (\A i \in DOMAIN order : Needs(order[i]) \subseteq {order[j] : j \in 1..(i - 1)})'
    <3>1. \A i \in DOMAIN order : Needs(order[i]) \subseteq {order[j] : j \in 1..(i - 1)}
      BY DEF LineOK
    <3>2. QED
      BY <1>2, <3>1 DEF Needs
  <2>4. (Distinct(Line))' /\ degree' = [d \in Targets |-> Cardinality(Waits(d)')]
    BY <1>2, <2>1 DEF LineOK, Distinct
  <2>5. QED
    BY <1>2, <2>2, <2>3, <2>4 DEF LineOK
<1>3. ASSUME UNCHANGED <<results, order>> PROVE ResultsOK => ResultsOK'
  BY <1>3 DEF ResultsOK
<1>4. CASE StartSearch \/ Descend \/ PassBy \/ Leave
  <2>1. pc = "checking" /\ UNCHANGED <<pc, order, results>>
    BY <1>4 DEF StartSearch, Descend, PassBy, Leave, Looking, sort
  <2>2. QED
    BY <2>1 DEF OrderInv
<1>5. CASE FindCycle
  BY <1>5 DEF FindCycle, OrderInv
<1>6. CASE Accept
  <2>1. pc' = "sorting" /\ order = <<>> /\ results = <<>>
    BY <1>6 DEF Accept, OrderInv
  <2>2. QED
    BY <1>1, <1>6, <2>1, LineAccept DEF OrderInv
<1>7. CASE Place
  <2>1. pc = "sorting" /\ pc' = "sorting" /\ results' = results
    BY <1>7 DEF Place
  <2>2. QED
    BY <1>1, <1>7, <2>1, LinePlace DEF OrderInv
<1>8. CASE StartCompiling
  <2>1. /\ pc = "sorting" /\ pc' = "compiling" /\ queue' = <<>>
        /\ UNCHANGED <<requires, degree, queue, order, results>>
    BY <1>8 DEF StartCompiling, sort
  <2>2. LineOK' /\ results' = <<>>
    BY <1>2, <2>1 DEF OrderInv
  <2>3. order' \in Seq(Targets)
    BY <2>2 DEF LineOK
  <2>4. ResultsOK'
    BY <2>2, <2>3 DEF ResultsOK
  <2>5. QED
    BY <2>1, <2>2, <2>4 DEF OrderInv
<1>9. CASE \E done \in BOOLEAN : Compile(done)
  <2>1. PICK done \in BOOLEAN : Compile(done)
    BY <1>9
  <2>2. pc = "compiling" /\ UNCHANGED <<requires, pc, degree, queue, order>>
    BY <2>1 DEF Compile, sort
  <2>3. LineOK /\ queue = <<>> /\ ResultsOK
    BY <2>2 DEF OrderInv
  <2>4. QED
    BY <1>2, <2>1, <2>2, <2>3, CompileOK DEF OrderInv
<1>10. CASE CompileRaises
  BY <1>10 DEF CompileRaises, OrderInv
<1>11. CASE Report
  <2>1. /\ pc = "compiling" /\ pc' = "exited" /\ Len(results) = Len(order)
        /\ UNCHANGED <<requires, color, degree, queue, order, results>>
        /\ exit' = 0 => \A r \in Kept : r.success
    BY <1>11 DEF Report, sort, check
  <2>2. LineOK /\ queue = <<>> /\ ResultsOK /\ Black = Targets
    BY <1>1, <2>1 DEF OrderInv
  <2>3. LineOK' /\ ResultsOK' /\ Black' = Targets
    BY <1>2, <1>3, <2>1, <2>2 DEF Black
  <2>4. ASSUME exit' = 0, NEW i \in DOMAIN results PROVE results[i].success
    <3>1. results[i] \in Range(results)
      BY DEF Range
    <3>2. results[i] \notin Kept => results[i].success
      BY <3>1, Zenon DEF Kept
    <3>3. results[i] \in Kept => results[i].success
      BY <2>1, <2>4
    <3>4. QED
      BY <3>2, <3>3
  <2>5. exit' = 0 => AllCompiled'
    BY <2>1, <2>4 DEF AllCompiled
  <2>6. QED
    BY <2>1, <2>2, <2>3, <2>5 DEF OrderInv
<1>12. CASE Exited \/ UNCHANGED vars
  <2>1. UNCHANGED <<requires, color, degree, queue, order, results, pc, exit>>
    BY <1>12 DEF Exited, vars, sort, check
  <2>2. (LineOK => LineOK') /\ (ResultsOK => ResultsOK') /\ Black' = Black
    BY <1>2, <1>3, <2>1 DEF Black
  <2>3. AllCompiled => AllCompiled'
    BY <2>1 DEF AllCompiled
  <2>4. QED
    BY <2>1, <2>2, <2>3 DEF OrderInv
<1>13. QED
  BY <1>4, <1>5, <1>6, <1>7, <1>8, <1>9, <1>10, <1>11, <1>12 DEF Next, Step

\* The sort and the compile loop, at each of their steps.
THEOREM OrderInvariant == Spec => []OrderInv
BY GateInvariant, OrderInit, OrderNext, PTL DEF Spec

\* The build order holds every target once, each after all it requires, for
\* any acyclic requires lists, also where a list names a target twice.
THEOREM OrderIsTopologicalAlways == Spec => []OrderIsTopological
<1>1. GateInv /\ OrderInv => OrderIsTopological
  <2> SUFFICES ASSUME GateInv, OrderInv, OrderFixed
               PROVE  /\ Len(order) = N /\ Range(order) = Targets
                      /\ \A i \in 1..N : Needs(order[i]) \subseteq {order[j] : j \in 1..(i - 1)}
    BY DEF OrderIsTopological
  <2>1. LineOK /\ queue = <<>> /\ SearchOK /\ Black = Targets
    BY DEF OrderInv, GateInv, OutcomeOK, OrderFixed
  <2>2. Listed(order) = Targets /\ Len(order) = N
    BY <2>1, NothingLeft
  <2>3. order \in Seq(Targets)
    BY <2>1 DEF LineOK
  <2>4. DOMAIN order = 1..N /\ Range(order) = Listed(order)
    BY <2>2, <2>3 DEF Range, Listed
  <2>5. QED
    BY <2>1, <2>2, <2>4 DEF LineOK
<1>2. QED
  BY <1>1, GateInvariant, OrderInvariant, PTL

\* Exit code 0 means that every target, an optional one too, was compiled once.
THEOREM ExitZeroIsSoundAlways == Spec => []ExitZeroIsSound
<1>1. GateInv /\ OrderInv => ExitZeroIsSound
  <2> SUFFICES ASSUME GateInv, OrderInv, pc = "exited", exit = 0
               PROVE  /\ {r.target : r \in Range(results)} = Targets /\ Len(results) = N
                      /\ \A r \in Range(results) : r.success
    BY DEF ExitZeroIsSound
  <2>1. LineOK /\ queue = <<>> /\ ResultsOK /\ AllCompiled /\ SearchOK /\ Black = Targets
    BY DEF OrderInv, GateInv
  <2>2. Listed(order) = Targets /\ Len(order) = N
    BY <2>1, NothingLeft
  <2>3. /\ Len(results) = N /\ DOMAIN results = DOMAIN order
        /\ \A i \in DOMAIN results : results[i].target = order[i]
    <3>1. results \in Seq([target : Targets, success : BOOLEAN]) /\ order \in Seq(Targets)
      BY <2>1 DEF ResultsOK, LineOK
    <3>2. QED
      BY <2>1, <2>2, <3>1 DEF ResultsOK, AllCompiled
  <2>4. {r.target : r \in Range(results)} = Targets
    BY <2>2, <2>3 DEF Range, Listed
  <2>5. \A r \in Range(results) : r.success
    BY <2>1, Zenon DEF Range, AllCompiled
  <2>6. QED
    BY <2>3, <2>4, <2>5
<1>2. QED
  BY <1>1, GateInvariant, OrderInvariant, PTL
-----------------------------------------------------------------------------
(* The stages that are announced, computed apart from the order.           *)

\* Induction by least counterexample.
LEMMA LeastNat ==
  ASSUME NEW S \in SUBSET Nat, S # {}
  PROVE  \E n \in S : \A m \in S : n <= m
<1>1. \E n \in S : \A m \in S : <<m, n>> \notin OpToRel(<, Nat)
  BY NatLessThanWellFounded, WFMin
<1>2. PICK n \in S : \A m \in S : <<m, n>> \notin OpToRel(<, Nat)
  BY <1>1
<1>3. \A m \in S : ~(m < n)
  BY <1>2 DEF OpToRel
<1>4. QED
  BY <1>3

\* The recursive function is what its definition says.
LEMMA PlacedIs ==
  /\ Placed[0] = {}
  /\ \A n \in Nat : Placed[n + 1] = {t \in Targets : Needs(t) \subseteq Placed[n]}
<1> DEFINE Ready(P) == {t \in Targets : Needs(t) \subseteq P}
           Upto(k, g) == /\ g \in [0..k -> SUBSET Targets] /\ g[0] = {}
                         /\ \A n \in 1..k : g[n] = Ready(g[n - 1])
           Def == [n \in Nat |-> (CHOOSE g : Upto(n, g))[n]]
<1>1. \A k \in Nat : \E g : Upto(k, g)
  <2> DEFINE B == {k \in Nat : ~\E g : Upto(k, g)}
  <2> SUFFICES ASSUME B # {} PROVE FALSE
    OBVIOUS
  <2>1. PICK k \in B : \A m \in B : k <= m
    BY LeastNat
  <2>2. k \in Nat /\ ~\E g : Upto(k, g)
    BY <2>1
  <2>3. k # 0
    <3>1. Upto(0, [n \in 0..0 |-> {}])
      <4>1. 1..0 = {} /\ 0 \in 0..0
        OBVIOUS
      <4>2. QED
        BY <4>1
    <3> HIDE DEF Upto
    <3>2. QED
      BY <2>2, <3>1
  <2>4. k - 1 \in Nat /\ ~(k <= k - 1)
    BY <2>2, <2>3
  <2>5. PICK g : Upto(k - 1, g)
    <3> HIDE DEF Upto
    <3>1. QED
      BY <2>1, <2>4
  <2> DEFINE h == [n \in 0..k |-> IF n = k THEN Ready(g[k - 1]) ELSE g[n]]
  <2> HIDE DEF B
  <2>6. h \in [0..k -> SUBSET Targets]
    <3>1. \A n \in 0..k : n # k => n \in 0..(k - 1)
      BY <2>2
    <3>2. \A n \in 0..(k - 1) : g[n] \in SUBSET Targets
      BY <2>5
    <3>3. Ready(g[k - 1]) \in SUBSET Targets
      OBVIOUS
    <3>4. QED
      BY <3>1, <3>2, <3>3
  <2>7. h[0] = {}
    BY <2>2, <2>3, <2>5
  <2>8. ASSUME NEW n \in 1..k PROVE h[n] = Ready(h[n - 1])
    <3>1. n - 1 \in 0..k /\ n \in 0..k /\ n - 1 # k
      BY <2>2
    <3>2. h[n - 1] = g[n - 1]
      BY <3>1
    <3>3. CASE n = k
      BY <3>1, <3>2, <3>3
    <3>4. CASE n # k
      <4>1. n \in 1..(k - 1) /\ h[n] = g[n]
        BY <2>2, <3>1, <3>4
      <4>2. g[n] = Ready(g[n - 1])
        BY <2>5, <4>1
      <4>3. QED
        BY <3>2, <4>1, <4>2
    <3>5. QED
      BY <3>3, <3>4
  <2>9. Upto(k, h)
    BY <2>6, <2>7, <2>8
  <2> HIDE DEF Upto
  <2>10. QED
    BY <2>2, <2>9
<1>2. ASSUME NEW i \in Nat, NEW j \in Nat, NEW g, NEW h, Upto(i, g), Upto(j, h),
             NEW n \in Nat, n <= i, n <= j
      PROVE  g[n] = h[n]
  <2> DEFINE B == {m \in 0..n : g[m] # h[m]}
  <2> SUFFICES ASSUME B # {} PROVE FALSE
    <3>1. n \in 0..n
      BY <1>2
    <3>2. QED
      BY <3>1
  <2>1. B \in SUBSET Nat
    BY <1>2
  <2>2. PICK m \in B : \A l \in B : m <= l
    BY <2>1, LeastNat
  <2>3. m \in Nat /\ m <= n /\ g[m] # h[m]
    BY <1>2, <2>1, <2>2
  <2>4. m # 0
    BY <1>2, <2>3
  <2>5. m - 1 \in 0..n /\ ~(m <= m - 1)
    BY <1>2, <2>3, <2>4
  <2>6. g[m - 1] = h[m - 1]
    BY <2>2, <2>5
  <2>7. m \in 1..i /\ m \in 1..j
    BY <1>2, <2>3, <2>4
  <2>8. g[m] = Ready(g[m - 1]) /\ h[m] = Ready(h[m - 1])
    BY <1>2, <2>7
  <2>9. QED
    BY <2>3, <2>6, <2>8
<1>3. ASSUME NEW k \in Nat
      PROVE  Upto(k, CHOOSE g : Upto(k, g))
  BY <1>1
<1> HIDE DEF Upto
<1>4. Def[0] = {}
  <2>1. 0 \in Nat
    OBVIOUS
  <2>2. Upto(0, CHOOSE g : Upto(0, g))
    BY <1>3, <2>1
  <2>3. QED
    BY <2>2 DEF Upto
<1>5. ASSUME NEW n \in Nat PROVE Def[n + 1] = Ready(Def[n])
  <2> DEFINE g == CHOOSE g : Upto(n, g)
             h == CHOOSE h : Upto(n + 1, h)
  <2>1. Upto(n, g)
    BY <1>3
  <2>2. n + 1 \in Nat /\ n + 1 \in 1..(n + 1) /\ (n + 1) - 1 = n
    OBVIOUS
  <2>3. Upto(n + 1, h)
    BY <1>3, <2>2
  <2>4. Def[n] = g[n] /\ Def[n + 1] = h[n + 1]
    BY <2>2
  <2> HIDE DEF g, h, Def
  <2>5. g[n] = h[n]
    BY <1>2, <2>1, <2>2, <2>3
  <2>6. h[n + 1] = Ready(h[n])
    BY <2>2, <2>3 DEF Upto
  <2>7. QED
    BY <2>4, <2>5, <2>6
<1>6. Def = [n \in Nat |-> IF n = 0 THEN {} ELSE Ready(Def[n - 1])]
  <2>1. \A n \in Nat : n # 0 => n - 1 \in Nat /\ (n - 1) + 1 = n
    OBVIOUS
  <2>2. \A n \in Nat : Def[n] = IF n = 0 THEN {} ELSE Ready(Def[n - 1])
    BY <1>4, <1>5, <2>1
  <2>3. DOMAIN Def = Nat /\ Def = [n \in Nat |-> Def[n]]
    OBVIOUS
  <2> HIDE DEF Def
  <2>4. QED
    BY <2>2, <2>3
<1> HIDE DEF Def
<1>7. Placed = [n \in Nat |-> IF n = 0 THEN {}
                              ELSE {t \in Targets : Needs(t) \subseteq Placed[n - 1]}]
  BY <1>6 DEF Placed
<1>8. QED
  BY <1>7

LEMMA PlacedGrows ==
  \A m, n \in Nat : m <= n => Placed[m] \subseteq Placed[n]
<1>1. ASSUME NEW k \in Nat PROVE Placed[k] \subseteq Placed[k + 1]
  <2> DEFINE B == {l \in Nat : ~(Placed[l] \subseteq Placed[l + 1])}
  <2> SUFFICES ASSUME B # {} PROVE FALSE
    OBVIOUS
  <2>1. PICK l \in B : \A o \in B : l <= o
    BY LeastNat
  <2>2. l \in Nat /\ ~(Placed[l] \subseteq Placed[l + 1])
    BY <2>1
  <2>3. l # 0
    BY <2>2, PlacedIs
  <2>4. l - 1 \in Nat /\ ~(l <= l - 1) /\ (l - 1) + 1 = l
    BY <2>2, <2>3
  <2>5. l - 1 \notin B
    BY <2>1, <2>4
  <2>6. Placed[l - 1] \subseteq Placed[l]
    BY <2>4, <2>5
  <2> HIDE DEF B
  <2>7. /\ Placed[l] = {t \in Targets : Needs(t) \subseteq Placed[l - 1]}
        /\ Placed[l + 1] = {t \in Targets : Needs(t) \subseteq Placed[l]}
    BY <2>2, <2>4, PlacedIs
  <2>8. QED
    BY <2>2, <2>6, <2>7
<1>2. ASSUME NEW m \in Nat, NEW n \in Nat, m <= n PROVE Placed[m] \subseteq Placed[n]
  <2> DEFINE B == {l \in Nat : m <= l /\ ~(Placed[m] \subseteq Placed[l])}
  <2> SUFFICES ASSUME B # {} PROVE FALSE
    BY <1>2
  <2>1. PICK l \in B : \A o \in B : l <= o
    BY LeastNat
  <2>2. l \in Nat /\ m <= l /\ ~(Placed[m] \subseteq Placed[l])
    BY <2>1
  <2>3. l # m
    BY <2>2
  <2>4. l - 1 \in Nat /\ m <= l - 1 /\ ~(l <= l - 1) /\ (l - 1) + 1 = l
    BY <2>2, <2>3
  <2>5. Placed[m] \subseteq Placed[l - 1]
    BY <2>1, <2>4
  <2>6. Placed[l - 1] \subseteq Placed[l]
    BY <1>1, <2>4
  <2>7. QED
    BY <2>2, <2>5, <2>6
<1>3. QED
  BY <1>2

\* Nothing in line is of a later stage than what stands behind it.
StagesOK ==
  \A i, j \in DOMAIN Line : i < j =>
    \A n \in Nat : Line[j] \in Placed[n] => Line[i] \in Placed[n]

StageInv == pc \in {"sorting", "compiling"} => StagesOK

LEMMA StagesAccept ==
  ASSUME TypesOK, order = <<>>, Accept
  PROVE  StagesOK'
<1> DEFINE first == {t \in Targets : requires[t] = <<>>}
<1>1. requires' = requires /\ order' = <<>> /\ queue' = Sorted(first)
  BY DEF Accept
<1>2. queue' \in Seq(Targets) /\ Listed(queue') = first
  <2>1. first \in SUBSET Targets
    OBVIOUS
  <2>2. QED
    BY <1>1, <2>1, SortedIs
<1>3. Line' = queue'
  BY <1>1, <1>2 DEF Line
<1>4. Placed' = Placed
  BY <1>1 DEF Placed, Needs
<1>5. ASSUME NEW t \in first, NEW u \in first, NEW n \in Nat, u \in Placed[n]
      PROVE  t \in Placed[n]
  <2>1. n # 0
    BY <1>5, PlacedIs
  <2>2. n - 1 \in Nat /\ (n - 1) + 1 = n
    BY <2>1
  <2>3. Needs(t) = {}
    BY DEF Needs
  <2>4. QED
    BY <2>2, <2>3, PlacedIs
<1>6. \A i \in DOMAIN Line' : Line'[i] \in first
  BY <1>2, <1>3 DEF Listed
<1>7. QED
  BY <1>4, <1>5, <1>6 DEF StagesOK

LEMMA StagesPlace ==
  ASSUME SearchOK, LineOK, StagesOK, Place
  PROVE  StagesOK'
<1> DEFINE h == Head(queue)
           new == Sorted(Released(h))
           L == Len(Line)
<1>1. /\ h \in Targets /\ h \notin Listed(order)
      /\ Line' = Line \o new /\ Line \in Seq(Targets)
      /\ Listed(Line) = Listed(order) \cup Listed(queue)
      /\ Len(order) + 1 \in DOMAIN Line /\ Line[Len(order) + 1] = h
      /\ \A i \in DOMAIN order : Line[i] = order[i] /\ i \in DOMAIN Line
  BY LineGrows
<1>2. requires' = requires /\ order \in Seq(Targets)
  BY DEF Place, LineOK
<1>3. new \in Seq(Targets) /\ Listed(new) = Released(h)
  <2>1. Released(h) \in SUBSET Targets
    BY DEF Released
  <2>2. QED
    BY <2>1, SortedIs
<1>4. Placed' = Placed
  BY <1>2 DEF Placed, Needs
<1> HIDE DEF h, new
<1>5. ASSUME NEW n \in Nat, h \in Placed[n]
      PROVE  Listed(order) \cup {h} \subseteq Placed[n]
  <2>1. ASSUME NEW i \in DOMAIN order PROVE order[i] \in Placed[n]
    <3>1. i < Len(order) + 1 /\ i \in DOMAIN Line /\ Line[i] = order[i]
      BY <1>1, <1>2
    <3>2. QED
      BY <1>1, <1>5, <3>1 DEF StagesOK
  <2>2. QED
    BY <1>5, <2>1 DEF Listed
<1>6. ASSUME NEW d \in Targets, d \in Listed(Line) \cup Released(h)
      PROVE  Needs(d) \subseteq Listed(order) \cup {h}
  <2>1. CASE d \in Listed(Line)
    BY <2>1 DEF LineOK
  <2>2. CASE d \in Released(h)
    BY <1>1, <2>2, ReleasedIs
  <2>3. QED
    BY <1>6, <2>1, <2>2
<1>7. ASSUME NEW d \in Released(h), NEW q \in Targets, q \in Listed(Line) \cup Released(h),
             NEW n \in Nat, d \in Placed[n]
      PROVE  q \in Placed[n]
  <2>1. n # 0
    BY <1>7, PlacedIs
  <2>2. n - 1 \in Nat /\ (n - 1) + 1 = n
    BY <2>1
  <2>3. Placed[n] = {t \in Targets : Needs(t) \subseteq Placed[n - 1]}
    BY <2>2, PlacedIs
  <2>4. h \in Needs(d)
    BY DEF Released
  <2>5. h \in Placed[n - 1]
    BY <1>7, <2>3, <2>4
  <2>6. Listed(order) \cup {h} \subseteq Placed[n - 1]
    BY <1>5, <2>2, <2>5
  <2>7. Needs(q) \subseteq Placed[n - 1]
    BY <1>6, <1>7, <2>6
  <2>8. QED
    BY <2>3, <2>7
<1>8. /\ L \in Nat /\ DOMAIN Line = 1..L
      /\ \A i \in DOMAIN Line' : i \in 1..L \/ Line'[i] \in Released(h)
      /\ \A i \in 1..L : Line'[i] = Line[i]
      /\ \A i \in DOMAIN Line' : i \in Nat \ {0} /\ Line'[i] \in Targets
  <2>1. /\ L \in Nat /\ DOMAIN Line = 1..L /\ DOMAIN Line' = 1..(L + Len(new))
        /\ \A i \in 1..L : Line'[i] = Line[i]
        /\ \A i \in 1..(L + Len(new)) : i \notin 1..L => Line'[i] = new[i - L]
        /\ Len(new) \in Nat /\ DOMAIN new = 1..Len(new) /\ Line' \in Seq(Targets)
    BY <1>1, <1>3
  <2> HIDE DEF L
  <2>2. \A i \in 1..(L + Len(new)) : i \notin 1..L => i - L \in DOMAIN new
    BY <2>1
  <2>3. \A k \in DOMAIN new : new[k] \in Released(h)
    BY <1>3 DEF Listed
  <2>4. \A i \in DOMAIN Line' : i \in 1..L \/ Line'[i] \in Released(h)
    BY <2>1, <2>2, <2>3
  <2>5. \A i \in DOMAIN Line' : i \in Nat \ {0} /\ Line'[i] \in Targets
    BY <2>1
  <2>6. QED
    BY <2>1, <2>4, <2>5
<1> HIDE DEF L
<1>9. ASSUME NEW i \in DOMAIN Line', NEW j \in DOMAIN Line', i < j,
             NEW n \in Nat, Line'[j] \in Placed[n]
      PROVE  Line'[i] \in Placed[n]
  <2>1. CASE j \in 1..L
    <3>1. i \in 1..L
      BY <1>8, <1>9, <2>1
    <3>2. QED
      BY <1>8, <1>9, <2>1, <3>1 DEF StagesOK
  <2>2. CASE j \notin 1..L
    <3>1. Line'[j] \in Released(h)
      BY <1>8, <2>2
    <3>2. Line'[i] \in Listed(Line) \cup Released(h)
      BY <1>8 DEF Listed
    <3>3. Line'[i] \in Targets
      BY <1>8
    <3>4. QED
      BY <1>7, <1>9, <3>1, <3>2, <3>3
  <2>3. QED
    BY <2>1, <2>2
<1>10. QED
  BY <1>4, <1>9 DEF StagesOK

LEMMA StageNext == GateInv /\ OrderInv /\ StageInv /\ [Next]_vars => StageInv'
<1> SUFFICES ASSUME GateInv, OrderInv, StageInv, [Next]_vars PROVE StageInv'
  OBVIOUS
<1>1. SearchOK
  BY DEF GateInv
<1>2. CASE Accept
  <2>1. order = <<>>
    BY <1>2 DEF Accept, OrderInv
  <2>2. QED
    BY <1>1, <1>2, <2>1, StagesAccept DEF SearchOK, StageInv
<1>3. CASE Place
  <2>1. pc = "sorting" /\ LineOK /\ StagesOK
    BY <1>3 DEF Place, OrderInv, StageInv
  <2>2. QED
    BY <1>1, <1>3, <2>1, StagesPlace DEF StageInv
<1>4. ASSUME UNCHANGED <<requires, queue, order>>,
             pc' \in {"sorting", "compiling"} => pc \in {"sorting", "compiling"}
      PROVE  StageInv'
  <2>1. Placed' = Placed /\ Line' = Line
    BY <1>4 DEF Placed, Needs, Line
  <2>2. StagesOK => StagesOK'
    BY <2>1 DEF StagesOK
  <2>3. QED
    BY <1>4, <2>2 DEF StageInv
<1>5. CASE StartSearch \/ Descend \/ PassBy \/ Leave \/ FindCycle
  <2>1. pc' \in {"checking", "exited"}
    BY <1>5 DEF StartSearch, Descend, PassBy, Leave, FindCycle, Looking
  <2>2. QED
    BY <2>1 DEF StageInv
<1>6. CASE StartCompiling \/ CompileRaises \/ Report \/ Exited \/ UNCHANGED vars
  BY <1>4, <1>6 DEF StartCompiling, CompileRaises, Report, Exited, vars, sort
<1>7. CASE \E done \in BOOLEAN : Compile(done)
  BY <1>4, <1>7 DEF Compile, sort
<1>8. QED
  BY <1>2, <1>3, <1>5, <1>6, <1>7 DEF Next, Step

\* The stages of the line, at each step of the sort.
THEOREM StageInvariant == Spec => []StageInv
<1>1. Init => StageInv
  BY DEF Init, StageInv
<1>2. QED
  BY <1>1, GateInvariant, OrderInvariant, StageNext, PTL DEF Spec

\* The target at place i of a topological order is of stage i at the latest.
LEMMA EveryStageFound ==
  ASSUME TypesOK, order \in Seq(Targets), Len(order) = N, Listed(order) = Targets,
         \A i \in DOMAIN order : Needs(order[i]) \subseteq {order[j] : j \in 1..(i - 1)},
         NEW t \in Targets
  PROVE  \E n \in 1..N : t \in Level[n]
<1>1. N \in Nat /\ DOMAIN order = 1..N
  BY DslAssumption
<1>2. ASSUME NEW i \in 1..N PROVE order[i] \in Placed[i]
  <2> DEFINE B == {k \in 1..N : order[k] \notin Placed[k]}
  <2> SUFFICES ASSUME B # {} PROVE FALSE
    OBVIOUS
  <2>1. B \in SUBSET Nat
    BY <1>1
  <2>2. PICK k \in B : \A l \in B : k <= l
    BY <2>1, LeastNat
  <2>3. k \in 1..N /\ order[k] \notin Placed[k]
    OBVIOUS
  <2>4. k - 1 \in Nat /\ (k - 1) + 1 = k
    BY <1>1, <2>3
  <2>5. ASSUME NEW j \in 1..(k - 1) PROVE order[j] \in Placed[k - 1]
    <3>1. j \in 1..N /\ ~(k <= j) /\ j \in Nat /\ j <= k - 1
      BY <1>1, <2>3
    <3>2. order[j] \in Placed[j]
      BY <2>2, <3>1
    <3>3. QED
      BY <2>4, <3>1, <3>2, PlacedGrows
  <2> HIDE DEF B
  <2>6. Needs(order[k]) \subseteq Placed[k - 1]
    <3>1. Needs(order[k]) \subseteq {order[j] : j \in 1..(k - 1)}
      BY <1>1, <2>3
    <3>2. QED
      BY <2>5, <3>1
  <2>7. order[k] \in Placed[(k - 1) + 1]
    <3>1. order[k] \in Targets
      BY <1>1, <2>3
    <3>2. QED
      BY <2>4, <2>6, <3>1, PlacedIs
  <2>8. QED
    BY <2>3, <2>4, <2>7
<1> DEFINE A == {n \in Nat : t \in Placed[n]}
<1>3. \E n \in A : n <= N
  <2>1. PICK i \in 1..N : t = order[i]
    BY <1>1 DEF Listed
  <2>2. i \in Nat /\ i <= N /\ t \in Placed[i]
    BY <1>1, <1>2, <2>1
  <2>3. QED
    BY <2>2
<1>4. PICK n \in A : \A m \in A : n <= m
  BY <1>3, LeastNat
<1>5. n # 0
  BY <1>4, PlacedIs
<1>6. n \in 1..N /\ n - 1 \in Nat /\ ~(n <= n - 1)
  BY <1>1, <1>3, <1>4, <1>5
<1>7. t \in Placed[n] /\ t \notin Placed[n - 1]
  BY <1>4, <1>6
<1>8. QED
  BY <1>6, <1>7 DEF Level

\* The build order goes through the stages that are announced one by one.
THEOREM CompiledAsAnnouncedAlways == Spec => []CompiledAsAnnounced
<1>1. GateInv /\ OrderInv /\ StageInv => StagesInOrder
  <2> SUFFICES ASSUME GateInv, OrderInv, StageInv, OrderFixed PROVE StagesInOrder
    BY DEF StagesInOrder
  <2> DEFINE Stage(t) == CHOOSE n \in 1..N : t \in Level[n]
  <2>1. LineOK /\ queue = <<>> /\ SearchOK /\ Black = Targets /\ StagesOK
    BY DEF OrderInv, GateInv, OutcomeOK, OrderFixed, StageInv
  <2>2. Listed(order) = Targets /\ Len(order) = N
    BY <2>1, NothingLeft
  <2>3. order \in Seq(Targets) /\ Line = order /\ DOMAIN order = 1..N /\ N \in Nat
    BY <2>1, <2>2, DslAssumption DEF LineOK, Line
  <2>4. ASSUME NEW t \in Targets
        PROVE  /\ Stage(t) \in 1..N /\ Stage(t) - 1 \in Nat
               /\ t \in Placed[Stage(t)] /\ t \notin Placed[Stage(t) - 1]
    <3>1. \E n \in 1..N : t \in Level[n]
      BY <2>1, <2>2, <2>3, EveryStageFound DEF SearchOK, LineOK
    <3>2. Stage(t) \in 1..N /\ t \in Level[Stage(t)]
      BY <3>1
    <3> HIDE DEF Stage
    <3>3. QED
      BY <2>3, <3>2 DEF Level
  <2> HIDE DEF Stage
  <2>5. ASSUME NEW i \in 1..(N - 1) PROVE Stage(order[i]) <= Stage(order[i + 1])
    <3> DEFINE a == order[i]
               b == order[i + 1]
    <3>1. i \in 1..N /\ i + 1 \in 1..N /\ i < i + 1
      BY <2>3
    <3>2. a \in Targets /\ b \in Targets
      BY <2>3, <3>1
    <3>3. \A n \in Nat : b \in Placed[n] => a \in Placed[n]
      BY <2>1, <2>3, <3>1 DEF StagesOK
    <3> HIDE DEF a, b
    <3>4. /\ Stage(a) \in Nat /\ Stage(b) \in Nat /\ Stage(a) - 1 \in Nat
          /\ a \notin Placed[Stage(a) - 1] /\ a \in Placed[Stage(b)]
      <4>1. 1..N \subseteq Nat
        BY <2>3
      <4>2. /\ Stage(a) \in 1..N /\ Stage(a) - 1 \in Nat /\ a \notin Placed[Stage(a) - 1]
            /\ Stage(b) \in 1..N /\ b \in Placed[Stage(b)]
        BY <2>4, <3>2
      <4>3. QED
        BY <3>3, <4>1, <4>2
    <3>5. ASSUME ~(Stage(a) <= Stage(b)) PROVE FALSE
      <4>1. Stage(b) <= Stage(a) - 1
        BY <3>4, <3>5
      <4>2. QED
        BY <3>4, <4>1, PlacedGrows
    <3>6. Stage(a) <= Stage(b)
      BY <3>5
    <3>7. QED
      BY <3>6 DEF a, b
  <2>6. QED
    BY <2>5 DEF StagesInOrder, Stage
<1>2. StagesInOrder /\ OrderIsTopological => CompiledAsAnnounced
  BY DEF CompiledAsAnnounced
<1>3. QED
  BY <1>1, <1>2, GateInvariant, OrderInvariant, StageInvariant, OrderIsTopologicalAlways, PTL

-----------------------------------------------------------------------------
(* The lines of a lean blueprint.                                          *)

Words(lines) == {lines[i].value[1] : i \in DOMAIN lines} \cup {Undeclared, "balanced"}

LeanRead(lines) ==
  [project : Words(lines), ingest : Seq(STRING), targets : Seq(STRING), optimize : Words(lines),
   seen : SUBSET STRING, error : BOOLEAN]

LEMMA ParseLineReads ==
  ASSUME NEW lines \in Seq(LeanLine), NEW n \in 1..Len(lines), NEW bp \in LeanRead(lines)
  PROVE  ParseLine(lines[n], bp) \in LeanRead(lines)
<1> DEFINE W == Words(lines)
           line == lines[n]
<1>1. line \in LeanLine /\ line.value[1] \in W
  BY DEF Words
<1>2. /\ line.key \in STRING /\ line.value \in Seq(STRING)
      /\ bp \in [project : W, ingest : Seq(STRING), targets : Seq(STRING), optimize : W,
                 seen : SUBSET STRING, error : BOOLEAN]
  BY <1>1 DEF LeanLine, LeanRead
<1> HIDE DEF W, line
<1> QED BY <1>1, <1>2 DEF ParseLine, LeanRead, W, line

\* A lean blueprint that is read names its targets in a list.
LEMMA ParseLeanTargets ==
  ASSUME NEW lines \in Seq(LeanLine)
  PROVE  ParseLean(lines).targets \in Seq(STRING)
<1> DEFINE Size == Len(lines)
           T == LeanRead(lines)
           Body(g, n) == IF n = 0 THEN Nothing ELSE ParseLine(lines[n], g[n - 1])
           Parsed == CHOOSE g : g = [n \in 0..Size |-> Body(g, n)]
           turn == [n \in 1..Size |-> [bp \in T |-> ParseLine(lines[n], bp)]]
<1>1. Nothing \in T
  BY DEF Nothing, LeanRead, Words
<1>2. \A n \in 1..Size : \A bp \in T : ParseLine(lines[n], bp) \in T
  BY ParseLineReads
<1>3. ParseLean(lines).targets = Parsed[Size].targets
  BY DEF ParseLean
<1>4. Size \in Nat
  OBVIOUS
<1> HIDE DEF Size, T
<1>5. Steps(Size, T, Nothing, turn)
  BY <1>1, <1>2, <1>4 DEF Steps
<1>6. PICK g : Follows(g, Size, T, Nothing, turn)
  BY <1>5, StepByStep
<1>7. g = [n \in 0..Size |-> Body(g, n)]
  <2>1. g \in [0..Size -> T] /\ g[0] = Nothing /\ \A n \in 1..Size : g[n] = turn[n][g[n - 1]]
    BY <1>6 DEF Follows
  <2>2. ASSUME NEW n \in 0..Size PROVE g[n] = Body(g, n)
    <3>1. CASE n = 0
      BY <2>1, <3>1
    <3>2. CASE n # 0
      <4>1. n \in 1..Size /\ n - 1 \in 0..Size
        BY <1>4, <3>2
      <4>2. g[n - 1] \in T
        BY <2>1, <4>1
      <4> QED BY <2>1, <3>2, <4>1, <4>2
    <3> QED BY <3>1, <3>2
  <2> HIDE DEF Body
  <2> QED BY <2>1, <2>2
<1>8. Parsed = [n \in 0..Size |-> Body(Parsed, n)]
  <2> HIDE DEF Body
  <2> QED BY <1>7
<1> HIDE DEF Parsed
<1>9. Parsed[0] = Nothing /\ \A n \in 1..Size : Parsed[n - 1] \in T => Parsed[n] = turn[n][Parsed[n - 1]]
  <2>1. 0 \in 0..Size /\ \A n \in 1..Size : n \in 0..Size /\ n # 0
    BY <1>4
  <2>2. Parsed[0] = Nothing
    BY <1>8, <2>1
  <2>3. ASSUME NEW n \in 1..Size, Parsed[n - 1] \in T PROVE Parsed[n] = turn[n][Parsed[n - 1]]
    BY <1>8, <2>1, <2>3
  <2> QED BY <2>2, <2>3
<1> HIDE DEF turn
<1>10. Parsed[Size] \in T
  <2>1. Size \in 0..Size
    BY <1>4
  <2> QED BY <1>5, <1>9, <2>1, StepsStay
<1> QED BY <1>3, <1>10 DEF T, LeanRead

-----------------------------------------------------------------------------
(* The placed of the targets.                                               *)

\* No set of nodes waits for itself.
NoLoop(deps) == \A S \in SUBSET DOMAIN deps : S # {} => \E t \in S : deps[t] \cap S = {}

Closed(deps) == IsFiniteSet(DOMAIN deps) /\ \A t \in DOMAIN deps : deps[t] \subseteq DOMAIN deps

\* What is placed is placed once, after all it waits for.
Placing(deps, r) ==
  /\ IsInjective(r.order) /\ Range(r.order) = DOMAIN deps \ r.remaining
  /\ \A c \in DOMAIN deps \ r.remaining : \A p \in deps[c] : Before(r.order, p, c)

Rounds(deps) == [remaining : SUBSET DOMAIN deps, order : Seq(DOMAIN deps)]

LEMMA Joined ==
  ASSUME NEW D, NEW s \in Seq(D), NEW t \in Seq(D)
  PROVE  /\ s \o t \in Seq(D) /\ Range(s \o t) = Range(s) \cup Range(t)
         /\ \A a, b : Before(s, a, b) => Before(s \o t, a, b)
         /\ \A a \in Range(s), b \in Range(t) : Before(s \o t, a, b)
         /\ IsInjective(s) /\ IsInjective(t) /\ Range(s) \cap Range(t) = {} => IsInjective(s \o t)
<1> DEFINE m == Len(s)
           n == Len(t)
           u == s \o t
<1>1. /\ m \in Nat /\ n \in Nat /\ DOMAIN s = 1..m /\ DOMAIN t = 1..n
      /\ u \in Seq(D) /\ DOMAIN u = 1..(m + n)
      /\ \A i \in 1..m : u[i] = s[i]
      /\ \A i \in 1..n : u[m + i] = t[i]
  OBVIOUS
<1> HIDE DEF m, n, u
<1>2. \A i \in 1..(m + n) : i \in 1..m \/ (i - m \in 1..n /\ m + (i - m) = i)
  BY <1>1
<1>3. /\ \A i \in 1..m : i \in 1..(m + n)
      /\ \A i \in 1..n : m + i \in 1..(m + n)
  BY <1>1
<1>4. Range(u) = Range(s) \cup Range(t)
  <2>1. ASSUME NEW x \in Range(u) PROVE x \in Range(s) \cup Range(t)
    <3>1. PICK i \in 1..(m + n) : x = u[i]
      BY <1>1 DEF Range
    <3>2. CASE i \in 1..m
      BY <1>1, <3>1, <3>2 DEF Range
    <3>3. CASE i \notin 1..m
      <4>1. i - m \in 1..n /\ x = t[i - m]
        BY <1>1, <1>2, <3>1, <3>3
      <4> QED BY <1>1, <4>1 DEF Range
    <3> QED BY <3>2, <3>3
  <2>2. ASSUME NEW x \in Range(s) PROVE x \in Range(u)
    <3>1. PICK i \in 1..m : x = s[i]
      BY <1>1 DEF Range
    <3> QED BY <1>1, <1>3, <3>1 DEF Range
  <2>3. ASSUME NEW x \in Range(t) PROVE x \in Range(u)
    <3>1. PICK i \in 1..n : x = t[i]
      BY <1>1 DEF Range
    <3> QED BY <1>1, <1>3, <3>1 DEF Range
  <2> QED BY <2>1, <2>2, <2>3
<1>5. ASSUME NEW a, NEW b, Before(s, a, b) PROVE Before(u, a, b)
  <2>1. PICK i \in 1..m, j \in 1..m : i < j /\ s[i] = a /\ s[j] = b
    BY <1>1, <1>5 DEF Before
  <2>2. i \in DOMAIN u /\ j \in DOMAIN u /\ u[i] = a /\ u[j] = b
    BY <1>1, <1>3, <2>1
  <2> QED BY <2>1, <2>2 DEF Before
<1>6. ASSUME NEW a \in Range(s), NEW b \in Range(t) PROVE Before(u, a, b)
  <2>1. PICK i \in 1..m : a = s[i]
    BY <1>1 DEF Range
  <2>2. PICK j \in 1..n : b = t[j]
    BY <1>1 DEF Range
  <2>3. i \in DOMAIN u /\ m + j \in DOMAIN u /\ i < m + j /\ u[i] = a /\ u[m + j] = b
    BY <1>1, <1>3, <2>1, <2>2
  <2> QED BY <2>3 DEF Before
<1>7. ASSUME IsInjective(s), IsInjective(t), Range(s) \cap Range(t) = {} PROVE IsInjective(u)
  <2> SUFFICES ASSUME NEW i \in 1..(m + n), NEW j \in 1..(m + n), u[i] = u[j] PROVE i = j
    BY <1>1 DEF IsInjective
  <2>1. CASE i \in 1..m /\ j \in 1..m
    BY <1>1, <1>7, <2>1 DEF IsInjective
  <2>2. CASE i \notin 1..m /\ j \notin 1..m
    <3>1. i - m \in 1..n /\ j - m \in 1..n /\ t[i - m] = t[j - m]
      BY <1>1, <1>2, <2>2
    <3>2. i - m = j - m
      BY <1>1, <1>7, <3>1 DEF IsInjective
    <3> QED BY <1>1, <3>2
  <2>3. CASE i \in 1..m /\ j \notin 1..m
    <3>1. u[i] \in Range(s)
      BY <1>1, <2>3 DEF Range
    <3>2. j - m \in 1..n /\ u[j] = t[j - m]
      BY <1>1, <1>2, <2>3
    <3>3. u[j] \in Range(t)
      BY <1>1, <3>2 DEF Range
    <3> QED BY <1>7, <3>1, <3>3
  <2>4. CASE i \notin 1..m /\ j \in 1..m
    <3>1. u[j] \in Range(s)
      BY <1>1, <2>4 DEF Range
    <3>2. i - m \in 1..n /\ u[i] = t[i - m]
      BY <1>1, <1>2, <2>4
    <3>3. u[i] \in Range(t)
      BY <1>1, <3>2 DEF Range
    <3> QED BY <1>7, <3>1, <3>3
  <2> QED BY <2>1, <2>2, <2>3, <2>4
<1> QED BY <1>1, <1>4, <1>5, <1>6, <1>7 DEF u

LEMMA NextRoundPlaces ==
  ASSUME NEW deps, Closed(deps), NEW r \in Rounds(deps)
  PROVE  /\ NextRound(deps, r) \in Rounds(deps)
         /\ NoLoop(deps) /\ Placing(deps, r) => Placing(deps, NextRound(deps, r))
         /\ Cardinality(NextRound(deps, r).remaining) \in Nat
         /\ r.remaining # {} => Cardinality(NextRound(deps, r).remaining) < Cardinality(r.remaining)
<1> DEFINE D == DOMAIN deps
           R == r.remaining
           free == {t \in R : deps[t] \subseteq D \ R}
           ready == IF free = {} THEN R ELSE free
           q == SetToSeq(ready)
           next == [remaining |-> R \ ready, order |-> r.order \o q]
<1>1. NextRound(deps, r) = next
  BY DEF NextRound
<1>2. R \in SUBSET D /\ r.order \in Seq(D) /\ ready \in SUBSET R /\ (R # {} => ready # {})
  BY DEF Rounds
<1>3. IsFiniteSet(D) /\ \A t \in D : deps[t] \subseteq D
  BY DEF Closed
<1>4. IsFiniteSet(R) /\ IsFiniteSet(ready)
  <2> HIDE DEF ready, D
  <2> QED BY <1>2, <1>3, FS_Subset
<1>5. q \in Seq(ready) /\ Range(q) = ready /\ IsInjective(q)
  <2> HIDE DEF ready
  <2> QED BY <1>4, SetToSeqIs
<1>6. q \in Seq(D)
  <2> HIDE DEF q, ready, D
  <2>1. ready \subseteq D
    BY <1>2
  <2> QED BY <1>5, <2>1, SeqWider
<1> HIDE DEF q
<1>7. next \in Rounds(deps)
  <2>1. r.order \o q \in Seq(D)
    <3> HIDE DEF D, ready
    <3> QED BY <1>2, <1>6, Joined
  <2>2. R \ ready \in SUBSET D
    BY <1>2
  <2> HIDE DEF R, ready
  <2> QED BY <2>1, <2>2 DEF Rounds
<1>8. ASSUME NoLoop(deps), Placing(deps, r) PROVE Placing(deps, next)
  <2>1. ready = free
    <3>1. CASE R = {}
      BY <3>1
    <3>2. CASE R # {}
      <4>1. PICK t \in R : deps[t] \cap R = {}
        BY <1>2, <1>8, <3>2 DEF NoLoop
      <4>2. t \in free
        BY <1>2, <1>3, <4>1
      <4> QED BY <4>2
    <3> QED BY <3>1, <3>2
  <2>2. \A t \in ready : deps[t] \subseteq D \ R
    BY <2>1
  <2>3. IsInjective(r.order) /\ Range(r.order) = D \ R
    BY <1>8 DEF Placing
  <2>4. \A c \in D \ R : \A p \in deps[c] : Before(r.order, p, c)
    BY <1>8 DEF Placing
  <2> HIDE DEF ready, D, R
  <2> DEFINE o == r.order \o q
  <2>5. /\ Range(o) = (D \ R) \cup ready
        /\ \A a, b : Before(r.order, a, b) => Before(o, a, b)
        /\ \A a \in D \ R, b \in ready : Before(o, a, b)
        /\ (D \ R) \cap ready = {} => IsInjective(o)
    BY <1>2, <1>5, <1>6, <2>3, Joined
  <2> HIDE DEF o
  <2>6. (D \ R) \cap ready = {} /\ (D \ R) \cup ready = D \ (R \ ready)
    BY <1>2
  <2>7. ASSUME NEW c \in D \ (R \ ready), NEW p \in deps[c] PROVE Before(o, p, c)
    <3>1. CASE c \in ready
      BY <2>2, <2>5, <2>7, <3>1
    <3>2. CASE c \notin ready
      BY <2>4, <2>5, <2>7, <3>2
    <3> QED BY <3>1, <3>2
  <2>8. next.order = o /\ next.remaining = R \ ready
    BY DEF o
  <2> HIDE DEF next
  <2> QED BY <2>5, <2>6, <2>7, <2>8 DEF Placing, D
<1>9. /\ Cardinality(R \ ready) \in Nat
      /\ R # {} => Cardinality(R \ ready) < Cardinality(R)
  <2>1. R \ ready \in SUBSET R /\ (R # {} => R \ ready # R)
    BY <1>2
  <2> HIDE DEF ready, R
  <2> DEFINE L == R \ ready
  <2>2. L \in SUBSET R /\ (R # {} => L # R)
    BY <2>1
  <2> HIDE DEF L
  <2>3. IsFiniteSet(L) /\ Cardinality(L) <= Cardinality(R)
        /\ (Cardinality(L) = Cardinality(R) => L = R)
    BY <1>4, <2>2, FS_Subset
  <2>4. Cardinality(L) \in Nat /\ Cardinality(R) \in Nat
    BY <1>4, <2>3, FS_CardinalityType
  <2>5. Cardinality(L) \in Nat /\ (R # {} => Cardinality(L) < Cardinality(R))
    BY <2>2, <2>3, <2>4
  <2> QED BY <2>5 DEF L
<1> QED BY <1>1, <1>7, <1>8, <1>9

\* The dependencies that topological_order looks at.
WaitsFor(matrix) == [t \in DOMAIN matrix |-> matrix[t] \ {INVARIANTS_NODE}]

\* Where nothing waits for itself, the order has each target once, after all
\* it waits for.
LEMMA OrderPlacesAll ==
  ASSUME NEW matrix, Closed(WaitsFor(matrix)), NoLoop(WaitsFor(matrix))
  PROVE  LET placed == TopologicalOrder(matrix) IN
         /\ IsInjective(placed) /\ Range(placed) = DOMAIN matrix
         /\ \A c \in DOMAIN matrix : \A p \in WaitsFor(matrix)[c] : Before(placed, p, c)
<1> DEFINE deps == WaitsFor(matrix)
           D == DOMAIN matrix
           Size == Cardinality(D)
           T == Rounds(deps)
           Start == [remaining |-> D, order |-> <<>>]
           Body(g, n) == IF n = 0 THEN Start ELSE NextRound(deps, g[n - 1])
           Round == CHOOSE g : g = [n \in 0..Size |-> Body(g, n)]
           turn == [n \in 1..Size |-> [r \in T |-> NextRound(deps, r)]]
<1>1. DOMAIN deps = D /\ IsFiniteSet(D) /\ Size \in Nat
  <2>1. DOMAIN deps = D
    BY DEF WaitsFor
  <2> HIDE DEF D, deps
  <2>2. IsFiniteSet(D)
    BY <2>1 DEF Closed, deps
  <2> QED BY <2>1, <2>2, FS_CardinalityType
<1>2. TopologicalOrder(matrix) = Round[Size].order
  BY DEF TopologicalOrder, WaitsFor
<1>3. Start \in T /\ Placing(deps, Start) /\ Start.remaining = D
  <2>1. D \in SUBSET D /\ <<>> \in Seq(D)
    OBVIOUS
  <2>2. Start \in T
    <3> HIDE DEF D, deps
    <3> QED BY <1>1, <2>1 DEF Rounds
  <2>3. Range(<<>>) = {} /\ IsInjective(<<>>)
    BY DEF Range, IsInjective
  <2>4. DOMAIN deps \ D = {}
    BY <1>1
  <2> HIDE DEF D, deps
  <2> QED BY <2>2, <2>3, <2>4 DEF Placing
<1>4. \A r \in T : /\ NextRound(deps, r) \in T
                   /\ Placing(deps, r) => Placing(deps, NextRound(deps, r))
                   /\ Cardinality(NextRound(deps, r).remaining) \in Nat
                   /\ r.remaining # {}
                        => Cardinality(NextRound(deps, r).remaining) < Cardinality(r.remaining)
  <2> HIDE DEF deps
  <2>1. Closed(deps) /\ NoLoop(deps)
    BY DEF deps
  <2> QED BY <2>1, NextRoundPlaces
<1> HIDE DEF Size, T, Start, deps
<1>5. Steps(Size, T, Start, turn)
  BY <1>1, <1>3, <1>4 DEF Steps
<1>6. PICK g : Follows(g, Size, T, Start, turn)
  BY <1>5, StepByStep
<1>7. g = [n \in 0..Size |-> Body(g, n)]
  <2>1. g \in [0..Size -> T] /\ g[0] = Start /\ \A n \in 1..Size : g[n] = turn[n][g[n - 1]]
    BY <1>6 DEF Follows
  <2>2. ASSUME NEW n \in 0..Size PROVE g[n] = Body(g, n)
    <3>1. CASE n = 0
      BY <2>1, <3>1
    <3>2. CASE n # 0
      <4>1. n \in 1..Size /\ n - 1 \in 0..Size
        BY <1>1, <3>2
      <4>2. g[n - 1] \in T
        BY <2>1, <4>1
      <4> QED BY <2>1, <3>2, <4>1, <4>2
    <3> QED BY <3>1, <3>2
  <2> HIDE DEF Body
  <2> QED BY <2>1, <2>2
<1>8. Round = [n \in 0..Size |-> Body(Round, n)]
  <2> HIDE DEF Body
  <2> QED BY <1>7
<1> HIDE DEF Round
<1>9. Round[0] = Start /\ \A n \in 1..Size : Round[n] = NextRound(deps, Round[n - 1])
  <2>1. 0 \in 0..Size /\ \A n \in 1..Size : n \in 0..Size /\ n # 0
    BY <1>1
  <2>2. Round[0] = Start
    BY <1>8, <2>1
  <2>3. ASSUME NEW n \in 1..Size PROVE Round[n] = NextRound(deps, Round[n - 1])
    BY <1>8, <2>1
  <2> QED BY <2>2, <2>3
<1> DEFINE Left(r) == Cardinality(r.remaining)
           Held == [n \in 0..Size |->
                      {r \in T : Placing(deps, r) /\ Left(r) \in Nat /\ Left(r) <= Size - n}]
<1>10. Round[0] \in Held[0]
  <2>1. 0 \in 0..Size /\ Left(Start) = Size /\ Size \in Nat /\ Size <= Size - 0
    BY <1>1, <1>3 DEF Size
  <2> HIDE DEF Left
  <2> QED BY <1>3, <1>9, <2>1
<1>11. ASSUME NEW n \in 1..Size, Round[n - 1] \in Held[n - 1] PROVE Round[n] \in Held[n]
  <2> DEFINE r == Round[n - 1]
             s == Round[n]
  <2>1. n \in Nat /\ n \in 0..Size /\ n - 1 \in 0..Size
    BY <1>1
  <2>2. r \in T /\ Placing(deps, r) /\ Left(r) \in Nat /\ Left(r) <= Size - (n - 1)
    <3> HIDE DEF Left
    <3> QED BY <1>11, <2>1
  <2>3. s = NextRound(deps, r)
    BY <1>9
  <2>4. s \in T /\ Placing(deps, s) /\ Left(s) \in Nat /\ (r.remaining # {} => Left(s) < Left(r))
    BY <1>4, <2>2, <2>3
  <2>5. Left(s) <= Size - n
    <3>1. CASE r.remaining # {}
      <4> HIDE DEF Left, s, r
      <4> QED BY <1>1, <2>1, <2>2, <2>4, <3>1
    <3>2. CASE r.remaining = {}
      <4>1. s.remaining = {}
        BY <2>3, <3>2 DEF NextRound
      <4>2. Left(s) = 0
        BY <4>1, FS_EmptySet
      <4> HIDE DEF Left, s
      <4> QED BY <1>1, <2>1, <4>2
    <3> QED BY <3>1, <3>2
  <2> HIDE DEF Left, s, r
  <2>6. s \in Held[n]
    BY <2>1, <2>4, <2>5
  <2> QED BY <2>6 DEF s
<1> HIDE DEF Held
<1>12. Round[Size] \in Held[Size]
  <2>1. Size \in 0..Size
    BY <1>1
  <2> QED BY <1>1, <1>10, <1>11, <2>1, StepsWithin
<1> DEFINE last == Round[Size]
<1>13. last \in T /\ Placing(deps, last) /\ Left(last) = 0
  <2>1. Size \in 0..Size
    BY <1>1
  <2> HIDE DEF Left
  <2> QED BY <1>1, <1>12, <2>1 DEF Held
<1> HIDE DEF last
<1>14. last.remaining = {}
  <2>1. last.remaining \in SUBSET D
    BY <1>1, <1>13 DEF T, Rounds
  <2>2. IsFiniteSet(last.remaining)
    BY <1>1, <2>1, FS_Subset
  <2> QED BY <1>13, <2>2, FS_EmptySet
<1>15. /\ IsInjective(last.order) /\ Range(last.order) = D
       /\ \A c \in D : \A p \in deps[c] : Before(last.order, p, c)
  BY <1>1, <1>13, <1>14 DEF Placing
<1> QED BY <1>2, <1>15 DEF last, deps

-----------------------------------------------------------------------------
(* What is inferred from a lean blueprint.                                 *)

LEMMA RangeFinite == ASSUME NEW S, NEW s \in Seq(S) PROVE IsFiniteSet(Range(s))
<1>1. Len(s) \in Nat /\ DOMAIN s = 1..Len(s)
  OBVIOUS
<1>2. IsFiniteSet(1..Len(s))
  <2>1. 1 \in Int /\ Len(s) \in Int
    BY <1>1
  <2> QED BY <2>1, FS_Interval
<1>3. s \in Surjection(DOMAIN s, Range(s))
  BY <1>1 DEF Surjection, Range
<1> QED BY <1>1, <1>2, <1>3, FS_Surjection

\* The graph of a context, as AcceptedIsBuildable looks at it.
Buildable(matrix) ==
  LET nodes == DOMAIN matrix \ {INVARIANTS_NODE} IN
  /\ \A n \in nodes : matrix[n] \subseteq DOMAIN matrix \cup {INVARIANTS_NODE}
  /\ \A S \in (SUBSET nodes) \ {{}} : \E n \in S : matrix[n] \cap S = {}

\* Cores wait for nothing but the invariants, and the others for cores.
LEMMA InferredMatrix ==
  ASSUME NEW names, NEW ingest, NEW matrix, IsFiniteSet(Range(names)),
         matrix = [t \in Range(names) |-> DependsOn(names, ingest, t)]
  PROVE  /\ Buildable(matrix) /\ Closed(WaitsFor(matrix)) /\ NoLoop(WaitsFor(matrix))
         /\ \A c \in Range(names) : ~IsCore(c) =>
              \A p \in Range(names) : IsCore(p) /\ p # INVARIANTS_NODE => p \in WaitsFor(matrix)[c]
<1> DEFINE D == Range(names)
           cores == {n \in D : IsCore(n)}
<1>1. /\ DOMAIN matrix = D
      /\ \A t \in cores : matrix[t] \subseteq {INVARIANTS_NODE}
      /\ \A t \in D \ cores : matrix[t] = cores
  BY DEF DependsOn
<1>2. cores \subseteq D /\ \A t \in D : IsCore(t) <=> t \in cores
  OBVIOUS
<1> HIDE DEF D, cores
<1>3. \A S \in SUBSET D : S # {} => \E t \in S : matrix[t] \cap S \subseteq {INVARIANTS_NODE}
  <2> SUFFICES ASSUME NEW S \in SUBSET D, S # {}
               PROVE  \E t \in S : matrix[t] \cap S \subseteq {INVARIANTS_NODE}
    OBVIOUS
  <2>1. CASE \E t \in S : t \in cores
    <3>1. PICK t \in S : t \in cores
      BY <2>1
    <3>2. matrix[t] \subseteq {INVARIANTS_NODE}
      BY <1>1, <3>1
    <3> QED BY <3>1, <3>2
  <2>2. CASE ~\E t \in S : t \in cores
    <3>1. PICK t \in S : t \in D \ cores
      BY <2>2
    <3>2. matrix[t] \cap S = {}
      BY <1>1, <2>2, <3>1
    <3> QED BY <3>1, <3>2
  <2> QED BY <2>1, <2>2
<1>4. \A t \in D : matrix[t] \subseteq D \cup {INVARIANTS_NODE}
  BY <1>1, <1>2
<1>5. Buildable(matrix)
  <2>1. ASSUME NEW S \in (SUBSET (D \ {INVARIANTS_NODE})) \ {{}} PROVE \E n \in S : matrix[n] \cap S = {}
    <3>1. S \in SUBSET D /\ S # {} /\ INVARIANTS_NODE \notin S
      OBVIOUS
    <3> QED BY <1>3, <3>1
  <2> QED BY <1>1, <1>4, <2>1 DEF Buildable
<1>6. /\ DOMAIN WaitsFor(matrix) = D
      /\ \A t \in D : WaitsFor(matrix)[t] = matrix[t] \ {INVARIANTS_NODE}
  BY <1>1 DEF WaitsFor
<1>7. Closed(WaitsFor(matrix))
  BY <1>4, <1>6 DEF Closed, D
<1>8. NoLoop(WaitsFor(matrix))
  <2> SUFFICES ASSUME NEW S \in SUBSET D, S # {} PROVE \E t \in S : WaitsFor(matrix)[t] \cap S = {}
    BY <1>6 DEF NoLoop
  <2>1. PICK t \in S : matrix[t] \cap S \subseteq {INVARIANTS_NODE}
    BY <1>3
  <2>2. WaitsFor(matrix)[t] \cap S = {}
    BY <1>6, <2>1
  <2> QED BY <2>1, <2>2
<1>9. \A c \in D : ~IsCore(c) => \A p \in D : IsCore(p) /\ p # INVARIANTS_NODE => p \in WaitsFor(matrix)[c]
  BY <1>1, <1>2, <1>6
<1> QED BY <1>5, <1>7, <1>8, <1>9 DEF D

Ordered(c) ==
  /\ IsInjective(c.order) /\ Range(c.order) = Range(c.targets)
  /\ \A b \in c.boundaries : b.provider = INVARIANTS_NODE \/ Before(c.order, b.provider, b.consumer)

LEMMA InferredIs ==
  ASSUME NEW bp, bp.targets \in Seq(STRING)
  PROVE  LET c == InferredContext(bp) IN
         Ordered(c) /\ Range(c.targets) \subseteq DOMAIN c.matrix /\ Buildable(c.matrix)
<1> DEFINE names == bp.targets
           matrix == [t \in Range(names) |-> DependsOn(names, bp.ingest, t)]
           placed == TopologicalOrder(matrix)
           c == InferredContext(bp)
<1>1. /\ c.targets = names /\ c.matrix = matrix /\ c.order = placed
      /\ c.boundaries = Boundaries(names)
  BY DEF InferredContext, InferredDAG
<1>2. DOMAIN matrix = Range(names)
  OBVIOUS
<1>3. IsFiniteSet(Range(names))
  BY RangeFinite
<1> HIDE DEF matrix, c
<1>4. /\ Buildable(matrix) /\ Closed(WaitsFor(matrix)) /\ NoLoop(WaitsFor(matrix))
      /\ \A t \in Range(names) : ~IsCore(t) =>
           \A p \in Range(names) : IsCore(p) /\ p # INVARIANTS_NODE => p \in WaitsFor(matrix)[t]
  <2>1. matrix = [t \in Range(names) |-> DependsOn(names, bp.ingest, t)]
    BY DEF matrix
  <2> QED BY <1>3, <2>1, InferredMatrix
<1>5. /\ IsInjective(placed) /\ Range(placed) = Range(names)
      /\ \A t \in Range(names) : \A p \in WaitsFor(matrix)[t] : Before(placed, p, t)
  BY <1>2, <1>4, OrderPlacesAll
<1> HIDE DEF placed
<1>6. ASSUME NEW b \in Boundaries(names)
      PROVE  b.provider = INVARIANTS_NODE \/ Before(placed, b.provider, b.consumer)
  <2>1. /\ b.provider \in Range(names) /\ IsCore(b.provider)
        /\ b.consumer \in Range(names) /\ ~IsCore(b.consumer)
    BY DEF Boundaries
  <2> QED BY <1>4, <1>5, <2>1
<1>7. Ordered(c)
  BY <1>1, <1>5, <1>6 DEF Ordered
<1>8. Range(c.targets) \subseteq DOMAIN c.matrix
  BY <1>1, <1>2
<1> QED BY <1>1, <1>4, <1>7, <1>8 DEF c

-----------------------------------------------------------------------------
(* The search for a cycle in the INI format.                               *)

IsGraph(deps) == IsFiniteSet(DOMAIN deps) /\ \A n \in DOMAIN deps : deps[n] \in Seq(DOMAIN deps)

Behind(s) == {n \in DOMAIN s.visited : s.visited[n] = 2}
OnWay(s)  == {n \in DOMAIN s.visited : s.visited[n] = 1}

LoopFree(deps, T) == \A S \in SUBSET T : S # {} => \E t \in S : Range(deps[t]) \cap S = {}

\* What is behind the search leads to what is behind it only, and on no cycle.
Settled(deps, s) ==
  /\ \A n \in Behind(s) : Range(deps[n]) \subseteq Behind(s)
  /\ LoopFree(deps, Behind(s))

\* What a call may do to the search, short of finding a cycle.
Explored(deps, s, way, r) ==
  r.cyclic \/ (Settled(deps, r) /\ OnWay(r) = way /\ Behind(s) \subseteq Behind(r))

Ready(deps, s) == ~s.cyclic /\ Settled(deps, s)

Settles(deps, f) ==
  \A node \in DOMAIN deps : \A s \in Searches(deps) :
    Ready(deps, s) /\ s.visited[node] = 0 =>
      /\ Explored(deps, s, OnWay(s), f[node][s])
      /\ f[node][s].cyclic \/ node \in Behind(f[node][s])

Calls(deps) == [DOMAIN deps -> [Searches(deps) -> Searches(deps)]]

\* A node that needs nothing but what is behind may join it.
LEMMA LoopFreeWith ==
  ASSUME NEW deps, NEW T, NEW v, LoopFree(deps, T), v \notin T, Range(deps[v]) \subseteq T,
         \A t \in T : Range(deps[t]) \subseteq T
  PROVE  LoopFree(deps, T \cup {v})
<1> SUFFICES ASSUME NEW S \in SUBSET (T \cup {v}), S # {}
             PROVE  \E t \in S : Range(deps[t]) \cap S = {}
  BY DEF LoopFree
<1>1. CASE S \subseteq {v}
  BY <1>1
<1>2. CASE ~(S \subseteq {v})
  <2>1. S \ {v} \in SUBSET T /\ S \ {v} # {}
    BY <1>2
  <2>2. PICK t \in S \ {v} : Range(deps[t]) \cap (S \ {v}) = {}
    BY <2>1 DEF LoopFree
  <2>3. v \notin Range(deps[t])
    BY <2>1, <2>2
  <2> QED BY <2>2, <2>3
<1> QED BY <1>1, <1>2

LEMMA FollowSearches ==
  ASSUME NEW deps, NEW f \in Calls(deps), NEW t \in Searches(deps), NEW d
  PROVE  Follow(f, t, d) \in Searches(deps)
<1>1. t.visited \in [DOMAIN deps -> 0..2] /\ t.cyclic \in BOOLEAN
  BY DEF Searches
<1>2. [t EXCEPT !.cyclic = TRUE] \in Searches(deps)
  BY DEF Searches
<1>3. d \in DOMAIN t.visited => f[d][t] \in Searches(deps)
  BY <1>1 DEF Calls
<1> HIDE DEF Searches
<1> QED BY <1>2, <1>3 DEF Follow

\* A dependency is behind when it has been followed, or a cycle is found.
LEMMA FollowExplores ==
  ASSUME NEW deps, NEW f \in Calls(deps), Settles(deps, f), NEW d \in DOMAIN deps,
         NEW t \in Searches(deps), NEW s, NEW way, Explored(deps, s, way, t),
         NEW r, r = Follow(f, t, d)
  PROVE  Explored(deps, s, way, r) /\ (r.cyclic \/ (d \in Behind(r) /\ Behind(t) \subseteq Behind(r)))
<1>1. t.visited \in [DOMAIN deps -> 0..2] /\ t.cyclic \in BOOLEAN
  BY DEF Searches
<1>2. DOMAIN t.visited = DOMAIN deps /\ t.visited[d] \in 0..2
  BY <1>1
<1>3. CASE t.cyclic
  <2>1. r = t
    BY <1>3 DEF Follow
  <2> QED BY <1>3, <2>1 DEF Explored
<1>4. CASE ~t.cyclic /\ t.visited[d] = 1
  <2>1. r = [t EXCEPT !.cyclic = TRUE]
    BY <1>2, <1>4 DEF Follow
  <2>2. r.cyclic
    BY <2>1 DEF Searches
  <2> QED BY <2>2 DEF Explored
<1>5. CASE ~t.cyclic /\ t.visited[d] = 0
  <2>1. r = f[d][t]
    BY <1>2, <1>5 DEF Follow
  <2>2. Ready(deps, t) /\ OnWay(t) = way /\ Behind(s) \subseteq Behind(t)
    BY <1>5 DEF Explored, Ready
  <2>3. Explored(deps, t, OnWay(t), r) /\ (r.cyclic \/ d \in Behind(r))
    BY <1>5, <2>1, <2>2 DEF Settles
  <2> QED BY <2>2, <2>3 DEF Explored
<1>6. CASE ~t.cyclic /\ t.visited[d] = 2
  <2>1. r = t
    BY <1>2, <1>6 DEF Follow
  <2>2. d \in Behind(t)
    BY <1>2, <1>6 DEF Behind
  <2> QED BY <2>1, <2>2
<1>7. \/ t.cyclic
      \/ ~t.cyclic /\ t.visited[d] = 0
      \/ ~t.cyclic /\ t.visited[d] = 1
      \/ ~t.cyclic /\ t.visited[d] = 2
  BY <1>2
<1> QED BY <1>3, <1>4, <1>5, <1>6, <1>7

\* A node turns into one on the way, and that into one behind.
LEMMA Marked ==
  ASSUME NEW deps, NEW s \in Searches(deps), NEW node \in DOMAIN deps, NEW v \in 0..2,
         NEW r, r = [s EXCEPT !.visited[node] = v]
  PROVE  /\ r \in Searches(deps) /\ r.cyclic = s.cyclic
         /\ Behind(r) = IF v = 2 THEN Behind(s) \cup {node} ELSE Behind(s) \ {node}
         /\ OnWay(r) = IF v = 1 THEN OnWay(s) \cup {node} ELSE OnWay(s) \ {node}
<1>1. s.visited \in [DOMAIN deps -> 0..2] /\ s.cyclic \in BOOLEAN
      /\ s = [visited |-> s.visited, cyclic |-> s.cyclic]
  BY DEF Searches
<1>2. /\ r = [visited |-> [s.visited EXCEPT ![node] = v], cyclic |-> s.cyclic]
      /\ r.visited = [s.visited EXCEPT ![node] = v] /\ r.cyclic = s.cyclic
  BY <1>1
<1>3. /\ r.visited \in [DOMAIN deps -> 0..2] /\ r.visited[node] = v
      /\ \A n \in DOMAIN deps : n # node => r.visited[n] = s.visited[n]
  BY <1>1, <1>2
<1>4. r \in Searches(deps)
  BY <1>1, <1>2, <1>3 DEF Searches
<1>5. Behind(r) = IF v = 2 THEN Behind(s) \cup {node} ELSE Behind(s) \ {node}
  BY <1>1, <1>3 DEF Behind
<1>6. OnWay(r) = IF v = 1 THEN OnWay(s) \cup {node} ELSE OnWay(s) \ {node}
  BY <1>1, <1>3 DEF OnWay
<1> QED BY <1>2, <1>4, <1>5, <1>6

\* A call of dfs, one dependency after the other.
SearchSteps(deps, f, s, node, After) ==
  /\ After[0] = [s EXCEPT !.visited[node] = 1]
  /\ \A i \in 1..Len(deps[node]) : After[i] = Follow(f, After[i - 1], deps[node][i])
  /\ \A i \in 0..Len(deps[node]) : After[i] \in Searches(deps)

LEMMA SearchUnfolds ==
  ASSUME NEW deps, IsGraph(deps), NEW f \in Calls(deps), NEW node \in DOMAIN deps,
         NEW s \in Searches(deps)
  PROVE  \E After : /\ SearchSteps(deps, f, s, node, After)
                    /\ Search(deps, f, s, node) =
                         LET after == After[Len(deps[node])]
                         IN IF after.cyclic THEN after ELSE [after EXCEPT !.visited[node] = 2]
<1> DEFINE list == deps[node]
           Size == Len(list)
           T == Searches(deps)
           Start == [s EXCEPT !.visited[node] = 1]
           Body(g, i) == IF i = 0 THEN Start ELSE Follow(f, g[i - 1], list[i])
           After == CHOOSE g : g = [i \in 0..Size |-> Body(g, i)]
           turn == [i \in 1..Size |-> [t \in T |-> Follow(f, t, list[i])]]
           after == After[Size]
           left == [after EXCEPT !.visited[node] = 2]
<1>1. Size \in Nat
  BY DEF IsGraph
<1>2. Search(deps, f, s, node) = IF after.cyclic THEN after ELSE left
  BY DEF Search
<1>3. Start \in T
  BY Marked
<1>4. \A i \in 1..Size : \A t \in T : Follow(f, t, list[i]) \in T
  BY FollowSearches
<1> HIDE DEF Size, T, Start, list, left, after
<1>5. Steps(Size, T, Start, turn)
  BY <1>1, <1>3, <1>4 DEF Steps
<1>6. PICK g : Follows(g, Size, T, Start, turn)
  BY <1>5, StepByStep
<1>7. g = [i \in 0..Size |-> Body(g, i)]
  <2>1. g \in [0..Size -> T] /\ g[0] = Start /\ \A i \in 1..Size : g[i] = turn[i][g[i - 1]]
    BY <1>6 DEF Follows
  <2>2. ASSUME NEW i \in 0..Size PROVE g[i] = Body(g, i)
    <3>1. CASE i = 0
      BY <2>1, <3>1
    <3>2. CASE i # 0
      <4>1. i \in 1..Size /\ i - 1 \in 0..Size
        BY <1>1, <3>2
      <4>2. g[i - 1] \in T
        BY <2>1, <4>1
      <4> QED BY <2>1, <3>2, <4>1, <4>2
    <3> QED BY <3>1, <3>2
  <2> HIDE DEF Body
  <2> QED BY <2>1, <2>2
<1>8. After = [i \in 0..Size |-> Body(After, i)]
  <2> HIDE DEF Body
  <2> QED BY <1>7
<1> HIDE DEF After
<1>9. After[0] = Start /\ \A i \in 1..Size : After[i] = Follow(f, After[i - 1], list[i])
  <2>1. 0 \in 0..Size /\ \A i \in 1..Size : i \in 0..Size /\ i # 0
    BY <1>1
  <2>2. After[0] = Start
    BY <1>8, <2>1
  <2>3. ASSUME NEW i \in 1..Size PROVE After[i] = Follow(f, After[i - 1], list[i])
    BY <1>8, <2>1
  <2> QED BY <2>2, <2>3
<1>10. \A i \in 0..Size : After[i] \in T
  <2>1. \A i \in 1..Size : After[i - 1] \in T => After[i] = turn[i][After[i - 1]]
    BY <1>9
  <2> HIDE DEF turn
  <2> QED BY <1>5, <1>9, <2>1, StepsStay
<1>11. SearchSteps(deps, f, s, node, After)
  BY <1>9, <1>10 DEF SearchSteps, Size, T, Start, list
<1> QED BY <1>2, <1>11 DEF Size, list, after, left

\* Each dependency that was followed is behind, or a cycle was found.
LEMMA SearchFollows ==
  ASSUME NEW deps, IsGraph(deps), NEW f \in Calls(deps), Settles(deps, f),
         NEW node \in DOMAIN deps, NEW s \in Searches(deps), Ready(deps, s), s.visited[node] = 0,
         NEW After, SearchSteps(deps, f, s, node, After)
  PROVE  \A i \in 0..Len(deps[node]) :
           /\ Explored(deps, s, OnWay(s) \cup {node}, After[i])
           /\ After[i].cyclic \/ \A j \in 1..i : deps[node][j] \in Behind(After[i])
<1> DEFINE list == deps[node]
           Size == Len(list)
           T == Searches(deps)
           Start == [s EXCEPT !.visited[node] = 1]
           way == OnWay(s) \cup {node}
           Followed(t, i) == t.cyclic \/ \A j \in 1..i : list[j] \in Behind(t)
           Held == [i \in 0..Size |-> {t \in T : Explored(deps, s, way, t) /\ Followed(t, i)}]
<1>1. Size \in Nat /\ list \in Seq(DOMAIN deps) /\ \A i \in 1..Size : list[i] \in DOMAIN deps
  BY DEF IsGraph
<1>2. Start \in T /\ Start.cyclic = s.cyclic
      /\ Behind(Start) = Behind(s) \ {node} /\ OnWay(Start) = OnWay(s) \cup {node}
  BY Marked
<1>3. After[0] = Start /\ \A i \in 1..Size : After[i] = Follow(f, After[i - 1], list[i])
  BY DEF SearchSteps
<1>4. \A i \in 0..Size : After[i] \in T
  BY DEF SearchSteps
<1> HIDE DEF Size, T, Start, list
<1>5. node \notin Behind(s) /\ node \notin OnWay(s)
  BY DEF Behind, OnWay
<1>6. Behind(Start) = Behind(s) /\ OnWay(Start) = way
  BY <1>2, <1>5
<1>7. Explored(deps, s, way, Start)
  BY <1>6 DEF Explored, Ready, Settled
<1>8. After[0] \in Held[0]
  <2>1. 0 \in 0..Size /\ 1..0 = {}
    BY <1>1
  <2>2. Followed(Start, 0)
    BY <2>1
  <2> HIDE DEF Followed, way
  <2> QED BY <1>2, <1>3, <1>7, <2>1, <2>2
<1>9. ASSUME NEW i \in 1..Size, After[i - 1] \in Held[i - 1] PROVE After[i] \in Held[i]
  <2>1. i \in 0..Size /\ i - 1 \in 0..Size /\ \A j \in 1..i : j = i \/ j \in 1..(i - 1)
    BY <1>1
  <2>2. After[i - 1] \in T /\ Explored(deps, s, way, After[i - 1]) /\ Followed(After[i - 1], i - 1)
    <3> HIDE DEF Followed, way
    <3> QED BY <1>9, <2>1
  <2>3. list[i] \in DOMAIN deps /\ After[i] = Follow(f, After[i - 1], list[i])
    BY <1>1, <1>3
  <2> HIDE DEF way
  <2>4. /\ Explored(deps, s, way, After[i])
        /\ After[i].cyclic \/ (list[i] \in Behind(After[i]) /\ Behind(After[i - 1]) \subseteq Behind(After[i]))
    BY <2>2, <2>3, FollowExplores DEF T
  <2>5. After[i].cyclic \/ ~After[i - 1].cyclic
    <3>1. CASE After[i - 1].cyclic
      <4>1. After[i] = After[i - 1]
        BY <2>3, <3>1 DEF Follow
      <4> QED BY <3>1, <4>1
    <3> QED BY <3>1
  <2>6. Followed(After[i], i)
    <3>1. CASE After[i].cyclic
      BY <3>1
    <3>2. CASE ~After[i].cyclic
      <4>1. \A j \in 1..(i - 1) : list[j] \in Behind(After[i - 1])
        BY <2>2, <2>5, <3>2
      <4> QED BY <2>1, <2>4, <3>2, <4>1
    <3> QED BY <3>1, <3>2
  <2>7. After[i] \in T
    BY <1>4, <2>1
  <2> HIDE DEF Followed
  <2> QED BY <2>1, <2>4, <2>6, <2>7
<1> HIDE DEF Held
<1>10. \A i \in 0..Size : After[i] \in Held[i]
  BY <1>1, <1>8, <1>9, StepsWithin
<1>11. ASSUME NEW i \in 0..Size PROVE Explored(deps, s, way, After[i]) /\ Followed(After[i], i)
  <2> HIDE DEF way, Followed
  <2> QED BY <1>10 DEF Held
<1> QED BY <1>11 DEF Size, list

LEMMA SearchIs ==
  ASSUME NEW deps, IsGraph(deps), NEW f \in Calls(deps), NEW node \in DOMAIN deps,
         NEW s \in Searches(deps), NEW r, r = Search(deps, f, s, node)
  PROVE  /\ r \in Searches(deps)
         /\ Settles(deps, f) /\ Ready(deps, s) /\ s.visited[node] = 0 =>
              /\ Explored(deps, s, OnWay(s), r)
              /\ r.cyclic \/ node \in Behind(r)
<1> DEFINE list == deps[node]
           Size == Len(list)
           way == OnWay(s) \cup {node}
<1>1. PICK After : /\ SearchSteps(deps, f, s, node, After)
                   /\ r = LET after == After[Size]
                          IN IF after.cyclic THEN after ELSE [after EXCEPT !.visited[node] = 2]
  BY SearchUnfolds
<1> DEFINE after == After[Size]
           left == [after EXCEPT !.visited[node] = 2]
<1>2. r = IF after.cyclic THEN after ELSE left
  BY <1>1
<1>3. Size \in 0..Size /\ DOMAIN list = 1..Size
  BY DEF IsGraph
<1>4. after \in Searches(deps)
  BY <1>1, <1>3 DEF SearchSteps
<1> HIDE DEF after
<1>5. left \in Searches(deps) /\ left.cyclic = after.cyclic
      /\ Behind(left) = Behind(after) \cup {node} /\ OnWay(left) = OnWay(after) \ {node}
  BY <1>4, Marked
<1>6. r \in Searches(deps)
  BY <1>2, <1>4, <1>5
<1> HIDE DEF list, Size, left, way
<1>7. ASSUME Settles(deps, f), Ready(deps, s), s.visited[node] = 0
      PROVE  Explored(deps, s, OnWay(s), r) /\ (r.cyclic \/ node \in Behind(r))
  <2>1. Explored(deps, s, way, after) /\ (after.cyclic \/ \A j \in 1..Size : list[j] \in Behind(after))
    BY <1>1, <1>3, <1>7, SearchFollows DEF after, way, list, Size
  <2>2. node \notin OnWay(s)
    BY <1>7 DEF OnWay
  <2>3. CASE after.cyclic
    <3>1. r = after
      BY <1>2, <2>3
    <3> QED BY <2>3, <3>1 DEF Explored
  <2>4. CASE ~after.cyclic
    <3>1. r = left
      BY <1>2, <2>4
    <3>2. Settled(deps, after) /\ OnWay(after) = way /\ Behind(s) \subseteq Behind(after)
      BY <2>1, <2>4 DEF Explored
    <3>3. Range(list) \subseteq Behind(after)
      BY <1>3, <2>1, <2>4 DEF Range
    <3>4. node \notin Behind(after)
      BY <3>2 DEF OnWay, Behind, way
    <3>5. LoopFree(deps, Behind(after) \cup {node})
      BY <3>2, <3>3, <3>4, LoopFreeWith DEF Settled, list
    <3>6. Settled(deps, left)
      BY <1>5, <3>2, <3>3, <3>5 DEF Settled, list
    <3>7. OnWay(left) = OnWay(s)
      BY <1>5, <2>2, <3>2 DEF way
    <3> QED BY <1>5, <3>1, <3>2, <3>6, <3>7 DEF Explored
  <2> QED BY <2>3, <2>4
<1> QED BY <1>6, <1>7

\* Each node of W leads to the node, by nodes of which each but that needs one.
LeadTo(deps, W, node) ==
  \A w \in W : \E Q \in SUBSET DOMAIN deps :
    w \in Q /\ node \in Q /\ \A q \in Q \ {node} : Range(deps[q]) \cap Q # {}

\* A call that finds a cycle is right, at a depth that goes with the path.
Truthful(deps, f, depth) ==
  \A node \in DOMAIN deps : \A s \in Searches(deps) :
    Ready(deps, s) /\ s.visited[node] = 0 /\ LeadTo(deps, OnWay(s), node)
    /\ Cardinality(OnWay(s)) + depth = Cardinality(DOMAIN deps) /\ f[node][s].cyclic
      => ~LoopFree(deps, DOMAIN deps)

LEMMA LoopCloses ==
  ASSUME NEW deps, NEW W, NEW node \in DOMAIN deps, LeadTo(deps, W, node),
         NEW d \in W \cup {node}, d \in Range(deps[node])
  PROVE  ~LoopFree(deps, DOMAIN deps)
<1>1. PICK Q \in SUBSET DOMAIN deps :
        d \in Q /\ node \in Q /\ \A q \in Q \ {node} : Range(deps[q]) \cap Q # {}
  <2>1. CASE d = node
    <3>1. {node} \in SUBSET DOMAIN deps
      OBVIOUS
    <3> QED BY <2>1, <3>1
  <2>2. CASE d # node
    BY <2>2 DEF LeadTo
  <2> QED BY <2>1, <2>2
<1>2. \A q \in Q : Range(deps[q]) \cap Q # {}
  BY <1>1
<1> QED BY <1>1, <1>2 DEF LoopFree

LEMMA LeadFurther ==
  ASSUME NEW deps, NEW W, NEW node \in DOMAIN deps, LeadTo(deps, W, node),
         NEW d \in DOMAIN deps, d \in Range(deps[node])
  PROVE  LeadTo(deps, W \cup {node}, d)
<1> SUFFICES ASSUME NEW w \in W \cup {node}
             PROVE  \E Q \in SUBSET DOMAIN deps :
                      w \in Q /\ d \in Q /\ \A q \in Q \ {d} : Range(deps[q]) \cap Q # {}
  BY DEF LeadTo
<1>1. PICK Q \in SUBSET DOMAIN deps :
        w \in Q /\ node \in Q /\ \A q \in Q \ {node} : Range(deps[q]) \cap Q # {}
  <2>1. CASE w = node
    <3>1. {node} \in SUBSET DOMAIN deps
      OBVIOUS
    <3> QED BY <2>1, <3>1
  <2>2. CASE w # node
    BY <2>2 DEF LeadTo
  <2> QED BY <2>1, <2>2
<1> DEFINE R == Q \cup {d}
<1>2. R \in SUBSET DOMAIN deps /\ w \in R /\ d \in R
  BY <1>1
<1>3. ASSUME NEW q \in R \ {d} PROVE Range(deps[q]) \cap R # {}
  <2>1. CASE q = node
    BY <2>1
  <2>2. CASE q # node
    BY <1>1, <2>2
  <2> QED BY <2>1, <2>2
<1> HIDE DEF R
<1> QED BY <1>2, <1>3

\* One level up: the path is one longer for the calls of a call.
LEMMA SearchTruthful ==
  ASSUME NEW deps, IsGraph(deps), NEW f \in Calls(deps), Settles(deps, f),
         NEW depth \in Nat \ {0}, Truthful(deps, f, depth - 1),
         NEW node \in DOMAIN deps, NEW s \in Searches(deps), Ready(deps, s), s.visited[node] = 0,
         LeadTo(deps, OnWay(s), node),
         Cardinality(OnWay(s)) + depth = Cardinality(DOMAIN deps),
         Search(deps, f, s, node).cyclic
  PROVE  ~LoopFree(deps, DOMAIN deps)
<1> DEFINE list == deps[node]
           Size == Len(list)
           way == OnWay(s) \cup {node}
<1>1. PICK After : /\ SearchSteps(deps, f, s, node, After)
                   /\ Search(deps, f, s, node) =
                        LET after == After[Size]
                        IN IF after.cyclic THEN after ELSE [after EXCEPT !.visited[node] = 2]
  BY SearchUnfolds
<1>2. Size \in Nat /\ \A i \in 1..Size : list[i] \in DOMAIN deps /\ list[i] \in Range(list)
  BY DEF IsGraph, Range
<1>3. After[Size].cyclic
  <2>1. After[Size] \in Searches(deps)
    BY <1>1, <1>2 DEF SearchSteps
  <2>2. [After[Size] EXCEPT !.visited[node] = 2].cyclic = After[Size].cyclic
    BY <2>1, Marked
  <2> HIDE DEF Size
  <2> QED BY <1>1, <2>2
<1>4. \A i \in 0..Size : Explored(deps, s, way, After[i])
  BY <1>1, SearchFollows
<1>5. IsFiniteSet(OnWay(s)) /\ node \notin OnWay(s) /\ Cardinality(way) = Cardinality(OnWay(s)) + 1
  <2>1. OnWay(s) \subseteq DOMAIN deps /\ node \notin OnWay(s)
    BY DEF OnWay, Searches
  <2>2. IsFiniteSet(OnWay(s))
    BY <2>1, FS_Subset DEF IsGraph
  <2> QED BY <2>1, <2>2, FS_AddElement
<1>6. Cardinality(way) + (depth - 1) = Cardinality(DOMAIN deps)
  <2>1. Cardinality(OnWay(s)) \in Nat
    BY <1>5, FS_CardinalityType
  <2> HIDE DEF way
  <2> QED BY <1>5, <2>1
<1> DEFINE Held == [i \in 0..Size |-> {t \in Searches(deps) : t.cyclic => ~LoopFree(deps, DOMAIN deps)}]
<1>7. After[0] \in Held[0]
  <2>1. 0 \in 0..Size /\ After[0] \in Searches(deps) /\ After[0] = [s EXCEPT !.visited[node] = 1]
    BY <1>1, <1>2 DEF SearchSteps
  <2>2. ~After[0].cyclic
    BY <2>1, Marked DEF Ready
  <2> QED BY <2>1, <2>2
<1>8. ASSUME NEW i \in 1..Size, After[i - 1] \in Held[i - 1] PROVE After[i] \in Held[i]
  <2> DEFINE t == After[i - 1]
             d == list[i]
  <2>1. i \in 0..Size /\ i - 1 \in 0..Size
    BY <1>2
  <2>2. /\ t \in Searches(deps) /\ (t.cyclic => ~LoopFree(deps, DOMAIN deps))
        /\ After[i] \in Searches(deps) /\ After[i] = Follow(f, t, d)
    BY <1>1, <1>8, <2>1 DEF SearchSteps
  <2>3. d \in DOMAIN deps /\ d \in Range(deps[node])
    BY <1>2
  <2>4. DOMAIN t.visited = DOMAIN deps /\ t.visited[d] \in 0..2
    BY <2>2, <2>3 DEF Searches
  <2>5. Explored(deps, s, way, t)
    BY <1>4, <2>1
  <2> HIDE DEF t, d, way
  <2>6. ASSUME After[i].cyclic PROVE ~LoopFree(deps, DOMAIN deps)
    <3>1. CASE t.cyclic
      BY <2>2, <3>1
    <3>2. CASE ~t.cyclic /\ t.visited[d] = 1
      <4>1. d \in OnWay(s) \cup {node}
        BY <2>3, <2>4, <2>5, <3>2 DEF Explored, OnWay, way
      <4> QED BY <2>3, <4>1, LoopCloses
    <3>3. CASE ~t.cyclic /\ t.visited[d] = 0
      <4>1. After[i] = f[d][t]
        BY <2>2, <2>4, <2>3, <3>3 DEF Follow
      <4>2. Ready(deps, t) /\ OnWay(t) = way
        BY <2>5, <3>3 DEF Explored, Ready
      <4>3. LeadTo(deps, way, d)
        BY <2>3, LeadFurther DEF way
      <4> QED BY <1>6, <2>2, <2>3, <2>6, <3>3, <4>1, <4>2, <4>3 DEF Truthful
    <3>4. CASE ~t.cyclic /\ t.visited[d] = 2
      <4>1. After[i] = t
        BY <2>2, <2>4, <3>4 DEF Follow
      <4> QED BY <2>6, <3>4, <4>1
    <3> QED BY <2>4, <3>1, <3>2, <3>3, <3>4
  <2> HIDE DEF Size
  <2> QED BY <2>1, <2>2, <2>6
<1> HIDE DEF Held, Size
<1>9. Size \in 0..Size /\ After[Size] \in Held[Size]
  BY <1>2, <1>7, <1>8, StepsWithin
<1> QED BY <1>3, <1>9 DEF Held

LEMMA DfsIs ==
  ASSUME NEW deps, IsGraph(deps)
  PROVE  /\ Dfs(deps) \in Calls(deps) /\ Settles(deps, Dfs(deps))
         /\ Truthful(deps, Dfs(deps), Cardinality(DOMAIN deps))
<1> DEFINE D == DOMAIN deps
           S == Searches(deps)
           Size == Cardinality(D)
           T == {f \in Calls(deps) : Settles(deps, f)}
           TooDeep == [node \in D |-> [s \in S |-> [s EXCEPT !.cyclic = TRUE]]]
           Deeper(f) == [node \in D |-> [s \in S |-> Search(deps, f, s, node)]]
           Body(g, k) == [node \in D |-> [s \in S |->
                            IF k = 0 THEN [s EXCEPT !.cyclic = TRUE] ELSE Search(deps, g[k - 1], s, node)]]
           Call == CHOOSE g : g = [k \in 0..Size |-> Body(g, k)]
           turn == [k \in 1..Size |-> [f \in T |-> Deeper(f)]]
<1>1. Dfs(deps) = Call[Size]
  BY DEF Dfs
<1>2. Size \in Nat
  BY FS_CardinalityType DEF IsGraph
<1>3. TooDeep \in T
  <2>1. \A s \in S : [s EXCEPT !.cyclic = TRUE] \in S /\ [s EXCEPT !.cyclic = TRUE].cyclic
    BY DEF Searches
  <2>2. TooDeep \in Calls(deps)
    <3> HIDE DEF S
    <3> QED BY <2>1 DEF Calls, S
  <2>3. \A node \in D : \A s \in S : TooDeep[node][s].cyclic
    <3> HIDE DEF S
    <3> QED BY <2>1
  <2> HIDE DEF TooDeep
  <2> QED BY <2>2, <2>3 DEF Settles, Explored
<1>4. ASSUME NEW f \in T PROVE Deeper(f) \in T
  <2>1. f \in Calls(deps) /\ Settles(deps, f)
    OBVIOUS
  <2>2. ASSUME NEW node \in D, NEW s \in S
        PROVE  /\ Search(deps, f, s, node) \in S
               /\ Ready(deps, s) /\ s.visited[node] = 0 =>
                    /\ Explored(deps, s, OnWay(s), Search(deps, f, s, node))
                    /\ Search(deps, f, s, node).cyclic \/ node \in Behind(Search(deps, f, s, node))
    BY <2>1, SearchIs
  <2> HIDE DEF S
  <2>3. Deeper(f) \in Calls(deps)
    BY <2>2 DEF Calls, S
  <2>4. \A node \in D : \A s \in S : Deeper(f)[node][s] = Search(deps, f, s, node)
    OBVIOUS
  <2> HIDE DEF Deeper
  <2>5. Settles(deps, Deeper(f))
    BY <2>2, <2>4 DEF Settles, S
  <2> QED BY <2>3, <2>5
<1>5. ASSUME NEW g, NEW k, k = 0 PROVE Body(g, k) = TooDeep
  BY <1>5
<1>6. ASSUME NEW g, NEW k, k # 0 PROVE Body(g, k) = Deeper(g[k - 1])
  BY <1>6
<1> HIDE DEF Size, T, TooDeep, Deeper, Body
<1>7. Steps(Size, T, TooDeep, turn)
  BY <1>2, <1>3, <1>4 DEF Steps
<1>8. PICK g : Follows(g, Size, T, TooDeep, turn)
  BY <1>7, StepByStep
<1>9. g = [k \in 0..Size |-> Body(g, k)]
  <2>1. g \in [0..Size -> T] /\ g[0] = TooDeep /\ \A k \in 1..Size : g[k] = turn[k][g[k - 1]]
    BY <1>8 DEF Follows
  <2>2. ASSUME NEW k \in 0..Size PROVE g[k] = Body(g, k)
    <3>1. CASE k = 0
      BY <1>5, <2>1, <3>1
    <3>2. CASE k # 0
      <4>1. k \in 1..Size /\ k - 1 \in 0..Size
        BY <1>2, <3>2
      <4>2. g[k - 1] \in T
        BY <2>1, <4>1
      <4>3. g[k] = Deeper(g[k - 1])
        BY <2>1, <4>1, <4>2
      <4> QED BY <1>6, <3>2, <4>3
    <3> QED BY <3>1, <3>2
  <2> QED BY <2>1, <2>2
<1>10. Call = [k \in 0..Size |-> Body(Call, k)]
  BY <1>9
<1> HIDE DEF Call
<1>11. Call[0] = TooDeep /\ \A k \in 1..Size : Call[k - 1] \in T => Call[k] = turn[k][Call[k - 1]]
  <2>1. 0 \in 0..Size /\ \A k \in 1..Size : k \in 0..Size /\ k # 0
    BY <1>2
  <2>2. Call[0] = TooDeep
    BY <1>5, <1>10, <2>1
  <2>3. ASSUME NEW k \in 1..Size, Call[k - 1] \in T PROVE Call[k] = turn[k][Call[k - 1]]
    BY <1>6, <1>10, <2>1, <2>3
  <2> QED BY <2>2, <2>3
<1> HIDE DEF turn
<1>12. \A k \in 0..Size : Call[k] \in T
  BY <1>7, <1>11, StepsStay
<1> DEFINE Held == [k \in 0..Size |-> {f \in T : Truthful(deps, f, k)}]
<1>13. Call[0] \in Held[0]
  <2>1. ASSUME NEW node \in D, NEW s \in S, s.visited[node] = 0, Cardinality(OnWay(s)) + 0 = Size
        PROVE  FALSE
    <3>1. OnWay(s) \subseteq D /\ node \notin OnWay(s)
      BY <2>1 DEF OnWay, Searches
    <3>2. IsFiniteSet(OnWay(s)) /\ (Cardinality(OnWay(s)) = Cardinality(D) => OnWay(s) = D)
      BY <3>1, FS_Subset DEF IsGraph
    <3>3. Cardinality(OnWay(s)) = Cardinality(D)
      BY <2>1, <3>2, FS_CardinalityType DEF Size
    <3> QED BY <3>1, <3>2, <3>3
  <2>2. Truthful(deps, Call[0], 0)
    <3> SUFFICES ASSUME NEW node \in D, NEW s \in S, s.visited[node] = 0,
                        Cardinality(OnWay(s)) + 0 = Size
                 PROVE  FALSE
      BY DEF Truthful, Size
    <3> QED BY <2>1
  <2>3. 0 \in 0..Size
    BY <1>2
  <2> QED BY <1>12, <2>2, <2>3
<1>14. ASSUME NEW k \in 1..Size, Call[k - 1] \in Held[k - 1] PROVE Call[k] \in Held[k]
  <2>1. k \in 0..Size /\ k - 1 \in 0..Size /\ k \in Nat \ {0}
    BY <1>2
  <2> DEFINE f == Call[k - 1]
  <2>2. f \in T /\ Truthful(deps, f, k - 1)
    BY <1>14, <2>1
  <2>3. Call[k] = Deeper(f)
    BY <1>6, <1>10, <2>1
  <2>4. f \in Calls(deps) /\ Settles(deps, f)
    BY <2>2 DEF T
  <2> HIDE DEF f
  <2>5. \A node \in D : \A s \in S : Call[k][node][s] = Search(deps, f, s, node)
    BY <2>3 DEF Deeper
  <2>6. Truthful(deps, Call[k], k)
    <3> SUFFICES ASSUME NEW node \in D, NEW s \in S, Ready(deps, s), s.visited[node] = 0,
                        LeadTo(deps, OnWay(s), node),
                        Cardinality(OnWay(s)) + k = Cardinality(D), Call[k][node][s].cyclic
                 PROVE  ~LoopFree(deps, D)
      BY DEF Truthful
    <3>1. Search(deps, f, s, node).cyclic
      BY <2>5
    <3> QED BY <2>1, <2>2, <2>4, <3>1, SearchTruthful
  <2> QED BY <1>12, <2>1, <2>6
<1> HIDE DEF Held
<1>15. Size \in 0..Size /\ Call[Size] \in Held[Size]
  BY <1>2, <1>13, <1>14, StepsWithin
<1> QED BY <1>1, <1>15 DEF T, Held, Size

\* detect_cycles finds a cycle if there is one, whatever order the nodes come
\* in: where it finds none it has left every node behind, and each one it
\* finds is there.
THEOREM CycleCheckIsExact ==
  ASSUME NEW deps, IsGraph(deps), NEW nodes \in Seq(DOMAIN deps), Range(nodes) = DOMAIN deps
  PROVE  detect_cycles(nodes, deps) <=> ~LoopFree(deps, DOMAIN deps)
<1> DEFINE D == DOMAIN deps
           Size == Len(nodes)
           T == Searches(deps)
           dfs == Dfs(deps)
           Next1(s, i) == IF s.cyclic \/ s.visited[nodes[i]] # 0 THEN s ELSE dfs[nodes[i]][s]
           Body(g, i) == IF i = 0 THEN Unvisited(deps) ELSE Next1(g[i - 1], i)
           Searched == CHOOSE g : g = [i \in 0..Size |-> Body(g, i)]
           turn == [i \in 1..Size |-> [s \in T |-> Next1(s, i)]]
<1>1. Size \in Nat /\ \A i \in 1..Size : nodes[i] \in D
  OBVIOUS
<1>2. detect_cycles(nodes, deps) = Searched[Size].cyclic
  BY DEF detect_cycles
<1>3. dfs \in [D -> [T -> T]] /\ Settles(deps, dfs) /\ Truthful(deps, dfs, Cardinality(D))
  BY DfsIs DEF Calls
<1>4. /\ Unvisited(deps) \in T /\ Behind(Unvisited(deps)) = {} /\ OnWay(Unvisited(deps)) = {}
      /\ Unvisited(deps).cyclic = FALSE
  BY DEF Unvisited, Searches, Behind, OnWay
<1> HIDE DEF Size, T, dfs
<1>5. \A i \in 1..Size : \A s \in T : Next1(s, i) \in T
  BY <1>1, <1>3
<1>6. Steps(Size, T, Unvisited(deps), turn)
  BY <1>1, <1>4, <1>5 DEF Steps
<1> HIDE DEF Next1
<1>7. PICK g : Follows(g, Size, T, Unvisited(deps), turn)
  BY <1>6, StepByStep
<1>8. g = [i \in 0..Size |-> Body(g, i)]
  <2>1. g \in [0..Size -> T] /\ g[0] = Unvisited(deps) /\ \A i \in 1..Size : g[i] = turn[i][g[i - 1]]
    BY <1>7 DEF Follows
  <2>2. ASSUME NEW i \in 0..Size PROVE g[i] = Body(g, i)
    <3>1. CASE i = 0
      BY <2>1, <3>1
    <3>2. CASE i # 0
      <4>1. i \in 1..Size /\ i - 1 \in 0..Size
        BY <1>1, <3>2
      <4>2. g[i - 1] \in T
        BY <2>1, <4>1
      <4> QED BY <2>1, <3>2, <4>1, <4>2
    <3> QED BY <3>1, <3>2
  <2> HIDE DEF Body
  <2> QED BY <2>1, <2>2
<1>9. Searched = [i \in 0..Size |-> Body(Searched, i)]
  <2> HIDE DEF Body
  <2> QED BY <1>8
<1> HIDE DEF Searched
<1>10. Searched[0] = Unvisited(deps) /\ \A i \in 1..Size : Searched[i] = Next1(Searched[i - 1], i)
  <2>1. 0 \in 0..Size /\ \A i \in 1..Size : i \in 0..Size /\ i # 0
    BY <1>1
  <2>2. Searched[0] = Unvisited(deps)
    BY <1>9, <2>1
  <2>3. ASSUME NEW i \in 1..Size PROVE Searched[i] = Next1(Searched[i - 1], i)
    BY <1>9, <2>1
  <2> QED BY <2>2, <2>3
<1> DEFINE Root(s, i) == /\ Settled(deps, s) /\ OnWay(s) = {}
                         /\ \A j \in 1..i : nodes[j] \in Behind(s)
           Held == [i \in 0..Size |-> {s \in T :
                     IF s.cyclic THEN ~LoopFree(deps, D) ELSE Root(s, i)}]
<1>11. Searched[0] \in Held[0]
  <2>1. 0 \in 0..Size /\ 1..0 = {}
    BY <1>1
  <2>2. Root(Unvisited(deps), 0)
    BY <1>4, <2>1 DEF Settled, LoopFree
  <2> HIDE DEF Root
  <2> QED BY <1>4, <1>10, <2>1, <2>2
<1>12. ASSUME NEW i \in 1..Size, Searched[i - 1] \in Held[i - 1] PROVE Searched[i] \in Held[i]
  <2> DEFINE s == Searched[i - 1]
             r == Searched[i]
             n == nodes[i]
  <2>1. i \in 0..Size /\ i - 1 \in 0..Size /\ \A j \in 1..i : j = i \/ j \in 1..(i - 1)
    BY <1>1
  <2>2. s \in T /\ IF s.cyclic THEN ~LoopFree(deps, D) ELSE Root(s, i - 1)
    <3> HIDE DEF Root
    <3> QED BY <1>12, <2>1
  <2>3. r = Next1(s, i) /\ r \in T /\ n \in D
    BY <1>1, <1>5, <1>10, <2>2
  <2>4. s.visited \in [D -> 0..2] /\ s.cyclic \in BOOLEAN
    BY <2>2 DEF T, Searches
  <2> HIDE DEF s, r
  <2>5. CASE s.cyclic
    <3>1. r = s
      BY <2>3, <2>5 DEF Next1
    <3> HIDE DEF Root
    <3> QED BY <2>1, <2>2, <2>3, <2>5, <3>1 DEF r
  <2>6. CASE ~s.cyclic /\ s.visited[n] # 0
    <3>1. r = s
      BY <2>3, <2>6 DEF Next1
    <3>2. n \in Behind(s)
      BY <2>2, <2>3, <2>4, <2>6 DEF Behind, OnWay
    <3>3. Root(r, i)
      BY <2>1, <2>2, <2>6, <3>1, <3>2
    <3> HIDE DEF Root
    <3> QED BY <2>1, <2>3, <2>6, <3>1, <3>3 DEF r
  <2>7. CASE ~s.cyclic /\ s.visited[n] = 0
    <3>1. r = dfs[n][s]
      BY <2>3, <2>7 DEF Next1
    <3>2. Ready(deps, s) /\ OnWay(s) = {}
      BY <2>2, <2>7 DEF Ready
    <3>3. Explored(deps, s, OnWay(s), r) /\ (r.cyclic \/ n \in Behind(r))
      BY <1>3, <2>2, <2>3, <2>7, <3>1, <3>2 DEF Settles, T
    <3>4. IF r.cyclic THEN ~LoopFree(deps, D) ELSE Root(r, i)
      <4>1. CASE r.cyclic
        <5>1. LeadTo(deps, OnWay(s), n) /\ Cardinality(OnWay(s)) + Cardinality(D) = Cardinality(D)
          BY <3>2, FS_EmptySet, FS_CardinalityType DEF LeadTo, IsGraph
        <5>2. dfs[n][s].cyclic /\ s \in Searches(deps) /\ s.visited[n] = 0
          BY <2>2, <2>7, <3>1, <4>1 DEF T
        <5>3. Truthful(deps, dfs, Cardinality(D))
          BY <1>3
        <5>4. ~LoopFree(deps, D)
          BY <2>3, <3>2, <5>1, <5>2, <5>3 DEF Truthful
        <5> HIDE DEF Root
        <5> QED BY <4>1, <5>4
      <4>2. CASE ~r.cyclic
        <5>1. Settled(deps, r) /\ OnWay(r) = {} /\ Behind(s) \subseteq Behind(r) /\ n \in Behind(r)
          BY <3>2, <3>3, <4>2 DEF Explored
        <5>2. \A j \in 1..(i - 1) : nodes[j] \in Behind(s)
          BY <2>2, <2>7
        <5>3. \A j \in 1..i : nodes[j] \in Behind(r)
          BY <2>1, <5>1, <5>2
        <5>4. Root(r, i)
          BY <5>1, <5>3
        <5> HIDE DEF Root
        <5> QED BY <4>2, <5>4
      <4> HIDE DEF Root
      <4> QED BY <4>1, <4>2
    <3> HIDE DEF Root
    <3> QED BY <2>1, <2>3, <3>4 DEF r
  <2> QED BY <2>5, <2>6, <2>7
<1> HIDE DEF Held
<1>13. Size \in 0..Size
  BY <1>1
<1>14. Searched[Size] \in Held[Size]
  BY <1>1, <1>11, <1>12, <1>13, StepsWithin
<1>15. Searched[Size] \in T
       /\ IF Searched[Size].cyclic THEN ~LoopFree(deps, D) ELSE Root(Searched[Size], Size)
  <2> HIDE DEF Root
  <2> QED BY <1>13, <1>14 DEF Held
<1>16. CASE Searched[Size].cyclic
  BY <1>2, <1>15, <1>16
<1>17. CASE ~Searched[Size].cyclic
  <2>1. Settled(deps, Searched[Size]) /\ \A j \in 1..Size : nodes[j] \in Behind(Searched[Size])
    BY <1>15, <1>17
  <2>2. DOMAIN nodes = 1..Size
    BY DEF Size
  <2>3. D \subseteq Behind(Searched[Size])
    BY <2>1, <2>2 DEF Range
  <2>4. Behind(Searched[Size]) \subseteq D
    BY <1>15 DEF Behind, T, Searches
  <2>5. Behind(Searched[Size]) = D
    BY <2>3, <2>4
  <2> QED BY <1>2, <1>17, <2>1, <2>5 DEF Settled
<1> QED BY <1>16, <1>17

-----------------------------------------------------------------------------
(* The sections of an INI file.                                            *)

KeyNames(lines) == {lines[i].name : i \in DOMAIN lines}

Values(lines) == {lines[i].value : i \in DOMAIN lines}

Tables(lines) == UNION {[K -> Values(lines)] : K \in SUBSET KeyNames(lines)}

SectionMaps(lines) == UNION {[D -> Tables(lines)] : D \in SUBSET KeyNames(lines)}

LineErrors == {Ok, "unrecognized", "section", "key"}

IniRead(lines) ==
  [sections : SectionMaps(lines), current : KeyNames(lines) \cup {""}, error : LineErrors]

LEMMA TablesAre ==
  ASSUME NEW lines
  PROVE  /\ NoNames \in Tables(lines) /\ NoNames \in SectionMaps(lines)
         /\ \A t \in Tables(lines) : /\ DOMAIN t \subseteq KeyNames(lines)
                                     /\ \A k \in DOMAIN t : t[k] \in Values(lines)
         /\ \A m \in SectionMaps(lines) : /\ DOMAIN m \subseteq KeyNames(lines)
                                          /\ \A s \in DOMAIN m : m[s] \in Tables(lines)
         /\ \A D \in SUBSET KeyNames(lines) :
              /\ \A t \in [D -> Values(lines)] : t \in Tables(lines)
              /\ \A m \in [D -> Tables(lines)] : m \in SectionMaps(lines)
<1> DEFINE Ks == KeyNames(lines)
           Vs == Values(lines)
           Ts == Tables(lines)
           Ms == SectionMaps(lines)
<1>1. Ts = UNION {[K -> Vs] : K \in SUBSET Ks}
  BY DEF Tables
<1>2. Ms = UNION {[D -> Ts] : D \in SUBSET Ks}
  BY DEF SectionMaps
<1> HIDE DEF Ks, Vs, Ts, Ms
<1>3. NoNames \in [{} -> Vs] /\ NoNames \in [{} -> Ts] /\ {} \in SUBSET Ks
  BY DEF NoNames
<1>4. NoNames \in Ts
  BY <1>1, <1>3
<1>5. NoNames \in Ms
  BY <1>2, <1>3
<1>6. \A t \in Ts : DOMAIN t \subseteq Ks /\ \A k \in DOMAIN t : t[k] \in Vs
  BY <1>1
<1>7. \A m \in Ms : DOMAIN m \subseteq Ks /\ \A s \in DOMAIN m : m[s] \in Ts
  BY <1>2
<1>8. \A D \in SUBSET Ks : \A t \in [D -> Vs] : t \in Ts
  BY <1>1
<1>9. \A D \in SUBSET Ks : \A m \in [D -> Ts] : m \in Ms
  BY <1>2
<1> QED BY <1>4, <1>5, <1>6, <1>7, <1>8, <1>9 DEF Ks, Vs, Ts, Ms

LEMMA ReadLineReads ==
  ASSUME NEW lines, NEW n \in DOMAIN lines, NEW read \in IniRead(lines),
         lines[n].kind \in {"header", "pair", "odd"}
  PROVE  ReadLine(lines[n], read) \in IniRead(lines)
<1> DEFINE line == lines[n]
           Ks == KeyNames(lines)
           Vs == Values(lines)
           Ts == Tables(lines)
           Ms == SectionMaps(lines)
           sections == read.sections
           current == read.current
           Fails(e) == [read EXCEPT !.error = e]
           opened == [s \in DOMAIN sections \cup {line.name} |->
                        IF s = line.name THEN NoNames ELSE sections[s]]
           table == sections[current]
           added == [k \in DOMAIN table \cup {line.name} |-> IF k = line.name THEN line.value ELSE table[k]]
           pairs == [sections EXCEPT ![current] = added]
<1>1. line.name \in Ks /\ line.value \in Vs
  BY DEF KeyNames, Values
<1>2. /\ read = [sections |-> sections, current |-> current, error |-> read.error]
      /\ sections \in Ms /\ current \in Ks \cup {""} /\ read.error \in LineErrors
  BY DEF IniRead
<1>3. /\ NoNames \in Ts
      /\ \A t \in Ts : DOMAIN t \subseteq Ks /\ \A k \in DOMAIN t : t[k] \in Vs
      /\ \A m \in Ms : DOMAIN m \subseteq Ks /\ \A s \in DOMAIN m : m[s] \in Ts
      /\ \A D \in SUBSET Ks : /\ \A t \in [D -> Vs] : t \in Ts
                              /\ \A m \in [D -> Ts] : m \in Ms
  BY TablesAre
<1>4. \A m \in Ms : m \in [DOMAIN m -> Ts]
  <2>1. \A m \in Ms : m = [s \in DOMAIN m |-> m[s]]
    BY DEF SectionMaps
  <2> HIDE DEF Ts, Ms
  <2> QED BY <1>3, <2>1
<1>14. IniRead(lines) = [sections : Ms, current : Ks \cup {""}, error : LineErrors]
  BY DEF IniRead
<1>5. \A e \in LineErrors : Fails(e) \in IniRead(lines)
  BY DEF IniRead
<1>15. "unrecognized" \in LineErrors /\ "section" \in LineErrors /\ "key" \in LineErrors
  BY DEF LineErrors
<1> HIDE DEF Fails
<1> SUFFICES ReadLine(line, read) \in IniRead(lines)
  OBVIOUS
<1>13. line.kind \in {"header", "pair", "odd"}
  OBVIOUS
<1> HIDE DEF Ks, Vs, Ts, Ms, line
<1>6. opened \in Ms
  <2>1. DOMAIN sections \cup {line.name} \in SUBSET Ks
    BY <1>1, <1>2, <1>3
  <2>2. opened \in [DOMAIN sections \cup {line.name} -> Ts]
    BY <1>2, <1>3
  <2> QED BY <1>3, <2>1, <2>2
<1>7. current \in DOMAIN sections => added \in Ts
  <2> SUFFICES ASSUME current \in DOMAIN sections PROVE added \in Ts
    OBVIOUS
  <2>1. table \in Ts
    BY <1>2, <1>3
  <2> HIDE DEF table
  <2>2. DOMAIN table \cup {line.name} \in SUBSET Ks
    BY <1>1, <1>3, <2>1
  <2>3. added \in [DOMAIN table \cup {line.name} -> Vs]
    BY <1>1, <1>3, <2>1
  <2> QED BY <1>3, <2>2, <2>3
<1>8. pairs \in Ms
  <2> HIDE DEF added
  <2>1. DOMAIN sections \in SUBSET Ks /\ sections \in [DOMAIN sections -> Ts]
    BY <1>2, <1>3, <1>4
  <2>2. pairs \in [DOMAIN sections -> Ts]
    BY <1>7, <2>1
  <2> QED BY <1>3, <2>1, <2>2
<1>9. CASE read.error # Ok
  BY <1>9 DEF ReadLine
<1>10. CASE read.error = Ok /\ line.kind = "odd"
  <2>1. ReadLine(line, read) = Fails("unrecognized")
    BY <1>10 DEF ReadLine, Fails
  <2> QED BY <1>5, <1>15, <2>1
<1>11. CASE read.error = Ok /\ line.kind = "header"
  <2>1. CASE line.name = "" \/ line.name \in DOMAIN sections
    <3>1. ReadLine(line, read) = Fails("section")
      BY <1>11, <2>1 DEF ReadLine, Fails
    <3> QED BY <1>5, <1>15, <3>1
  <2>2. CASE ~(line.name = "" \/ line.name \in DOMAIN sections)
    <3>1. ReadLine(line, read) = [read EXCEPT !.current = line.name, !.sections = opened]
      BY <1>11, <2>2 DEF ReadLine
    <3> HIDE DEF opened
    <3>2. ReadLine(line, read) = [sections |-> opened, current |-> line.name, error |-> read.error]
      BY <1>2, <3>1
    <3> QED BY <1>1, <1>2, <1>6, <1>14, <3>2
  <2> QED BY <2>1, <2>2
<1>12. CASE read.error = Ok /\ line.kind = "pair"
  <2>1. CASE current = "" \/ line.name = ""
    <3>1. ReadLine(line, read) = Fails("key")
      BY <1>12, <2>1 DEF ReadLine, Fails
    <3> QED BY <1>5, <1>15, <3>1
  <2>2. CASE ~(current = "" \/ line.name = "")
    <3>1. ReadLine(line, read) = [read EXCEPT !.sections = pairs]
      BY <1>2, <1>12, <2>2 DEF ReadLine
    <3> HIDE DEF pairs
    <3>2. ReadLine(line, read) = [sections |-> pairs, current |-> current, error |-> read.error]
      BY <1>2, <3>1
    <3> QED BY <1>2, <1>8, <1>14, <3>2
  <2> QED BY <2>1, <2>2
<1> QED BY <1>9, <1>10, <1>11, <1>12, <1>13

\* What is read is made of the lines.
LEMMA SectionsFrom ==
  ASSUME NEW lines, AreIniLines(lines)
  PROVE  Sections(lines) \in IniRead(lines)
<1> DEFINE Size == Len(lines)
           T == IniRead(lines)
           Body(g, n) == IF n = 0 THEN Unread ELSE ReadLine(lines[n], g[n - 1])
           Read == CHOOSE g : g = [n \in 0..Size |-> Body(g, n)]
           turn == [n \in 1..Size |-> [read \in T |-> ReadLine(lines[n], read)]]
<1>1. Size \in Nat /\ DOMAIN lines = 1..Size
  BY DEF AreIniLines
<1>2. Sections(lines) = Read[Size]
  BY DEF Sections
<1>3. Unread \in T
  <2>1. NoNames \in SectionMaps(lines)
    BY TablesAre
  <2> QED BY <2>1 DEF Unread, IniRead, LineErrors
<1>4. \A n \in 1..Size : \A read \in T : ReadLine(lines[n], read) \in T
  <2> SUFFICES ASSUME NEW n \in 1..Size, NEW read \in T PROVE ReadLine(lines[n], read) \in T
    OBVIOUS
  <2>1. lines[n].kind \in {"header", "pair", "odd"}
    BY <1>1 DEF AreIniLines, Range
  <2> QED BY <1>1, <2>1, ReadLineReads
<1> HIDE DEF Size, T
<1>5. Steps(Size, T, Unread, turn)
  BY <1>1, <1>3, <1>4 DEF Steps
<1>6. PICK g : Follows(g, Size, T, Unread, turn)
  BY <1>5, StepByStep
<1>7. g = [n \in 0..Size |-> Body(g, n)]
  <2>1. g \in [0..Size -> T] /\ g[0] = Unread /\ \A n \in 1..Size : g[n] = turn[n][g[n - 1]]
    BY <1>6 DEF Follows
  <2>2. ASSUME NEW n \in 0..Size PROVE g[n] = Body(g, n)
    <3>1. CASE n = 0
      BY <2>1, <3>1
    <3>2. CASE n # 0
      <4>1. n \in 1..Size /\ n - 1 \in 0..Size
        BY <1>1, <3>2
      <4>2. g[n - 1] \in T
        BY <2>1, <4>1
      <4> QED BY <2>1, <3>2, <4>1, <4>2
    <3> QED BY <3>1, <3>2
  <2> HIDE DEF Body
  <2> QED BY <2>1, <2>2
<1>8. Read = [n \in 0..Size |-> Body(Read, n)]
  <2> HIDE DEF Body
  <2> QED BY <1>7
<1> HIDE DEF Read
<1>9. Read[0] = Unread /\ \A n \in 1..Size : Read[n - 1] \in T => Read[n] = turn[n][Read[n - 1]]
  <2>1. 0 \in 0..Size /\ \A n \in 1..Size : n \in 0..Size /\ n # 0
    BY <1>1
  <2>2. Read[0] = Unread
    BY <1>8, <2>1
  <2>3. ASSUME NEW n \in 1..Size, Read[n - 1] \in T PROVE Read[n] = turn[n][Read[n - 1]]
    BY <1>8, <2>1, <2>3
  <2> QED BY <2>2, <2>3
<1> HIDE DEF turn
<1>10. Read[Size] \in T
  <2>1. Size \in 0..Size
    BY <1>1
  <2> QED BY <1>5, <1>9, <2>1, StepsStay
<1> QED BY <1>2, <1>10 DEF T

LEMMA DependencyGraph ==
  ASSUME NEW targets \in Seq(STRING), NEW given, IsDependencies(given), NEW deps,
         deps = [n \in DOMAIN given \cup Range(targets) |-> IF n \in DOMAIN given THEN given[n] ELSE <<>>],
         \A n \in DOMAIN deps : Range(deps[n]) \subseteq DOMAIN deps
  PROVE  IsGraph(deps)
<1>1. DOMAIN deps = DOMAIN given \cup Range(targets)
  OBVIOUS
<1>2. IsFiniteSet(DOMAIN given \cup Range(targets))
  BY RangeFinite, FS_Union DEF IsDependencies
<1>3. ASSUME NEW n \in DOMAIN deps PROVE deps[n] \in Seq(DOMAIN deps)
  <2>1. deps[n] \in Seq(STRING)
    <3>1. deps[n] = IF n \in DOMAIN given THEN given[n] ELSE <<>>
      OBVIOUS
    <3>2. n \in DOMAIN given => given[n] \in Seq(STRING)
      BY DEF IsDependencies
    <3>3. <<>> \in Seq(STRING)
      OBVIOUS
    <3> QED BY <3>1, <3>2, <3>3
  <2>2. Range(deps[n]) \subseteq DOMAIN deps
    OBVIOUS
  <2> DEFINE s == deps[n]
             D == DOMAIN deps
  <2>3. s \in Seq(STRING) /\ Range(s) \subseteq D
    BY <2>1, <2>2
  <2> HIDE DEF s, D
  <2>4. \A i \in 1..Len(s) : s[i] \in D
    BY <2>3 DEF Range
  <2>5. s \in Seq(D)
    BY <2>3, <2>4
  <2> QED BY <2>5 DEF s, D
<1> QED BY <1>1, <1>2, <1>3 DEF IsGraph

\* Where a file in sections is taken, its map of dependencies has no cycle.
LEMMA ParsedGraph ==
  ASSUME NEW lines, AreIniLines(lines), ParseContent(lines).error = Ok
  PROVE  LET matrix == ParseContent(lines).matrix IN
         /\ IsGraph(matrix) /\ LoopFree(matrix, DOMAIN matrix)
         /\ Range(ParseContent(lines).targets) \subseteq DOMAIN matrix
<1> DEFINE sections == Sections(lines).sections
           graph == sections["graph"]
           deps == DependencyMap(graph)
           nodes == SetToSeq(DOMAIN deps)
<1>1. /\ Complaint(sections) = Ok /\ ~detect_cycles(nodes, deps)
      /\ ParseContent(lines).matrix = deps /\ ParseContent(lines).targets = graph.targets.of
  BY DEF ParseContent, Ok
<1>2. sections \in SectionMaps(lines)
  BY SectionsFrom DEF IniRead
<1> HIDE DEF sections
<1>3. /\ "graph" \in DOMAIN sections /\ {"targets", "dependencies"} \subseteq DOMAIN graph
      /\ graph.targets.type = "list" /\ graph.dependencies.type = "map"
      /\ \A n \in DOMAIN deps : Range(deps[n]) \subseteq DOMAIN deps
  BY <1>1 DEF Complaint, Required, Ok
<1>4. graph \in Tables(lines)
  BY <1>2, <1>3, TablesAre
<1> HIDE DEF graph
<1>5. graph["targets"] \in Values(lines) /\ graph["dependencies"] \in Values(lines)
  BY <1>3, <1>4, TablesAre
<1>6. \A v \in Values(lines) :
        /\ v.type = "list" => v.of \in Seq(STRING)
        /\ v.type = "map" => IsDependencies(v.of)
  BY DEF Values, AreIniLines, Range
<1>7. graph.targets.of \in Seq(STRING) /\ IsDependencies(graph.dependencies.of)
  BY <1>3, <1>5, <1>6
<1>8. deps = [n \in DOMAIN graph.dependencies.of \cup Range(graph.targets.of) |->
                IF n \in DOMAIN graph.dependencies.of THEN graph.dependencies.of[n] ELSE <<>>]
  BY DEF DependencyMap
<1> HIDE DEF deps
<1>9. IsGraph(deps)
  BY <1>3, <1>7, <1>8, DependencyGraph
<1>10. nodes \in Seq(DOMAIN deps) /\ Range(nodes) = DOMAIN deps
  BY <1>9, SetToSeqIs DEF IsGraph
<1> HIDE DEF nodes
<1>11. LoopFree(deps, DOMAIN deps)
  BY <1>1, <1>9, <1>10, CycleCheckIsExact
<1>12. Range(graph.targets.of) \subseteq DOMAIN deps
  BY <1>8
<1> QED BY <1>1, <1>9, <1>11, <1>12

-----------------------------------------------------------------------------
(* The contexts that parse_blueprint makes.                                *)

InOrder(c) == c.status = "inferred_active" => Ordered(c)

ContextOK(c) ==
  /\ InOrder(c)
  /\ Range(c.targets) \subseteq DOMAIN c.matrix /\ Buildable(c.matrix)

LEMMA NoMatrix ==
  ASSUME NEW c, c.matrix = NoNames, c.targets = <<>>, c.status # "inferred_active" PROVE ContextOK(c)
<1>1. Range(<<>>) = {}
  BY DEF Range
<1> QED BY <1>1 DEF ContextOK, InOrder, Buildable, NoNames

LEMMA FallbackBuildable ==
  /\ Range(<<"scanner", "decision_tree", "parameter_tuner">>) \subseteq DOMAIN FallbackGraph
  /\ Buildable(FallbackGraph)
<1>1. /\ DOMAIN FallbackGraph = {"scanner", "decision_tree", "parameter_tuner"}
      /\ FallbackGraph["scanner"] = {} /\ FallbackGraph["decision_tree"] = {"scanner"}
      /\ FallbackGraph["parameter_tuner"] = {"decision_tree"}
  BY DEF FallbackGraph
<1>2. Range(<<"scanner", "decision_tree", "parameter_tuner">>) = {"scanner", "decision_tree", "parameter_tuner"}
  BY DEF Range
<1>3. ASSUME NEW S \in SUBSET DOMAIN FallbackGraph, S # {}
      PROVE  \E n \in S : FallbackGraph[n] \cap S = {}
  <2>1. CASE "scanner" \in S
    BY <1>1, <2>1
  <2>2. CASE "scanner" \notin S /\ "decision_tree" \in S
    BY <1>1, <2>2
  <2>3. CASE "scanner" \notin S /\ "decision_tree" \notin S
    <3>1. "parameter_tuner" \in S
      BY <1>1, <1>3, <2>3
    <3> QED BY <1>1, <2>3, <3>1
  <2> QED BY <2>1, <2>2, <2>3
<1> QED BY <1>1, <1>2, <1>3 DEF Buildable, INVARIANTS_NODE

LEMMA PlainContexts == ContextOK(NoContext) /\ ContextOK(Fallback) /\ ContextOK(Raised)
<1>1. /\ NoContext.matrix = NoNames /\ NoContext.targets = <<>> /\ NoContext.status # "inferred_active"
      /\ Raised.matrix = NoNames /\ Raised.targets = <<>> /\ Raised.status # "inferred_active"
  BY DEF NoContext, Raised
<1>2. \/ Fallback = Raised
      \/ /\ Fallback.matrix = FallbackGraph /\ Fallback.status # "inferred_active"
         /\ Fallback.targets = <<"scanner", "decision_tree", "parameter_tuner">>
  BY DEF NoContext, Fallback, Raised
<1>3. ContextOK(NoContext) /\ ContextOK(Raised)
  BY <1>1, NoMatrix
<1> QED BY <1>2, <1>3, FallbackBuildable DEF ContextOK, InOrder

LEMMA IniBuildable ==
  ASSUME NEW graph, IsGraph(graph), LoopFree(graph, DOMAIN graph)
  PROVE  Buildable([n \in DOMAIN graph |-> Range(graph[n])])
<1> DEFINE D == DOMAIN graph
           matrix == [n \in D |-> Range(graph[n])]
<1>1. \A n \in D : graph[n] \in Seq(D)
  BY DEF IsGraph
<1> HIDE DEF D
<1>2. \A n \in D : Range(graph[n]) \subseteq D
  BY <1>1 DEF Range
<1>3. DOMAIN matrix = D /\ \A n \in D : matrix[n] = Range(graph[n])
  OBVIOUS
<1>4. \A S \in SUBSET D : S # {} => \E n \in S : matrix[n] \cap S = {}
  BY <1>3 DEF LoopFree, D
<1> HIDE DEF matrix
<1>5. Buildable(matrix)
  BY <1>2, <1>3, <1>4 DEF Buildable
<1> QED BY <1>5 DEF matrix, D

LEMMA UnrecognizedLine == AreIniLines(<<Unrecognized>>)
<1>1. /\ Unrecognized.kind = "odd" /\ Unrecognized.value.type = "odd"
  BY DEF Unrecognized, Value
<1>2. Range(<<Unrecognized>>) = {Unrecognized} /\ <<Unrecognized>> \in Seq({Unrecognized})
  BY DEF Range
<1> QED BY <1>1, <1>2 DEF AreIniLines

\* Nothing is said of the graph that is read as JSON.
LEMMA ParsedOK ==
  ASSUME NEW c \in Contents
  PROVE  LET p == parse_blueprint(c) IN
         InOrder(p) /\ (ContextOK(p) \/ (c.form # "missing" /\ looks_like_json(c)))
<1> DEFINE p == parse_blueprint(c)
           ini == ParseContent(IniLines(c))
           taken == [NoContext EXCEPT !.status = "stable_active", !.targets = ini.targets,
                       !.matrix = [n \in DOMAIN ini.matrix |-> Range(ini.matrix[n])],
                       !.sections = DOMAIN OptionalFields]
<1>1. CASE c.form = "missing"
  BY <1>1, PlainContexts DEF parse_blueprint, ContextOK
<1>2. CASE c.form # "missing" /\ looks_like_lean_blueprint(c)
  <2>1. c.form = "lean" /\ c.lines \in Seq(LeanLine)
    <3>1. c.after # "[" /\ c.after # "{" /\ c.braces # TRUE
      BY <1>2 DEF looks_like_lean_blueprint
    <3>2. c # Missing
      BY <1>2 DEF Missing
    <3>3. ~(c.form = "ini" /\ c = Ini(c.lines, c.braces))
      <4>1. Ini(c.lines, c.braces).after = "["
        BY DEF Ini
      <4> QED BY <3>1, <4>1
    <3>4. ~(c.form = "json" /\ c = Json(c.sections, c.first))
      <4>1. Json(c.sections, c.first).after = "{"
        BY DEF Json
      <4> QED BY <3>1, <4>1
    <3>5. ~(c.form = "dsl" /\ c = Dsl(c.verdict))
      <4>1. Dsl(c.verdict).braces = TRUE
        BY DEF Dsl
      <4> QED BY <3>1, <4>1
    <3> QED BY <3>2, <3>3, <3>4, <3>5, ContentsAssumption
  <2>2. p = Fallback \/ p = InferredContext(ParseLean(c.lines))
    BY <1>2 DEF parse_blueprint
  <2>3. ContextOK(InferredContext(ParseLean(c.lines)))
    BY <2>1, ParseLeanTargets, InferredIs DEF ContextOK, InOrder
  <2> QED BY <2>2, <2>3, PlainContexts DEF ContextOK
<1>3. CASE c.form # "missing" /\ ~looks_like_lean_blueprint(c) /\ (looks_like_json(c) \/ looks_like_blueprint_dsl(c))
  <2>1. CASE looks_like_json(c)
    <3>1. p = Raised \/ p = JsonContext(c.sections)
      BY <1>3, <2>1 DEF parse_blueprint
    <3>2. JsonContext(c.sections).status # "inferred_active"
      BY DEF JsonContext, NoContext
    <3> QED BY <1>3, <2>1, <3>1, <3>2, PlainContexts DEF ContextOK, InOrder
  <2>2. CASE ~looks_like_json(c)
    <3>1. \/ p = Raised
          \/ p.matrix = NoNames /\ p.targets = <<>> /\ p.status # "inferred_active"
      BY <1>3, <2>2 DEF parse_blueprint, NoContext
    <3> QED BY <3>1, PlainContexts, NoMatrix DEF ContextOK
  <2> QED BY <2>1, <2>2
<1>4. CASE /\ c.form # "missing" /\ ~looks_like_lean_blueprint(c)
           /\ ~looks_like_json(c) /\ ~looks_like_blueprint_dsl(c)
  <2>1. p = IF ini.error # Ok THEN Fallback ELSE taken
    BY <1>4 DEF parse_blueprint
  <2>2. AreIniLines(IniLines(c))
    <3>1. c.form = "ini" => AreIniLines(c.lines)
      <4>1. Missing.form = "missing"
        BY DEF Missing
      <4> QED BY <4>1, ContentsAssumption
    <3> QED BY <3>1, UnrecognizedLine DEF IniLines
  <2>3. ASSUME ini.error = Ok PROVE ContextOK(taken)
    <3> DEFINE matrix == [n \in DOMAIN ini.matrix |-> Range(ini.matrix[n])]
    <3>1. /\ IsGraph(ini.matrix) /\ LoopFree(ini.matrix, DOMAIN ini.matrix)
          /\ Range(ini.targets) \subseteq DOMAIN ini.matrix
      BY <2>2, <2>3, ParsedGraph
    <3>2. Buildable(matrix)
      BY <3>1, IniBuildable
    <3>3. /\ taken.matrix = matrix /\ taken.status = "stable_active"
          /\ taken.targets = ini.targets /\ DOMAIN matrix = DOMAIN ini.matrix
      BY DEF NoContext
    <3> HIDE DEF taken, matrix, ini
    <3> QED BY <3>1, <3>2, <3>3 DEF ContextOK, InOrder
  <2> QED BY <2>1, <2>3, PlainContexts DEF ContextOK
<1> QED BY <1>1, <1>2, <1>3, <1>4

ParserInv == content \in Contents /\ (context = NoContext \/ context = parse_blueprint(content))

LEMMA SameContext ==
  ASSUME UNCHANGED <<content, manifest>>
  PROVE  parse_blueprint(content)' = parse_blueprint(content)
<1>1. content' = content /\ Fallback' = Fallback
  BY DEF Fallback
<1> QED BY <1>1 DEF parse_blueprint

\* A context is what the build has made of the blueprint.
THEOREM ParserInvariant == ParserSpec => []ParserInv
<1>1. ParserInit => ParserInv
  BY DEF ParserInit, ParserInv
<1>2. ParserInv /\ [ParserNext]_parser_vars => ParserInv'
  <2> SUFFICES ASSUME ParserInv, [ParserNext]_parser_vars PROVE ParserInv'
    OBVIOUS
  <2>1. CASE Build
    <3>1. UNCHANGED <<content, manifest>> /\ context' = parse_blueprint(content)
      BY <2>1 DEF Build, Exits
    <3>2. parse_blueprint(content)' = parse_blueprint(content)
      BY <3>1, SameContext
    <3> QED BY <3>1, <3>2 DEF ParserInv
  <2>2. CASE Check \/ Plan \/ Infer \/ HealBoundary \/ UNCHANGED parser_vars
    <3>1. UNCHANGED <<content, manifest, context>>
      BY <2>2 DEF Check, Plan, Infer, HealBoundary, Exits, parser_vars
    <3>2. parse_blueprint(content)' = parse_blueprint(content) /\ NoContext' = NoContext
      BY <3>1, SameContext DEF NoContext
    <3> QED BY <3>1, <3>2 DEF ParserInv
  <2> QED BY <2>1, <2>2 DEF ParserNext
<1> QED BY <1>1, <1>2, PTL DEF ParserSpec

LEMMA ContextsOK == ParserInv => InOrder(context) /\ (ContextOK(context) \/ ReadAsJson)
BY ParsedOK, PlainContexts DEF ParserInv, ContextOK, ReadAsJson

\* Each target is once in the order, each core before what binds it.
THEOREM ProvidersFirstAlways == ParserSpec => []ProvidersFirst
<1>1. ParserInv => ProvidersFirst
  BY ContextsOK DEF InOrder, Ordered, ProvidersFirst
<1> QED BY <1>1, ParserInvariant, PTL

\* No context but one that is read as JSON has a cycle, or a dependency or a
\* target that is no node.
THEOREM AcceptedIsBuildableAlways == ParserSpec => []AcceptedIsBuildable
<1>1. ParserInv => AcceptedIsBuildable
  BY ContextsOK DEF ContextOK, Buildable, AcceptedIsBuildable
<1> QED BY <1>1, ParserInvariant, PTL

-----------------------------------------------------------------------------
(* The healing loop, for any number of attempts.                           *)

\* By itself, or for a boundary of a build.
Heals == HealInit /\ [][Heal]_heal_vars

LEMMA BothHeal == (HealSpec => Heals) /\ (ParserSpec => Heals)
<1>1. ParserInit => HealInit
  BY DEF ParserInit
<1>2. [ParserNext]_parser_vars => [Heal]_heal_vars
  BY DEF ParserNext, Check, Plan, Infer, Build, HealBoundary, Exits, parser_vars
<1> QED BY <1>1, <1>2, PTL DEF HealSpec, ParserSpec, Heals

LEMMA InitialAttempts == HealInit => max_attempts \in Nat \ {0}
<1> SUFFICES ASSUME HealInit PROVE max_attempts \in Nat \ {0}
  OBVIOUS
<1>1. PICK n \in MaxAttempts : max_attempts = IF n = 0 THEN 1 ELSE n
  BY DEF HealInit
<1>2. n \in Nat
  BY HealingAssumption
<1>3. QED
  BY <1>1, <1>2

\* Type correctness: the counters stay in their ranges, the glue carries only
\* markers the patcher knows.
LEMMA EachHealTyped == Heals => []HealTypeOK
<1>1. HealInit => HealTypeOK
  BY InitialAttempts DEF HealInit, HealTypeOK
<1>2. HealTypeOK /\ [Heal]_heal_vars => HealTypeOK'
  <2> SUFFICES ASSUME HealTypeOK, [Heal]_heal_vars PROVE HealTypeOK'
    OBVIOUS
  <2>1. CASE UNCHANGED heal_vars
    BY <2>1 DEF HealTypeOK, heal_vars
  <2>2. CASE Heal
    <3>1. PICK d \in Diagnostics : Succeed(d) \/ GiveUp(d) \/ PatchAndRetry(d)
      BY <2>2 DEF Heal
    <3>2. compiled' = glue /\ UNCHANGED max_attempts
      BY <2>2 DEF Heal
    <3>3. CASE Succeed(d) \/ GiveUp(d)
      BY <3>2, <3>3 DEF HealTypeOK, Succeed, GiveUp
    <3>4. CASE PatchAndRetry(d)
      <4>1. Marker(d) \in Markers
        BY DEF Marker, Markers
      <4>2. QED
        BY <3>2, <3>4, <4>1 DEF HealTypeOK, PatchAndRetry, AttemptsLeft
    <3>5. QED
      BY <3>1, <3>3, <3>4
  <2>3. QED
    BY <2>1, <2>2
<1>3. QED
  BY <1>1, <1>2, PTL DEF Heals

\* Type correctness, for the loop by itself and for the boundaries of a build.
THEOREM HealTypeCorrect == (HealSpec => []HealTypeOK) /\ (ParserSpec => []HealTypeOK)
BY BothHeal, EachHealTyped

\* The markers counted: the patches applied are the markers in the glue.
ShimsIn ==
  (IF "AERO_COERCE" \in glue THEN 1 ELSE 0) + (IF "AERO_AUTO_COERCE" \in glue THEN 1 ELSE 0)

\* The strengthening: while the loop runs, each attempt but the first has
\* been prepared by one patch; after it, a patch that has not been compiled is
\* the last of max_attempts.
HealInv ==
  /\ HealTypeOK
  /\ patches = ShimsIn
  /\ result = "running" => attempt = patches + 1
  /\ result # "running" => compiled = glue \/ (patches = attempt /\ attempt = max_attempts)
  /\ attempt <= 3

\* A patch that is made adds the one marker it looked for in vain.
LEMMA PatchAddsAShim ==
  ASSUME HealTypeOK, patches = ShimsIn, NEW d \in Diagnostics, PatchAndRetry(d)
  PROVE  /\ patches' = ShimsIn' /\ patches' = patches + 1
         /\ patches + 1 <= 2
<1>1. Marker(d) \in Markers \ glue /\ glue' = glue \cup {Marker(d)}
  BY DEF PatchAndRetry, Patchable, Marker, Markers
<1>2. CASE Marker(d) = "AERO_COERCE"
  BY <1>1, <1>2 DEF ShimsIn, PatchAndRetry
<1>3. CASE Marker(d) = "AERO_AUTO_COERCE"
  BY <1>1, <1>3 DEF ShimsIn, PatchAndRetry
<1>4. QED
  BY <1>1, <1>2, <1>3 DEF Markers

LEMMA HealInvInductive == HealInv /\ HealTypeOK' /\ [Heal]_heal_vars => HealInv'
<1> SUFFICES ASSUME HealInv, HealTypeOK', [Heal]_heal_vars PROVE HealInv'
  OBVIOUS
<1>1. CASE UNCHANGED heal_vars
  BY <1>1 DEF HealInv, ShimsIn, heal_vars
<1>2. CASE Heal
  <2>1. PICK d \in Diagnostics : Succeed(d) \/ GiveUp(d) \/ PatchAndRetry(d)
    BY <1>2 DEF Heal
  <2>2. compiled' = glue /\ UNCHANGED max_attempts /\ result = "running"
    BY <1>2 DEF Heal
  <2>3. CASE Succeed(d) \/ GiveUp(d)
    BY <2>2, <2>3 DEF HealInv, Succeed, GiveUp, ShimsIn
  <2>4. CASE PatchAndRetry(d)
    <3>1. patches' = ShimsIn' /\ patches' = patches + 1 /\ patches + 1 <= 2
      BY <2>4, PatchAddsAShim DEF HealInv
    <3>2. attempt = patches + 1
      BY <2>2 DEF HealInv
    <3>3. CASE AttemptsLeft
      <4>1. attempt' = attempt + 1 /\ result' = "running"
        BY <2>2, <2>4, <3>3 DEF PatchAndRetry
      <4>2. QED
        BY <3>1, <3>2, <4>1 DEF HealInv, HealTypeOK
    <3>4. CASE ~AttemptsLeft
      <4>1. attempt' = attempt /\ result' = "failed"
        BY <2>4, <3>4 DEF PatchAndRetry
      <4>2. attempt = max_attempts
        BY <3>4 DEF AttemptsLeft, HealInv, HealTypeOK
      <4>3. QED
        BY <2>2, <3>1, <3>2, <4>1, <4>2 DEF HealInv, HealTypeOK
    <3>5. QED
      BY <3>3, <3>4
  <2>5. QED
    BY <2>1, <2>3, <2>4
<1>3. QED
  BY <1>1, <1>2

\* The invariant holds of every healing, whatever the compiler says.
LEMMA EachHealSound == Heals => []HealInv
<1>1. HealInit => HealInv
  <2> SUFFICES ASSUME HealInit PROVE HealInv
    OBVIOUS
  <2>1. HealTypeOK
    BY InitialAttempts DEF HealInit, HealTypeOK
  <2>2. ShimsIn = 0
    BY DEF HealInit, ShimsIn
  <2>3. QED
    BY <2>1, <2>2 DEF HealInit, HealInv
<1>2. HealInv /\ HealTypeOK' /\ [Heal]_heal_vars => HealInv'
  BY HealInvInductive
<1>3. QED
  BY <1>1, <1>2, EachHealTyped, PTL DEF Heals

\* The same, by itself and in a build.
THEOREM HealInvariant == (HealSpec => []HealInv) /\ (ParserSpec => []HealInv)
BY BothHeal, EachHealSound

\* With three attempts or more the glue that is returned has been compiled.
THEOREM ReturnedWasCompiledAlways ==
  (HealSpec => []ReturnedWasCompiled) /\ (ParserSpec => []ReturnedWasCompiled)
<1>1. HealInv => ReturnedWasCompiled
  <2> SUFFICES ASSUME HealInv, result # "running", max_attempts >= 3 PROVE compiled = glue
    BY DEF ReturnedWasCompiled
  <2>1. patches <= 2
    BY DEF HealInv, ShimsIn, HealTypeOK
  <2>2. QED
    BY <2>1 DEF HealInv, HealTypeOK
<1>2. QED
  BY <1>1, HealInvariant, PTL

\* No healing compiles more than three times or inserts a shim twice.
THEOREM EachShimOnceAlways ==
  (HealSpec => []EachShimOnce) /\ (ParserSpec => []EachShimOnce)
<1>1. HealInv => EachShimOnce
  BY DEF HealInv, EachShimOnce, ShimsIn
<1>2. QED
  BY <1>1, HealInvariant, PTL
=============================================================================
