---------------------------- MODULE FlushHintsProofs ----------------------------
(***************************************************************************)
(* What TLAPS proves of FlushHints, for any files, agents, turns, delays   *)
(* and number of hints:                                                    *)
(*                                                                         *)
(*   TypeCorrect       variables have their types; every hint has a name   *)
(*                     of its own                                          *)
(*   AgesCorrect       no live hint waits longer than agent_turn_max_age   *)
(*   RequestsCorrect   no time passes on a group that was asked for        *)
(*   VisibleCorrect    a hinted edit is visible until it was reviewed      *)
(***************************************************************************)
EXTENDS FlushHints, FiniteSetTheorems, SequenceTheorems, WellFoundedInduction, TLAPS

(***************************************************************************)
(* Induction, over sets of numbers.                                        *)
(***************************************************************************)
\* A set of natural numbers has a least element.
LEMMA HasLeast ==
  ASSUME NEW S \in SUBSET Nat, S # {}
  PROVE  \E x \in S : \A y \in S : x <= y
<1>1. PICK x \in S : \A y \in S : ~(<<y, x>> \in OpToRel(<, Nat))
  BY NatLessThanWellFounded, WFMin
<1>2. \A y \in S : ~(y < x)
  BY <1>1 DEF OpToRel
<1> QED
  BY <1>2

\* A bounded set of natural numbers has a greatest element.
LEMMA HasGreatest ==
  ASSUME NEW m \in Nat, NEW S \in SUBSET (0 .. m), S # {}
  PROVE  \E x \in S : \A y \in S : y <= x
<1> DEFINE T == {m - x : x \in S}
<1>0. \A x \in S : x \in Nat /\ x <= m
  OBVIOUS
<1>1. T \in SUBSET Nat /\ T # {}
  <2>1. \A x \in S : m - x \in Nat
    BY <1>0
  <2>2. T # {}
    OBVIOUS
  <2> QED
    BY <2>1, <2>2
<1>2. PICK t \in T : \A u \in T : t <= u
  BY <1>1, HasLeast
<1>3. PICK x \in S : t = m - x
  OBVIOUS
<1>4. \A y \in S : m - x <= m - y
  BY <1>2, <1>3
<1> QED
  BY <1>0, <1>4

\* A set with 0 and the successor of every number in it, up to m, has all of them.
LEMMA SetInduction ==
  ASSUME NEW m \in Nat, NEW T, 0 \in T, \A n \in 1 .. m : n - 1 \in T => n \in T
  PROVE  0 .. m \subseteq T
<1> SUFFICES ASSUME (0 .. m) \ T # {}
             PROVE  FALSE
  OBVIOUS
<1>1. PICK n \in (0 .. m) \ T : \A k \in (0 .. m) \ T : n <= k
  <2> DEFINE S == (0 .. m) \ T
  <2>1. S \in SUBSET Nat /\ S # {}
    OBVIOUS
  <2> HIDE DEF S
  <2>2. \E n \in S : \A k \in S : n <= k
    BY <2>1, HasLeast
  <2> QED
    BY <2>2 DEF S
<1>2. n # 0 /\ n - 1 \in (0 .. m) /\ n - 1 \notin (0 .. m) \ T
  BY <1>1
<1> QED
  BY <1>1, <1>2

(***************************************************************************)
(* The groups of hints.                                                    *)
(***************************************************************************)
\* One step of consume_flush_hint's grouping: the hint named n joins the groups.
WithHint(groups, n) ==
    LET named == {h \in ValidHints : h.name = n}
    IN  IF named = {} THEN groups ELSE AddHint(groups, CHOOSE h \in named : TRUE)

\* GroupsUpTo is what its definition says: there is such a function.
LEMMA GroupsDef ==
  /\ GroupsUpTo[0] = <<>>
  /\ \A n \in 1 .. MaxHints : GroupsUpTo[n] = WithHint(GroupsUpTo[n - 1], n)
<1> DEFINE Groups(g, n) == IF n = 0 THEN <<>> ELSE WithHint(g[n - 1], n)
           Upto == {k \in 0 .. MaxHints : \E g : \A n \in 0 .. k : g[n] = Groups(g, n)}
<1>m. MaxHints \in Nat
  BY BoundsAssumption
<1>1. 0 \in Upto
  <2> DEFINE g == [n \in {0} |-> <<>>]
  <2>1. \A n \in 0 .. 0 : g[n] = Groups(g, n)
    OBVIOUS
  <2>2. \E f : \A n \in 0 .. 0 : f[n] = Groups(f, n)
    BY <2>1
  <2> QED
    BY <1>m, <2>2
<1>2. ASSUME NEW k \in 1 .. MaxHints, k - 1 \in Upto
      PROVE  k \in Upto
  <2>1. PICK g : \A n \in 0 .. k - 1 : g[n] = Groups(g, n)
    BY <1>2
  <2> DEFINE f == [n \in 0 .. k |-> IF n = k THEN WithHint(g[k - 1], k) ELSE g[n]]
  <2>2. ASSUME NEW n \in 0 .. k
        PROVE  f[n] = Groups(f, n)
    <3>1. CASE n = k
      <4>1. f[k - 1] = g[k - 1] /\ f[k] = WithHint(g[k - 1], k) /\ k # 0
        OBVIOUS
      <4> QED
        BY <3>1, <4>1
    <3>2. CASE n # k /\ n # 0
      <4>1. f[n] = g[n] /\ f[n - 1] = g[n - 1] /\ n \in 0 .. k - 1
        BY <3>2
      <4>2. g[n] = WithHint(g[n - 1], n)
        BY <2>1, <3>2, <4>1
      <4> QED
        BY <3>2, <4>1, <4>2
    <3>3. CASE n # k /\ n = 0
      BY <2>1, <3>3
    <3> QED
      BY <3>1, <3>2, <3>3
  <2>3. \E h : \A n \in 0 .. k : h[n] = Groups(h, n)
    BY <2>2
  <2> QED
    BY <1>m, <2>3
<1>3. MaxHints \in Upto
  <2> HIDE DEF Upto
  <2> QED
    BY <1>1, <1>2, <1>m, SetInduction
<1>4. PICK g : \A n \in 0 .. MaxHints : g[n] = Groups(g, n)
  BY <1>3
<1> DEFINE f == [n \in 0 .. MaxHints |-> g[n]]
<1>5. f = [n \in 0 .. MaxHints |-> Groups(f, n)]
  <2> SUFFICES ASSUME NEW n \in 0 .. MaxHints
               PROVE  f[n] = Groups(f, n)
    OBVIOUS
  <2>1. CASE n = 0
    BY <1>4, <2>1
  <2>2. CASE n # 0
    <3>1. f[n - 1] = g[n - 1] /\ f[n] = g[n]
      BY <1>m, <2>2
    <3> QED
      BY <1>4, <2>2, <3>1
  <2> QED
    BY <2>1, <2>2
<1>6. GroupsUpTo = [n \in 0 .. MaxHints |-> Groups(GroupsUpTo, n)]
  <2> HIDE DEF f
  <2> QED
    BY <1>5 DEF GroupsUpTo, WithHint
<1> HIDE DEF Groups
<1>7. \A n \in 0 .. MaxHints : GroupsUpTo[n] = Groups(GroupsUpTo, n)
  BY <1>6
<1> QED
  BY <1>7, <1>m DEF Groups


(***************************************************************************)
(* Types.                                                                  *)
(***************************************************************************)
InHint == {a \in Agents : hooks[a].pc = "hint"}

\* What AgentEdit leaves room for is what the hooks about to publish a hint need.
BudgetInv ==
    /\ IsFiniteSet(InHint)
    /\ nextHint + Cardinality(InHint) <= MaxHints + 1

TypeInv == TypeOK /\ BudgetInv /\ \A h \in hints : h.name < nextHint

HookStates ==
    [pc : {"idle", "hint", "collect", "claim", "markers", "hints", "sleep"},
     files : [Paths -> VersionIds], first : BOOLEAN]

Mains ==
    [pc : {"poll", "submit", "unlink"}, agent : AgentIds,
     names : SUBSET HintIds, paths : SUBSET Paths]

Sessions ==
    [state : {"unbound", "bound", "closed"}, generation : Generations, agent : AgentIds]

\* The main thread starts polling, nothing is hinted and no review is under way.
LEMMA InitTypes == Init => TypeInv
<1> SUFFICES ASSUME Init
             PROVE  TypeInv
  OBVIOUS
<1>1. /\ NoFiles \in [Paths -> VersionIds]
      /\ NoAgent \in AgentIds /\ 0 \in Generations
  BY BoundsAssumption DEF NoFiles, VersionIds, AgentIds, Generations
<1>2. InHint = {}
  BY DEF Init, InHint, IdleHook
<1>3. BudgetInv
  BY <1>2, FS_EmptySet, BoundsAssumption DEF Init, BudgetInv
<1>4. NoReview \in Reviews
  BY <1>1 DEF NoReview, Reviews
<1>5. Polling \in Mains /\ IdleHook \in HookStates
  BY <1>1 DEF Polling, Mains, IdleHook, HookStates
<1>6. TypeOK
  <2>1. /\ content \in [Paths -> Versions] /\ dirty \subseteq Paths
        /\ requests \in [Agents -> {NoRequest} \union 0 .. MaxHints]
        /\ spooled \in BOOLEAN /\ look \in {"due", "vain"} /\ excused \subseteq Paths
    BY NullsAssumption DEF Init, NoRequests
  <2>4. /\ hints \subseteq Hints /\ nextHint \in 1 .. MaxHints + 1
        /\ \A g, h \in hints : g.name = h.name => g = h
        /\ edits \in 0 .. MaxForeignEdits
    BY BoundsAssumption DEF Init
  <2>2. /\ session \in Sessions /\ owed \in [Paths -> VersionIds]
        /\ worker \in {"waiting", "read", "review", "link", "retire", "finish"}
    BY <1>1 DEF Init, Sessions
  <2>3. main \in Mains /\ active \in Reviews /\ followUp \in Reviews
        /\ hooks \in [Agents -> HookStates]
    BY <1>4, <1>5 DEF Init
  <2> QED
    BY <2>1, <2>2, <2>3, <2>4 DEF TypeOK, Sessions, Mains, HookStates
<1> QED
  BY <1>3, <1>6 DEF TypeInv, Init


(***************************************************************************)
(* Hints and groups of them.                                               *)
(***************************************************************************)
\* What the types say of one hint.
LEMMA HintTypes ==
  ASSUME TypeOK, NEW h \in hints
  PROVE  /\ h.name \in 1 .. MaxHints /\ h.agent \in Agents /\ h.age \in Nat
         /\ h.files \in [Paths -> VersionIds]
  BY BoundsAssumption DEF TypeOK, Hints, HintIds

\* The oldest and the newest of some hints.
LEMMA EndsOfGroup ==
  ASSUME TypeOK, NEW S, S \subseteq hints, S # {}
  PROVE  /\ Oldest(S) \in S /\ \A h \in S : Oldest(S).name <= h.name
         /\ Newest(S) \in S /\ \A h \in S : h.name <= Newest(S).name
<1>m. MaxHints \in Nat
  BY BoundsAssumption
<1>1. \A h \in S : h.name \in 1 .. MaxHints
  BY HintTypes
<1> DEFINE N == {h.name : h \in S}
<1>2. N # {} /\ N \in SUBSET Nat /\ N \in SUBSET (0 .. MaxHints)
  BY <1>1, <1>m
<1>3. \E x \in N : \A y \in N : x <= y
  <2> HIDE DEF N
  <2> QED
    BY <1>2, HasLeast
<1>4. \E x \in N : \A y \in N : y <= x
  <2> HIDE DEF N
  <2> QED
    BY <1>2, <1>m, HasGreatest
<1>5. \E h \in S : \A g \in S : h.name <= g.name
  BY <1>3
<1>6. \E h \in S : \A g \in S : g.name <= h.name
  BY <1>4
<1>7. Oldest(S) \in S /\ \A h \in S : Oldest(S).name <= h.name
  BY <1>5 DEF Oldest
<1>8. Newest(S) \in S /\ \A h \in S : h.name <= Newest(S).name
  BY <1>6 DEF Newest
<1> QED
  BY <1>7, <1>8

\* groups has the owner's hints named up to n, by creation.
InGroups(groups, n) ==
    /\ groups \in Seq(SUBSET ValidHints)
    /\ \A i \in 1 .. Len(groups) : groups[i] # {} /\ \A h \in groups[i] : h.name <= n
    /\ \A h \in ValidHints : h.name <= n => \E i \in 1 .. Len(groups) : h \in groups[i]
    /\ \A i, j \in 1 .. Len(groups) :
        i < j => \A g \in groups[i], h \in groups[j] : g.name < h.name

\* The next hint joins the last group or starts one.
LEMMA AddHintFacts ==
  ASSUME TypeOK, NEW n \in 1 .. MaxHints, NEW groups, InGroups(groups, n - 1),
         NEW h \in ValidHints, h.name = n
  PROVE  InGroups(AddHint(groups, h), n)
<1>m. MaxHints \in Nat
  BY BoundsAssumption
<1> DEFINE len == Len(groups)
<1>1. /\ groups \in Seq(SUBSET ValidHints) /\ len \in Nat
      /\ \A i \in 1 .. len : groups[i] \subseteq ValidHints
      /\ groups # <<>> => len \in 1 .. len
  BY DEF InGroups
<1>2. \A g \in ValidHints : g.name \in 1 .. MaxHints
  BY HintTypes DEF ValidHints
<1>3. \A g \in ValidHints : g.name = h.name => g = h
  BY DEF ValidHints, TypeOK
<1>4. /\ \A i \in 1 .. len : groups[i] # {} /\ \A g \in groups[i] : g.name <= n - 1
      /\ \A g \in ValidHints : g.name <= n - 1 => \E i \in 1 .. len : g \in groups[i]
      /\ \A i, j \in 1 .. len :
          i < j => \A g \in groups[i], k \in groups[j] : g.name < k.name
  BY DEF InGroups
<1>5. \A g \in ValidHints : g.name <= n => g = h \/ g.name <= n - 1
  BY <1>2, <1>3, <1>m
<1> HIDE DEF len
<1>6. CASE groups # <<>> /\ Joins(groups[Len(groups)], h)
  <2> DEFINE new == [groups EXCEPT ![len] = @ \union {h}]
  <2>1. AddHint(groups, h) = new
    BY <1>6 DEF AddHint, len
  <2>2. /\ new \in Seq(SUBSET ValidHints) /\ Len(new) = len
        /\ \A i \in 1 .. len : new[i] = IF i = len THEN groups[i] \union {h} ELSE groups[i]
    <3> DEFINE group == groups[len] \union {h}
    <3>1. len \in 1 .. Len(groups) /\ group \in SUBSET ValidHints
      BY <1>1, <1>6 DEF len
    <3>2. new = [groups EXCEPT ![len] = group]
      OBVIOUS
    <3> HIDE DEF group
    <3>3. /\ [groups EXCEPT ![len] = group] \in Seq(SUBSET ValidHints)
          /\ Len([groups EXCEPT ![len] = group]) = Len(groups)
          /\ \A i \in 1 .. Len(groups) :
              [groups EXCEPT ![len] = group][i] = IF i = len THEN group ELSE groups[i]
      BY <1>1, <3>1, ExceptSeq
    <3> HIDE DEF new
    <3>4. /\ new \in Seq(SUBSET ValidHints) /\ Len(new) = len
          /\ \A i \in 1 .. len : new[i] = IF i = len THEN group ELSE groups[i]
      BY <3>2, <3>3 DEF len
    <3> QED
      BY <3>4 DEF group
  <2> HIDE DEF new
  <2>3. \A i \in 1 .. len : new[i] # {} /\ \A g \in new[i] : g.name <= n
    <3> SUFFICES ASSUME NEW i \in 1 .. len
                 PROVE  new[i] # {} /\ \A g \in new[i] : g.name <= n
      OBVIOUS
    <3>1. new[i] # {}
      BY <1>4, <2>2
    <3>2. ASSUME NEW g \in new[i]
          PROVE  g.name <= n
      <4>1. g = h \/ g \in groups[i]
        BY <2>2
      <4>2. g \in groups[i] => g.name <= n - 1 /\ g.name \in 1 .. MaxHints
        BY <1>1, <1>2, <1>4
      <4> QED
        BY <4>1, <4>2, <1>m
    <3> QED
      BY <3>1, <3>2
  <2>4. ASSUME NEW g \in ValidHints, g.name <= n
        PROVE  \E i \in 1 .. len : g \in new[i]
    <3>1. CASE g = h
      BY <1>1, <1>6, <2>2, <3>1
    <3>2. CASE g.name <= n - 1
      BY <1>4, <2>2, <3>2
    <3> QED
      BY <1>5, <2>4, <3>1, <3>2
  <2>5. ASSUME NEW i \in 1 .. len, NEW j \in 1 .. len, i < j,
               NEW g \in new[i], NEW k \in new[j]
        PROVE  g.name < k.name
    <3>1. i # len /\ g \in groups[i] /\ g.name <= n - 1 /\ g \in ValidHints
      BY <1>1, <1>4, <2>2, <2>5
    <3>2. CASE k = h
      BY <1>2, <3>1, <3>2, <1>m
    <3>3. CASE k # h
      BY <1>4, <2>2, <2>5, <3>1, <3>3
    <3> QED
      BY <3>2, <3>3
  <2> QED
    BY <2>1, <2>2, <2>3, <2>4, <2>5 DEF InGroups
<1>7. CASE ~(groups # <<>> /\ Joins(groups[Len(groups)], h))
  <2> DEFINE new == Append(groups, {h})
  <2>1. AddHint(groups, h) = new
    BY <1>7 DEF AddHint
  <2>2. /\ new \in Seq(SUBSET ValidHints) /\ Len(new) = len + 1
        /\ \A i \in 1 .. len + 1 : new[i] = IF i = len + 1 THEN {h} ELSE groups[i]
    BY <1>1 DEF len
  <2> HIDE DEF new
  <2>3. \A i \in 1 .. len + 1 : new[i] # {} /\ \A g \in new[i] : g.name <= n
    <3> SUFFICES ASSUME NEW i \in 1 .. len + 1
                 PROVE  new[i] # {} /\ \A g \in new[i] : g.name <= n
      OBVIOUS
    <3>1. CASE i = len + 1
      <4>1. new[i] = {h}
        BY <2>2, <3>1
      <4> QED
        BY <4>1, <1>m
    <3>2. CASE i # len + 1
      <4>1. i \in 1 .. len /\ new[i] = groups[i]
        BY <1>1, <2>2, <3>2
      <4> QED
        BY <1>1, <1>2, <1>4, <4>1, <1>m
    <3> QED
      BY <3>1, <3>2
  <2>4. ASSUME NEW g \in ValidHints, g.name <= n
        PROVE  \E i \in 1 .. len + 1 : g \in new[i]
    <3>1. CASE g = h
      BY <1>1, <2>2, <3>1
    <3>2. CASE g.name <= n - 1
      <4>1. PICK i \in 1 .. len : g \in groups[i]
        BY <1>4, <3>2
      <4> QED
        BY <1>1, <2>2, <4>1
    <3> QED
      BY <1>5, <2>4, <3>1, <3>2
  <2>5. ASSUME NEW i \in 1 .. len + 1, NEW j \in 1 .. len + 1, i < j,
               NEW g \in new[i], NEW k \in new[j]
        PROVE  g.name < k.name
    <3>1. i \in 1 .. len /\ g \in groups[i] /\ g.name <= n - 1 /\ g \in ValidHints
      BY <1>1, <1>4, <2>2, <2>5
    <3>2. CASE j = len + 1
      <4>1. k = h
        BY <2>2, <2>5, <3>2
      <4> QED
        BY <1>2, <3>1, <4>1, <1>m
    <3>3. CASE j # len + 1
      <4>1. j \in 1 .. len /\ k \in groups[j]
        BY <1>1, <2>2, <2>5, <3>3
      <4> QED
        BY <1>4, <2>5, <3>1, <4>1
    <3> QED
      BY <3>2, <3>3
  <2> QED
    BY <2>1, <2>2, <2>3, <2>4, <2>5 DEF InGroups
<1> QED
  BY <1>6, <1>7

\* HintGroups has all hints of the owner.
LEMMA GroupsOfHints == TypeOK => InGroups(HintGroups, MaxHints)
<1> SUFFICES ASSUME TypeOK
             PROVE  InGroups(HintGroups, MaxHints)
  OBVIOUS
<1>m. MaxHints \in Nat
  BY BoundsAssumption
<1>1. \A h \in ValidHints : h.name \in 1 .. MaxHints
  BY HintTypes DEF ValidHints
<1> DEFINE Good == {n \in 0 .. MaxHints : InGroups(GroupsUpTo[n], n)}
<1>2. 0 \in Good
  <2>1. InGroups(<<>>, 0)
    BY <1>1, <1>m DEF InGroups
  <2> QED
    BY <2>1, <1>m, GroupsDef
<1>3. ASSUME NEW n \in 1 .. MaxHints, n - 1 \in Good
      PROVE  n \in Good
  <2> DEFINE groups == GroupsUpTo[n - 1]
             named  == {h \in ValidHints : h.name = n}
  <2>1. InGroups(groups, n - 1)
    BY <1>3
  <2>2. GroupsUpTo[n] = WithHint(groups, n)
    BY GroupsDef
  <2> HIDE DEF groups
  <2>3. CASE named = {}
    <3>1. WithHint(groups, n) = groups
      BY <2>3 DEF WithHint
    <3>2. InGroups(groups, n)
      BY <1>1, <2>1, <2>3, <1>m DEF InGroups
    <3> QED
      BY <2>2, <3>1, <3>2
  <2>4. CASE named # {}
    <3> DEFINE h == CHOOSE g \in named : TRUE
    <3>1. h \in ValidHints /\ h.name = n
      BY <2>4
    <3>2. WithHint(groups, n) = AddHint(groups, h)
      BY <2>4 DEF WithHint
    <3> HIDE DEF h
    <3>3. InGroups(AddHint(groups, h), n)
      BY <2>1, <3>1, AddHintFacts
    <3> QED
      BY <2>2, <3>2, <3>3
  <2> QED
    BY <2>3, <2>4
<1>4. MaxHints \in Good
  <2> HIDE DEF Good
  <2> QED
    BY <1>2, <1>3, <1>m, SetInduction
<1> QED
  BY <1>4 DEF HintGroups


\* The paths and the hints of a group that are still true.
LEMMA CurrentFacts ==
  ASSUME TypeOK, NEW group, group \subseteq hints
  PROVE  /\ CurrentPaths(group) \subseteq Paths
         /\ ActiveMembers(group) \subseteq group
         /\ CurrentPaths(group) # {} <=> ActiveMembers(group) # {}
<1>1. CurrentPaths(group) \subseteq PathsOf(group)
  BY DEF CurrentPaths
<1>2. \A p \in PathsOf(group) : p \in Paths /\ \E h \in group : p \in Named(h.files)
  BY DEF PathsOf, Named
<1> QED
  BY <1>1, <1>2 DEF ActiveMembers

\* The first group that is live.
LEMMA FirstLiveFacts ==
  ASSUME TypeOK, Live(HintGroups) # {}
  PROVE  /\ FirstLive(HintGroups) \in 1 .. Len(HintGroups)
         /\ CurrentPaths(HintGroups[FirstLive(HintGroups)]) # {}
         /\ \A i \in 1 .. Len(HintGroups) :
             i < FirstLive(HintGroups) => CurrentPaths(HintGroups[i]) = {}
<1>1. InGroups(HintGroups, MaxHints)
  BY GroupsOfHints
<1>2. HintGroups \in Seq(SUBSET ValidHints)
  BY <1>1 DEF InGroups
<1> DEFINE live == Live(HintGroups)
<1>3. DOMAIN HintGroups = 1 .. Len(HintGroups) /\ Len(HintGroups) \in Nat
  BY <1>2
<1>4. live \in SUBSET Nat /\ live # {}
  <2>1. live \subseteq DOMAIN HintGroups
    BY DEF Live
  <2>2. 1 .. Len(HintGroups) \subseteq Nat
    BY <1>3
  <2> QED
    BY <1>3, <2>1, <2>2
<1>5. \E i \in live : \A j \in live : i <= j
  <2> HIDE DEF live
  <2> QED
    BY <1>4, HasLeast
<1>6. FirstLive(HintGroups) \in live /\ \A j \in live : FirstLive(HintGroups) <= j
  BY <1>5 DEF FirstLive
<1> QED
  BY <1>3, <1>6 DEF Live

\* The first live group is one of hints of the owner, and some of them are active.
LEMMA FirstGroup ==
  ASSUME TypeOK, Live(HintGroups) # {}, NEW group, group = HintGroups[FirstLive(HintGroups)]
  PROVE  /\ group # {} /\ group \subseteq ValidHints
         /\ CurrentPaths(group) # {} /\ CurrentPaths(group) \subseteq Paths
         /\ ActiveMembers(group) # {} /\ ActiveMembers(group) \subseteq group
<1>1. group \subseteq ValidHints /\ group # {}
  <2>1. InGroups(HintGroups, MaxHints)
    BY GroupsOfHints
  <2> QED
    BY <2>1, FirstLiveFacts DEF InGroups
<1> QED
  BY <1>1, FirstLiveFacts, CurrentFacts DEF ValidHints

\* A purge leaves the owner's hints that are active in the groups it looked at.
LEMMA PurgedFacts ==
  ASSUME TypeOK, NEW n \in 0 .. Len(HintGroups)
  PROVE  \A h : h \in Purged(HintGroups, n) <=>
             /\ h \in ValidHints
             /\ \A i \in 1 .. n : h \in HintGroups[i] => h \in ActiveMembers(HintGroups[i])
<1>1. InGroups(HintGroups, MaxHints)
  BY GroupsOfHints
<1>2. Len(HintGroups) \in Nat /\ \A i \in 1 .. Len(HintGroups) : HintGroups[i] \subseteq ValidHints
  BY <1>1 DEF InGroups
<1>3. \A g, h \in ValidHints : g.name = h.name => g = h
  BY DEF ValidHints, TypeOK
<1>4. ASSUME NEW i \in 1 .. n, NEW h \in ValidHints
      PROVE  h.name \in Names(HintGroups[i]) \ Names(ActiveMembers(HintGroups[i]))
             <=> h \in HintGroups[i] /\ h \notin ActiveMembers(HintGroups[i])
  <2>1. HintGroups[i] \subseteq ValidHints
    BY <1>2
  <2>2. ActiveMembers(HintGroups[i]) \subseteq HintGroups[i]
    BY DEF ActiveMembers
  <2> QED
    BY <1>3, <2>1, <2>2 DEF Names
<1> QED
  BY <1>4 DEF Purged


(***************************************************************************)
(* Every step keeps the types.                                             *)
(***************************************************************************)
\* The types, variable by variable: those of the files ...
FileTypes ==
    /\ content \in [Paths -> Versions] /\ dirty \subseteq Paths
    /\ edits \in 0 .. MaxForeignEdits
    /\ owed \in [Paths -> VersionIds] /\ excused \subseteq Paths

\* ... of the spool ...
SpoolTypes ==
    /\ hints \subseteq Hints
    /\ \A g, h \in hints : g.name = h.name => g = h
    /\ \A h \in hints : h.name < nextHint
    /\ requests \in [Agents -> {NoRequest} \union 0 .. MaxHints]
    /\ nextHint \in 1 .. MaxHints + 1
    /\ spooled \in BOOLEAN

\* ... of the scheduler and its threads ...
ReviewTypes ==
    /\ main \in Mains /\ active \in Reviews /\ followUp \in Reviews
    /\ worker \in {"waiting", "read", "review", "link", "retire", "finish"}
    /\ look \in {"due", "vain"}

\* ... and of the session and the hooks.
HookTypes == session \in Sessions /\ hooks \in [Agents -> HookStates] /\ BudgetInv

\* All together, and after a step.
LEMMA TypeParts ==
  /\ TypeInv <=> FileTypes /\ SpoolTypes /\ ReviewTypes /\ HookTypes
  /\ TypeInv' <=> FileTypes' /\ SpoolTypes' /\ ReviewTypes' /\ HookTypes'
<1>1. TypeInv <=> FileTypes /\ SpoolTypes /\ ReviewTypes /\ HookTypes
  BY DEF TypeInv, TypeOK, FileTypes, SpoolTypes, ReviewTypes, HookTypes, Mains,
         Sessions, HookStates
<1> QED
  BY <1>1, PTL

\* A hook that goes on to something else than publishing a hint.
LEMMA HookMoves ==
  ASSUME HookTypes, NEW a \in Agents, NEW hook \in HookStates, hook.pc # "hint",
         hooks' = [hooks EXCEPT ![a] = hook], session' \in Sessions, UNCHANGED nextHint,
         nextHint \in 1 .. MaxHints + 1
  PROVE  HookTypes'
<1>m. MaxHints \in Nat
  BY BoundsAssumption
<1>1. hooks' \in [Agents -> HookStates]
  BY DEF HookTypes
<1>2. InHint' \subseteq InHint
  BY DEF HookTypes, InHint
<1>3. IsFiniteSet(InHint) /\ nextHint + Cardinality(InHint) <= MaxHints + 1
  BY DEF HookTypes, BudgetInv
<1> DEFINE old == InHint
           new == InHint'
<1> HIDE DEF old, new
<1>4. /\ IsFiniteSet(new) /\ Cardinality(new) <= Cardinality(old)
      /\ Cardinality(old) \in Nat /\ Cardinality(new) \in Nat
  <2>1. IsFiniteSet(old) /\ new \in SUBSET old
    BY <1>2, <1>3 DEF old, new
  <2>2. IsFiniteSet(new) /\ Cardinality(new) <= Cardinality(old)
    BY <2>1, FS_Subset
  <2> QED
    BY <2>1, <2>2, FS_CardinalityType
<1>5. nextHint + Cardinality(new) <= MaxHints + 1
  <2>1. nextHint + Cardinality(old) <= MaxHints + 1
    BY <1>3 DEF old
  <2> QED
    BY <1>m, <1>4, <2>1
<1>6. BudgetInv'
  BY <1>4, <1>5 DEF BudgetInv, new
<1> QED
  BY <1>1, <1>6 DEF HookTypes

\* Steps without hooks.
LEMMA HooksStay ==
  ASSUME HookTypes, UNCHANGED <<hooks, nextHint>>, session' \in Sessions
  PROVE  HookTypes'
  BY DEF HookTypes, BudgetInv, InHint

\* A hint may be published: there is room for one of the hook's.
LEMMA Budget ==
  ASSUME HookTypes, nextHint \in 1 .. MaxHints + 1, NEW a \in Agents, hooks[a].pc = "hint"
  PROVE  /\ nextHint \in 1 .. MaxHints
         /\ IsFiniteSet(InHint \ {a})
         /\ Cardinality(InHint \ {a}) = Cardinality(InHint) - 1
         /\ Cardinality(InHint) \in Nat
<1>m. MaxHints \in Nat
  BY BoundsAssumption
<1> DEFINE S == InHint
<1>1. a \in S
  BY DEF InHint
<1>2. IsFiniteSet(S) /\ nextHint + Cardinality(S) <= MaxHints + 1
  BY DEF HookTypes, BudgetInv
<1> HIDE DEF S
<1>3. IsFiniteSet(S \ {a}) /\ Cardinality(S \ {a}) = Cardinality(S) - 1
  BY <1>1, <1>2, FS_RemoveElement
<1>4. Cardinality(S) \in Nat /\ Cardinality(S \ {a}) \in Nat
  BY <1>2, <1>3, FS_CardinalityType
<1>5. nextHint \in 1 .. MaxHints
  BY <1>2, <1>3, <1>4, <1>m
<1> QED
  BY <1>3, <1>4, <1>5 DEF S

\* The files that change, and what becomes of what was hinted of them.
LEMMA ChangeTypes ==
  ASSUME FileTypes, NEW S, S \subseteq Paths, Change(S), edits' \in 0 .. MaxForeignEdits
  PROVE  FileTypes'
<1>1. PICK f \in [S -> Versions] :
          content' = [p \in Paths |-> IF p \in S THEN f[p] ELSE content[p]]
  BY DEF Change
<1>2. content' \in [Paths -> Versions]
  BY <1>1 DEF FileTypes
<1>3. owed' \in [Paths -> VersionIds]
  BY DEF Change, FileTypes, VersionIds
<1> QED
  BY <1>2, <1>3 DEF FileTypes, Change


\* An agent's tool and its hooks.
LEMMA HookKeepsTypes ==
  ASSUME TypeInv, NEW a \in Agents, Hook(a)
  PROVE  TypeInv'
<1>t. FileTypes /\ SpoolTypes /\ ReviewTypes /\ HookTypes
  BY TypeParts
<1>m. /\ MaxHints \in Nat /\ nextHint \in 1 .. MaxHints + 1
      /\ hooks[a] \in HookStates /\ session \in Sessions /\ hooks \in [Agents -> HookStates]
      /\ requests \in [Agents -> {NoRequest} \union 0 .. MaxHints]
      /\ NoFiles \in [Paths -> VersionIds] /\ IdleHook \in HookStates
  BY <1>t, BoundsAssumption
     DEF SpoolTypes, HookTypes, NoFiles, VersionIds, HookStates, IdleHook
<1>l. Lease(a) => session' \in Sessions
  BY <1>m DEF Lease, Sessions, AgentIds
<1>1. CASE \E S \in (SUBSET Paths) \ {{}} : AgentEdit(a, S)
  <2>1. PICK S \in (SUBSET Paths) \ {{}} : AgentEdit(a, S)
    BY <1>1
  <2>2. FileTypes'
    <3>1. Change(S) /\ S \subseteq Paths /\ edits' \in 0 .. MaxForeignEdits
      BY <1>t, <2>1 DEF AgentEdit, FileTypes
    <3> QED
      BY <1>t, <3>1, ChangeTypes
  <2> DEFINE files == [p \in Paths |-> IF p \in S THEN content'[p] ELSE NoVersion]
             hook  == [hooks[a] EXCEPT !.pc = "hint", !.files = files]
  <2>3. hook \in HookStates
    <3>1. files \in [Paths -> VersionIds]
      BY <2>2 DEF FileTypes, VersionIds
    <3> QED
      BY <1>m, <3>1 DEF HookStates
  <2>4. hooks' = [hooks EXCEPT ![a] = hook] /\ UNCHANGED <<spool, main, scheduler>>
    BY <2>1 DEF AgentEdit
  <2>5. BudgetInv'
    <3> DEFINE old == InHint
               new == InHint'
    <3>1. new = old \union {a}
      BY <1>m, <2>4 DEF InHint
    <3>2. IsFiniteSet(old) /\ nextHint + Cardinality(old) <= MaxHints
      BY <1>t, <2>1 DEF AgentEdit, InHint, HookTypes, BudgetInv
    <3> HIDE DEF old, new
    <3>3. IsFiniteSet(new) /\ Cardinality(new) <= Cardinality(old) + 1 /\ Cardinality(old) \in Nat
          /\ Cardinality(new) \in Nat
      <4>1. IsFiniteSet(new)
        BY <3>1, <3>2, FS_AddElement
      <4>2. Cardinality(old) \in Nat /\ Cardinality(new) \in Nat
        BY <3>2, <4>1, FS_CardinalityType
      <4>3. Cardinality(new) = IF a \in old THEN Cardinality(old) ELSE Cardinality(old) + 1
        BY <3>1, <3>2, FS_AddElement
      <4> QED
        BY <4>1, <4>2, <4>3
    <3>4. nextHint' = nextHint
      BY <2>4 DEF spool
    <3>5. nextHint + Cardinality(new) <= MaxHints + 1
      BY <1>m, <3>2, <3>3
    <3> QED
      BY <3>3, <3>4, <3>5 DEF BudgetInv, new
  <2>6. HookTypes'
    <3>1. hooks' \in [Agents -> HookStates]
      BY <1>m, <2>3, <2>4
    <3>2. session' \in Sessions
      BY <1>l, <2>1 DEF AgentEdit
    <3> QED
      BY <2>5, <3>1, <3>2 DEF HookTypes
  <2>7. SpoolTypes'
    BY <1>t, <2>4 DEF spool, SpoolTypes
  <2>8. ReviewTypes'
    BY <1>t, <2>1, <2>4 DEF ReviewTypes, scheduler, AgentEdit, Change
  <2> QED
    BY <2>2, <2>6, <2>7, <2>8, TypeParts
<1>2. CASE PublishHint(a)
  <2> DEFINE hook == [hooks[a] EXCEPT !.pc = "collect", !.files = NoFiles]
  <2>1. hook \in HookStates /\ hook.pc # "hint" /\ hooks' = [hooks EXCEPT ![a] = hook]
    BY <1>m, <1>2 DEF PublishHint, HookStates
  <2> HIDE DEF hook
  <2>2. CASE Owns(a)
    <3>1. nextHint \in 1 .. MaxHints
      BY <1>t, <1>m, <1>2, Budget DEF PublishHint
    <3>2. PICK turn \in Turns :
            hints' = hints \union {[name |-> nextHint, agent |-> a, turn |-> turn,
                                    age |-> 0, files |-> hooks[a].files]}
      BY <1>2, <2>2 DEF PublishHint
    <3>3. [name |-> nextHint, agent |-> a, turn |-> turn, age |-> 0,
           files |-> hooks[a].files] \in Hints
      BY <1>m, <3>1, BoundsAssumption DEF Hints, HintIds, HookStates
    <3>4. nextHint' = nextHint + 1
      BY <1>2, <2>2 DEF PublishHint
    <3>5. \A h \in hints : h.name < nextHint /\ h.name \in 1 .. MaxHints
      BY <1>t DEF SpoolTypes, Hints, HintIds
    <3>6. SpoolTypes'
      <4>1. requests' \in [Agents -> {NoRequest} \union 0 .. MaxHints]
        <5>1. PICK upTo \in {requests[a], nextHint} :
                requests' = [requests EXCEPT ![a] = upTo]
          BY <1>2, <2>2 DEF PublishHint
        <5>2. upTo \in {NoRequest} \union 0 .. MaxHints
          BY <1>m, <3>1
        <5> QED
          BY <1>m, <5>1, <5>2
      <4>2. /\ hints' \subseteq Hints
            /\ \A g, h \in hints' : g.name = h.name => g = h
            /\ \A h \in hints' : h.name < nextHint'
        <5>1. \A h \in hints' :
                \/ h \in hints /\ h.name < nextHint /\ h.name \in 1 .. MaxHints
                \/ h = [name |-> nextHint, agent |-> a, turn |-> turn, age |-> 0,
                        files |-> hooks[a].files]
          BY <3>2, <3>5
        <5>2. \A g, h \in hints : g.name = h.name => g = h
          BY <1>t DEF SpoolTypes
        <5>3. hints' \subseteq Hints
          BY <1>t, <3>3, <5>1 DEF SpoolTypes
        <5>4. \A g, h \in hints' : g.name = h.name => g = h
          BY <3>1, <5>1, <5>2
        <5>5. \A h \in hints' : h.name < nextHint'
          BY <3>1, <3>4, <5>1
        <5> QED
          BY <5>3, <5>4, <5>5
      <4>3. nextHint' \in 1 .. MaxHints + 1 /\ spooled' \in BOOLEAN
        BY <1>t, <1>m, <1>2, <3>1, <3>4 DEF PublishHint, SpoolTypes
      <4> QED
        BY <4>1, <4>2, <4>3 DEF SpoolTypes
    <3>7. FileTypes'
      <4>1. owed' \in [Paths -> VersionIds] /\ excused' \subseteq Paths
        BY <1>t, <1>2, <2>2 DEF PublishHint, FileTypes, VersionIds
      <4> QED
        BY <1>t, <1>2, <4>1 DEF PublishHint, FileTypes
    <3>8. HookTypes'
      <4> DEFINE old == InHint
                 new == InHint'
      <4>1. new = old \ {a}
        BY <1>m, <2>1 DEF InHint, HookStates
      <4>2. /\ IsFiniteSet(new) /\ Cardinality(new) = Cardinality(old) - 1
            /\ Cardinality(old) \in Nat
        BY <1>t, <1>m, <1>2, <4>1, Budget DEF PublishHint
      <4>3. nextHint + Cardinality(old) <= MaxHints + 1
        BY <1>t DEF HookTypes, BudgetInv
      <4> HIDE DEF old, new
      <4>4. IsFiniteSet(new) /\ nextHint' + Cardinality(new) <= MaxHints + 1
        BY <1>m, <3>4, <4>2, <4>3
      <4>5. BudgetInv'
        BY <4>4 DEF BudgetInv, new
      <4>6. hooks' \in [Agents -> HookStates] /\ session' \in Sessions
        BY <1>m, <1>2, <2>1 DEF PublishHint
      <4> QED
        BY <4>5, <4>6 DEF HookTypes
    <3> QED
      BY <1>t, <1>2, <3>6, <3>7, <3>8, TypeParts DEF PublishHint, ReviewTypes, scheduler
  <2>3. CASE ~Owns(a)
    <3>1. UNCHANGED <<hints, nextHint, requests, owed, excused, content, dirty, session,
                      spooled, main, active, followUp, worker, edits>>
      BY <1>2, <2>3 DEF PublishHint, history, scheduler
    <3>2. HookTypes'
      BY <1>t, <1>m, <2>1, <3>1, HookMoves
    <3> QED
      BY <1>t, <1>2, <3>1, <3>2, TypeParts DEF PublishHint, FileTypes, SpoolTypes, ReviewTypes
  <2> QED
    BY <2>2, <2>3
<1>3. CASE StartStop(a)
  <2> DEFINE hook == [hooks[a] EXCEPT !.pc = "claim"]
  <2>1. hook \in HookStates /\ hook.pc # "hint" /\ hooks' = [hooks EXCEPT ![a] = hook]
    BY <1>m, <1>3 DEF StartStop, Step, HookStates
  <2> HIDE DEF hook
  <2>2. HookTypes'
    BY <1>t, <1>m, <1>l, <1>3, <2>1, HookMoves DEF StartStop
  <2>3. requests' \in [Agents -> {NoRequest} \union 0 .. MaxHints]
    BY <1>m, <1>3 DEF StartStop, Covered
  <2> QED
    BY <1>t, <1>3, <2>2, <2>3, TypeParts
       DEF StartStop, FileTypes, SpoolTypes, ReviewTypes, scheduler, history
<1>4. CASE \/ Collect(a) \/ ClaimNothing(a) \/ ScanMarkers(a) \/ PollAgain(a)
           \/ GraceEnds(a)
  <2>1. \E hook \in HookStates : hook.pc # "hint" /\ hooks' = [hooks EXCEPT ![a] = hook]
    <3> DEFINE to(pc) == [hooks[a] EXCEPT !.pc = pc]
               again  == [hooks[a] EXCEPT !.pc = "claim", !.first = FALSE]
    <3>1. /\ \A pc \in {"markers", "sleep", "hints"} :
              to(pc) \in HookStates /\ to(pc).pc # "hint"
          /\ again \in HookStates /\ again.pc # "hint" /\ IdleHook.pc # "hint"
      BY <1>m DEF HookStates, IdleHook
    <3>2. \/ \E pc \in {"markers", "sleep", "hints"} : hooks' = [hooks EXCEPT ![a] = to(pc)]
          \/ hooks' = [hooks EXCEPT ![a] = again]
          \/ hooks' = [hooks EXCEPT ![a] = IdleHook]
      <4>1. CASE ClaimNothing(a) \/ ScanMarkers(a)
        BY <4>1 DEF ClaimNothing, ScanMarkers, Step
      <4>2. CASE PollAgain(a)
        BY <4>2 DEF PollAgain
      <4>3. CASE Collect(a) \/ GraceEnds(a)
        BY <4>3 DEF Collect, GraceEnds
      <4> QED
        BY <1>4, <4>1, <4>2, <4>3
    <3> HIDE DEF to, again
    <3> QED
      BY <1>m, <3>1, <3>2
  <2>2. /\ spooled' \in BOOLEAN
        /\ UNCHANGED <<content, dirty, session, hints, requests, nextHint, main,
                       scheduler, look, edits, history>>
    BY <1>t, <1>4 DEF Collect, ClaimNothing, ScanMarkers, PollAgain, GraceEnds, spool,
       SpoolTypes
  <2>3. HookTypes'
    BY <1>t, <1>m, <2>1, <2>2, HookMoves
  <2> QED
    BY <1>t, <2>2, <2>3, TypeParts
       DEF FileTypes, SpoolTypes, ReviewTypes, scheduler, history
<1>5. CASE ScanHints(a)
  <2>1. hints' \subseteq hints
    BY <1>5 DEF ScanHints
  <2>2. \E hook \in HookStates : hook.pc # "hint" /\ hooks' = [hooks EXCEPT ![a] = hook]
    <3>1. [hooks[a] EXCEPT !.pc = "sleep"] \in HookStates
      BY <1>m DEF HookStates
    <3>2. /\ [hooks[a] EXCEPT !.pc = "sleep"].pc # "hint"
          /\ IdleHook.pc # "hint"
      BY <1>m DEF HookStates, IdleHook
    <3>3. \/ hooks' = [hooks EXCEPT ![a] = [hooks[a] EXCEPT !.pc = "sleep"]]
          \/ hooks' = [hooks EXCEPT ![a] = IdleHook]
      BY <1>5 DEF ScanHints, Step
    <3> QED
      BY <1>m, <3>1, <3>2, <3>3
  <2>3. /\ look' \in {"due", "vain"}
        /\ UNCHANGED <<content, dirty, session, requests, nextHint, spooled, main,
                       scheduler, edits, history>>
    BY <1>t, <1>5 DEF ScanHints, LookAgain, ReviewTypes
  <2>4. HookTypes'
    BY <1>t, <1>m, <2>2, <2>3, HookMoves
  <2>5. SpoolTypes'
    BY <1>t, <2>1, <2>3 DEF SpoolTypes
  <2> QED
    BY <1>t, <2>3, <2>4, <2>5, TypeParts DEF FileTypes, ReviewTypes, scheduler, history
<1> QED
  BY <1>1, <1>2, <1>3, <1>4, <1>5 DEF Hook


\* The watcher's main loop.
LEMMA MainKeepsTypes ==
  ASSUME TypeInv, MainStep
  PROVE  TypeInv'
<1>t. FileTypes /\ SpoolTypes /\ ReviewTypes /\ HookTypes /\ TypeOK
  BY TypeParts DEF TypeInv
<1>m. /\ MaxHints \in Nat /\ session \in Sessions
      /\ main \in Mains /\ active \in Reviews /\ followUp \in Reviews
      /\ Polling \in Mains /\ NoReview \in Reviews
  <2>1. Polling \in Mains /\ NoReview \in Reviews
    BY DEF Polling, Mains, AgentIds, NoReview, Reviews, NoFiles, VersionIds
  <2> QED
    BY <1>t, <2>1, BoundsAssumption DEF ReviewTypes, HookTypes
<1>g. CapturedGeneration \in Generations \union {NoGeneration}
  BY <1>m DEF CapturedGeneration, Sessions
<1>h. HookTypes'
  <2>1. UNCHANGED <<hooks, nextHint, session>>
    BY DEF MainStep, TakeHints, TakeNothing, TakeBatch, SubmitDuplicate, SubmitFollowUp,
           UnlinkHints, spool
  <2> QED
    BY <1>t, <1>m, <2>1, HooksStay
<1>1. CASE TakeHints
  <2> DEFINE group == HintGroups[FirstLive(HintGroups)]
  <2>1. /\ Live(HintGroups) # {}
        /\ main' = [pc |-> "submit", agent |-> Oldest(group).agent,
                    names |-> Names(ActiveMembers(group)), paths |-> CurrentPaths(group)]
        /\ hints' \subseteq ValidHints
        /\ requests' = NoRequests /\ look' = "due"
        /\ UNCHANGED <<content, dirty, session, nextHint, spooled, scheduler, hooks,
                       edits, history>>
    BY <1>1 DEF TakeHints, Purged
  <2>2. /\ group # {} /\ group \subseteq ValidHints /\ CurrentPaths(group) \subseteq Paths
        /\ ActiveMembers(group) \subseteq group
    BY <1>t, <2>1, FirstGroup
  <2> HIDE DEF group
  <2>3. main' \in Mains
    <3>1. Oldest(group) \in group
      BY <1>t, <2>2, EndsOfGroup DEF ValidHints
    <3>2. Oldest(group).agent \in AgentIds
      BY <1>t, <2>2, <3>1, HintTypes DEF ValidHints, AgentIds
    <3>3. Names(ActiveMembers(group)) \subseteq HintIds
      BY <1>t, <2>2, HintTypes DEF ValidHints, Names, HintIds
    <3> QED
      BY <2>1, <2>2, <3>2, <3>3 DEF Mains
  <2>4. requests' \in [Agents -> {NoRequest} \union 0 .. MaxHints]
    BY <2>1 DEF NoRequests
  <2>5. SpoolTypes'
    BY <1>t, <2>1, <2>4 DEF SpoolTypes, ValidHints
  <2> QED
    BY <1>t, <1>h, <2>1, <2>3, <2>5, TypeParts DEF FileTypes, ReviewTypes, scheduler, history
<1>2. CASE TakeNothing
  <2>1. /\ hints' \subseteq ValidHints
        /\ requests' = NoRequests \/ requests' = ValidRequests
        /\ look' \in {"due", "vain"}
        /\ UNCHANGED <<content, dirty, session, nextHint, spooled, main, scheduler,
                       hooks, edits, history>>
    BY <1>2 DEF TakeNothing, Purged
  <2>2. requests' \in [Agents -> {NoRequest} \union 0 .. MaxHints]
    BY <1>t, <2>1 DEF NoRequests, ValidRequests, SpoolTypes
  <2>3. SpoolTypes'
    BY <1>t, <2>1, <2>2 DEF SpoolTypes, ValidHints
  <2> QED
    BY <1>t, <1>h, <2>1, <2>3, TypeParts DEF FileTypes, ReviewTypes, scheduler, history
<1>3. CASE \E S \in (SUBSET dirty) \ {{}} : TakeBatch(S)
  <2>1. PICK S \in (SUBSET dirty) \ {{}} : TakeBatch(S)
    BY <1>3
  <2>2. main' \in Mains
    BY <1>t, <1>m, <2>1 DEF TakeBatch, Mains, FileTypes
  <2> QED
    BY <1>t, <1>h, <2>1, <2>2, TypeParts
       DEF TakeBatch, FileTypes, ReviewTypes, SpoolTypes, scheduler, history, spool
<1>a. /\ \A agent : AfterMarker(agent) => main' \in Mains
      /\ main.agent \in AgentIds /\ main.paths \subseteq Paths
      /\ active.agent \in AgentIds /\ active.paths \subseteq Paths
  BY <1>m DEF AfterMarker, Mains, Reviews
<1>4. CASE SubmitDuplicate
  <2>1. main' \in Mains
    BY <1>a, <1>4 DEF SubmitDuplicate
  <2>2. Begun(active, main.agent) \in AgentIds
    BY <1>m, <1>a DEF Begun, Reviews
  <2>3. active' \in Reviews
    BY <1>m, <1>a, <1>g, <1>4, <2>2 DEF SubmitDuplicate, Reviews
  <2> QED
    BY <1>t, <1>h, <1>4, <2>1, <2>3, TypeParts
       DEF SubmitDuplicate, FileTypes, ReviewTypes, SpoolTypes, history, spool
<1>5. CASE SubmitFollowUp
  <2>1. main' \in Mains
    BY <1>a, <1>5 DEF SubmitFollowUp
  <2>2. IncomingAgent \in AgentIds /\ Incoming \subseteq Paths
    BY <1>a DEF IncomingAgent, Incoming
  <2>3. Base \in Reviews
    <3> DEFINE none == [NoReview EXCEPT !.agent = IncomingAgent,
                                        !.generation = CapturedGeneration]
               base == IF followUp.paths = {} THEN none ELSE followUp
    <3>1. none \in Reviews
      BY <1>m, <1>g, <2>2 DEF Reviews
    <3>2. base \in Reviews
      BY <1>m, <3>1
    <3>3. Base = IF RouteChanged(base, IncomingAgent)
                 THEN [base EXCEPT !.marker = NoAgent, !.agent = IncomingAgent] ELSE base
      BY DEF Base
    <3> HIDE DEF base
    <3> QED
      BY <2>2, <3>2, <3>3 DEF Reviews, AgentIds
  <2>4. Begun(Base, IncomingAgent) \in AgentIds
    BY <2>2, <2>3 DEF Begun, Reviews
  <2>5. followUp' \in Reviews
    BY <1>5, <1>g, <2>2, <2>3, <2>4 DEF SubmitFollowUp, Reviews
  <2>6. active' \in Reviews
    <3>1. (active.cancelled \/ Supersedes) \in BOOLEAN
      OBVIOUS
    <3> QED
      BY <1>m, <1>5, <3>1 DEF SubmitFollowUp, Reviews
  <2> QED
    BY <1>t, <1>h, <1>5, <2>1, <2>5, <2>6, TypeParts
       DEF SubmitFollowUp, FileTypes, ReviewTypes, SpoolTypes, history, spool
<1>6. CASE UnlinkHints
  <2>1. /\ hints' \subseteq hints /\ main' = Polling /\ look' \in {"due", "vain"}
        /\ UNCHANGED <<content, dirty, requests, nextHint, spooled, scheduler, edits, history>>
    BY <1>t, <1>6 DEF UnlinkHints, LookAgain, ReviewTypes
  <2> QED
    BY <1>t, <1>m, <1>h, <2>1, TypeParts
       DEF FileTypes, ReviewTypes, SpoolTypes, scheduler, history
<1> QED
  BY <1>1, <1>2, <1>3, <1>4, <1>5, <1>6 DEF MainStep

\* The provider worker.
LEMMA WorkerKeepsTypes ==
  ASSUME TypeInv, WorkerStep
  PROVE  TypeInv'
<1>t. FileTypes /\ SpoolTypes /\ ReviewTypes /\ HookTypes
  BY TypeParts
<1>m. /\ session \in Sessions /\ active \in Reviews /\ followUp \in Reviews
      /\ NoReview \in Reviews
      /\ \A S : ContentOf(S) \in [Paths -> VersionIds]
  <2>1. NoReview \in Reviews
    BY DEF AgentIds, NoReview, Reviews, NoFiles, VersionIds
  <2>2. \A S : ContentOf(S) \in [Paths -> VersionIds]
    BY <1>t DEF ContentOf, FileTypes, VersionIds
  <2> QED
    BY <1>t, <2>1, <2>2 DEF ReviewTypes, HookTypes
<1>h. HookTypes'
  <2>1. UNCHANGED <<hooks, nextHint, session>>
    BY DEF WorkerStep, StartReview, ReadFiles, SkipReview, PublishReview, LinkBatch,
           EndReview, RetireHints, FinishReview, spool
  <2> QED
    BY <1>t, <1>m, <2>1, HooksStay
<1>r. Reviewed => owed' \in [Paths -> VersionIds] /\ excused' \subseteq Paths
  <2>1. CASE active.cancelled
    BY <1>t, <2>1 DEF Reviewed, FileTypes
  <2>2. CASE ~active.cancelled
    BY <1>t, <2>2 DEF Reviewed, FileTypes, VersionIds
  <2> QED
    BY <2>1, <2>2
<1>1. CASE StartReview \/ ReadFiles \/ SkipReview \/ EndReview
  <2>1. /\ UNCHANGED <<content, dirty, session, spool, main, hooks, look, edits, history>>
        /\ worker' \in {"read", "review", "finish", "retire"}
        /\ \/ active' = active /\ followUp' = followUp
           \/ active' = [followUp EXCEPT !.digest = ContentOf(followUp.paths)]
              /\ followUp' = NoReview
           \/ active' = [active EXCEPT !.digest = ContentOf(active.paths)]
              /\ followUp' = followUp
    BY <1>1 DEF StartReview, ReadFiles, SkipReview, EndReview
  <2>2. active' \in Reviews /\ followUp' \in Reviews
    BY <1>m, <2>1 DEF Reviews
  <2> QED
    BY <1>t, <1>h, <2>1, <2>2, TypeParts
       DEF FileTypes, ReviewTypes, SpoolTypes, history, spool
<1>2. CASE PublishReview \/ RetireHints
  <2>1. /\ hints' \subseteq hints /\ look' \in {"due", "vain"}
        /\ worker' \in {"link", "finish"}
        /\ UNCHANGED <<content, dirty, session, requests, nextHint, spooled, main, active,
                       followUp, hooks, edits>>
    BY <1>t, <1>2 DEF PublishReview, RetireHints, Unreviewed, LookAgain, ReviewTypes
  <2>2. owed' \in [Paths -> VersionIds] /\ excused' \subseteq Paths
    BY <1>t, <1>r, <1>2 DEF PublishReview, RetireHints, history, FileTypes
  <2> QED
    BY <1>t, <1>h, <2>1, <2>2, TypeParts DEF FileTypes, ReviewTypes, SpoolTypes
<1>3. CASE LinkBatch
  <2>1. spooled' \in BOOLEAN
    BY <1>3 DEF LinkBatch
  <2> QED
    BY <1>t, <1>h, <1>3, <2>1, TypeParts
       DEF LinkBatch, FileTypes, ReviewTypes, SpoolTypes, history
<1>4. CASE FinishReview
  <2>1. /\ active' = NoReview /\ UNCHANGED followUp /\ worker' = "waiting"
        /\ Reviewed
        /\ UNCHANGED <<content, dirty, session, spool, main, hooks, look, edits>>
    BY <1>4 DEF FinishReview, ReviewForgotten
  <2> QED
    BY <1>t, <1>m, <1>h, <1>r, <2>1, TypeParts DEF FileTypes, ReviewTypes, SpoolTypes, spool
<1> QED
  BY <1>1, <1>2, <1>3, <1>4 DEF WorkerStep

\* Edits by others, time and the end of a session.
LEMMA EnvironmentKeepsTypes ==
  ASSUME TypeInv, Environment
  PROVE  TypeInv'
<1>t. FileTypes /\ SpoolTypes /\ ReviewTypes /\ HookTypes
  BY TypeParts
<1>m. /\ session \in Sessions /\ MaxGeneration \in Nat /\ TurnMaxAge \in Nat
      /\ MaxForeignEdits \in Nat
  BY <1>t, BoundsAssumption DEF HookTypes
<1>1. CASE \E p \in Paths : ForeignEdit(p)
  <2>1. PICK p \in Paths : ForeignEdit(p)
    BY <1>1
  <2>2. Change({p}) /\ edits' \in 0 .. MaxForeignEdits
    BY <1>t, <1>m, <2>1 DEF ForeignEdit, FileTypes
  <2>3. FileTypes'
    BY <1>t, <2>2, ChangeTypes
  <2>4. HookTypes'
    BY <1>t, <1>m, <2>1, HooksStay DEF ForeignEdit, spool
  <2> QED
    BY <1>t, <2>1, <2>2, <2>3, <2>4, TypeParts
       DEF ForeignEdit, Change, ReviewTypes, SpoolTypes, spool, scheduler
<1>2. CASE ReleaseSession
  <2>1. session' \in Sessions
    BY <1>m, <1>2 DEF ReleaseSession, Sessions, Generations, AgentIds
  <2>2. HookTypes'
    BY <1>t, <1>2, <2>1, HooksStay DEF ReleaseSession
  <2>3. FileTypes'
    BY <1>t, <1>2 DEF ReleaseSession, FileTypes, NoFiles, VersionIds
  <2> QED
    BY <1>t, <1>2, <2>2, <2>3, TypeParts DEF ReleaseSession, ReviewTypes, SpoolTypes, scheduler
<1>3. CASE \E a \in Agents : ExpireRequests(a)
  <2>1. PICK a \in Agents : ExpireRequests(a)
    BY <1>3
  <2>2. requests' \in [Agents -> {NoRequest} \union 0 .. MaxHints]
    BY <1>t, <2>1 DEF ExpireRequests, SpoolTypes
  <2>3. HookTypes'
    BY <1>t, <1>m, <2>1, HooksStay DEF ExpireRequests
  <2> QED
    BY <1>t, <2>1, <2>2, <2>3, TypeParts
       DEF ExpireRequests, FileTypes, ReviewTypes, SpoolTypes, scheduler, history
<1>4. CASE Tick
  <2> DEFINE aged(h) == [h EXCEPT !.age = IF @ > TurnMaxAge THEN @ ELSE @ + 1]
  <2>1. hints' = {aged(h) : h \in hints}
    BY <1>4 DEF Tick
  <2>2. ASSUME NEW h \in hints
        PROVE  aged(h) \in Hints /\ aged(h).name = h.name
    BY <1>t, <1>m, <2>2 DEF SpoolTypes, Hints
  <2> HIDE DEF aged
  <2>3. SpoolTypes'
    BY <1>t, <1>4, <2>1, <2>2 DEF Tick, SpoolTypes
  <2>4. HookTypes'
    BY <1>t, <1>m, <1>4, HooksStay DEF Tick
  <2> QED
    BY <1>t, <1>4, <2>3, <2>4, TypeParts DEF Tick, FileTypes, ReviewTypes, scheduler, history
<1> QED
  BY <1>1, <1>2, <1>3, <1>4 DEF Environment

\* Every step keeps the types.
LEMMA NextTypes == TypeInv /\ [Next]_vars => TypeInv'
<1> SUFFICES ASSUME TypeInv, [Next]_vars
             PROVE  TypeInv'
  OBVIOUS
<1>1. CASE Next
  BY <1>1, HookKeepsTypes, MainKeepsTypes, WorkerKeepsTypes, EnvironmentKeepsTypes DEF Next
<1>2. CASE UNCHANGED vars
  <2>1. UNCHANGED <<content, dirty, session, hints, requests, nextHint, spooled, main,
                    active, followUp, worker, hooks, look, edits, owed, excused>>
    BY <1>2 DEF vars, spool, scheduler, history
  <2>2. HookTypes'
    BY <2>1, HooksStay, TypeParts DEF HookTypes
  <2> QED
    BY <2>1, <2>2, TypeParts DEF FileTypes, ReviewTypes, SpoolTypes
<1> QED
  BY <1>1, <1>2

\* The variables have their types, and every hint has a name of its own: a request, a
\* purge and an unlink name hints, they never carry them along.
THEOREM TypeCorrect == Spec => []TypeOK
<1>1. TypeInv => TypeOK
  BY DEF TypeInv
<1> QED
  BY <1>1, InitTypes, NextTypes, PTL DEF Spec


(***************************************************************************)
(* How long hints wait.                                                    *)
(***************************************************************************)
\* Hints are no older than allowed, and younger than that after a poll in vain; hints
\* that were published later are no older.
AgeInv ==
    /\ \A h \in hints :
        /\ h.age <= TurnMaxAge
        /\ look = "vain" => h.age < TurnMaxAge
    /\ \A g, h \in hints : g.name < h.name => h.age <= g.age

\* Only these steps publish hints, let them age, or find that there is nothing to do.
LEMMA HintSteps ==
  ASSUME TypeOK, [Next]_vars
  PROVE  \/ hints' \subseteq hints /\ (look' = "vain" => look = "vain")
         \/ \E a \in Agents : PublishHint(a)
         \/ TakeNothing
         \/ Tick
<1>1. CASE MainStep
  <2>1. \/ hints' \subseteq hints /\ (look' = "vain" => look = "vain")
        \/ TakeNothing
    BY <1>1 DEF MainStep, TakeHints, Purged, ValidHints, TakeBatch, SubmitDuplicate,
       SubmitFollowUp, UnlinkHints, LookAgain, spool
  <2> QED
    BY <2>1
<1>2. CASE WorkerStep
  BY <1>2 DEF WorkerStep, StartReview, ReadFiles, SkipReview, PublishReview, LinkBatch,
     EndReview, RetireHints, FinishReview, Unreviewed, LookAgain, spool
<1>3. CASE Environment
  BY <1>3 DEF Environment, ForeignEdit, Change, ReleaseSession, ExpireRequests, spool
<1>4. CASE \E a \in Agents : Hook(a)
  <2>1. PICK a \in Agents : Hook(a)
    BY <1>4
  <2>2. CASE \E S \in (SUBSET Paths) \ {{}} : AgentEdit(a, S)
    BY <2>2 DEF AgentEdit, Change, spool
  <2>3. CASE StartStop(a) \/ Collect(a) \/ ClaimNothing(a) \/ ScanMarkers(a)
             \/ PollAgain(a) \/ GraceEnds(a)
    BY <2>3 DEF StartStop, Collect, ClaimNothing, ScanMarkers, PollAgain, GraceEnds, spool
  <2>4. CASE ScanHints(a)
    BY <2>4 DEF ScanHints, LookAgain
  <2> QED
    BY <2>1, <2>2, <2>3, <2>4 DEF Hook
<1>5. CASE UNCHANGED vars
  BY <1>5 DEF vars, spool
<1> QED
  BY <1>1, <1>2, <1>3, <1>4, <1>5 DEF Next

\* A poll that neither takes nor removes a hint has seen none that is too old.
LEMMA VainPoll ==
  ASSUME TypeOK, AgeInv, TakeNothing, look' = "vain"
  PROVE  /\ hints' = hints
         /\ \A h \in hints : h.age < TurnMaxAge
<1>m. /\ MaxHints \in Nat /\ TurnMaxAge \in Nat /\ MaxAge \in Nat /\ MaxAge <= TurnMaxAge
      /\ \A h \in hints : h.age \in Nat /\ h.name \in 1 .. MaxHints
  BY BoundsAssumption, HintTypes
<1>1. hints' = hints
  BY DEF TakeNothing
<1>2. /\ InGroups(HintGroups, MaxHints) /\ Len(HintGroups) \in Nat
      /\ \A i \in 1 .. Len(HintGroups) : HintGroups[i] \subseteq ValidHints
  BY GroupsOfHints DEF InGroups
<1>3. ASSUME NEW h \in hints
      PROVE  h.age < TurnMaxAge
  <2>1. CASE Live(HintGroups) = {}
    <3>1. hints = Purged(HintGroups, Len(HintGroups))
      BY <1>1, <2>1 DEF TakeNothing
    <3>2. Len(HintGroups) \in 0 .. Len(HintGroups)
      BY <1>2
    <3>3. /\ h \in ValidHints
          /\ \A i \in 1 .. Len(HintGroups) :
              h \in HintGroups[i] => h \in ActiveMembers(HintGroups[i])
      BY <1>3, <3>1, <3>2, PurgedFacts
    <3>4. PICK i \in 1 .. Len(HintGroups) : h \in HintGroups[i]
      BY <1>m, <1>2, <3>3 DEF InGroups
    <3>5. CurrentPaths(HintGroups[i]) # {}
      BY <1>2, <3>3, <3>4, CurrentFacts DEF ValidHints
    <3>6. i \in Live(HintGroups)
      BY <1>2, <3>4, <3>5 DEF Live, InGroups
    <3> QED
      BY <2>1, <3>6
  <2>2. CASE Live(HintGroups) # {}
    <3> DEFINE first   == FirstLive(HintGroups)
               group   == HintGroups[first]
               members == ActiveMembers(group)
    <3>1. /\ first \in 1 .. Len(HintGroups)
          /\ group \subseteq ValidHints /\ members # {} /\ members \subseteq group
          /\ \A i \in 1 .. Len(HintGroups) : i < first => CurrentPaths(HintGroups[i]) = {}
      BY <2>2, FirstLiveFacts, FirstGroup
    <3>2. hints = Purged(HintGroups, first) /\ ~Ready(group)
      BY <1>1, <2>2 DEF TakeNothing
    <3>3. ~Aged(members)
      BY <3>2 DEF Ready
    <3> HIDE DEF first, members
    <3>4. Oldest(members) \in members /\ \A g \in members : Oldest(members).name <= g.name
      BY <3>1, EndsOfGroup DEF ValidHints
    <3>5. Oldest(members) \in hints /\ Oldest(members).age < TurnMaxAge
      <4>1. Oldest(members) \in hints
        BY <3>1, <3>4 DEF ValidHints
      <4> QED
        BY <1>m, <3>3, <4>1 DEF Aged
    <3>6. first \in 0 .. Len(HintGroups)
      BY <1>2, <3>1
    <3>7. /\ h \in ValidHints
          /\ \A i \in 1 .. first : h \in HintGroups[i] => h \in ActiveMembers(HintGroups[i])
      BY <1>3, <3>2, <3>6, PurgedFacts
    <3>8. PICK i \in 1 .. Len(HintGroups) : h \in HintGroups[i]
      BY <1>m, <1>2, <3>7 DEF InGroups
    <3>9. Oldest(members).name <= h.name
      <4>1. CASE i < first
        <5>1. i \in 1 .. first
          BY <1>2, <3>1, <3>8, <4>1
        <5>2. h \in ActiveMembers(HintGroups[i]) /\ CurrentPaths(HintGroups[i]) = {}
          BY <3>1, <3>7, <3>8, <4>1, <5>1
        <5> QED
          BY <1>2, <3>8, <5>2, CurrentFacts DEF ValidHints
      <4>2. CASE i = first
        <5>1. first \in 1 .. first
          BY <1>2, <3>1
        <5> QED
          BY <3>4, <3>7, <3>8, <4>2, <5>1 DEF members
      <4>3. CASE first < i
        <5>1. Oldest(members) \in HintGroups[first]
          BY <3>1, <3>4
        <5>2. Oldest(members).name < h.name
          BY <1>2, <3>1, <3>8, <4>3, <5>1 DEF InGroups
        <5> QED
          BY <1>m, <3>5, <5>2
      <4> QED
        BY <1>2, <3>1, <3>8, <4>1, <4>2, <4>3
    <3>10. h.age <= Oldest(members).age
      <4>1. CASE Oldest(members).name = h.name
        BY <1>m, <3>5, <4>1 DEF TypeOK
      <4>2. CASE Oldest(members).name < h.name
        BY <3>5, <4>2 DEF AgeInv
      <4> QED
        BY <1>m, <3>5, <3>9, <4>1, <4>2
    <3> QED
      BY <1>m, <3>5, <3>10
  <2> QED
    BY <2>1, <2>2
<1> QED
  BY <1>1, <1>3

\* Every step keeps the ages in their bounds.
LEMMA NextAges == TypeInv /\ AgeInv /\ [Next]_vars => AgeInv'
<1> SUFFICES ASSUME TypeInv, AgeInv, [Next]_vars
             PROVE  AgeInv'
  OBVIOUS
<1>t. TypeOK /\ TypeInv'
  BY NextTypes DEF TypeInv
<1>m. /\ TurnMaxAge \in Nat
      /\ \A h \in hints : h.age \in Nat /\ h.name < nextHint /\ h.name \in 1 .. MaxHints
  BY <1>t, BoundsAssumption, HintTypes DEF TypeInv
<1>1. CASE hints' \subseteq hints /\ (look' = "vain" => look = "vain")
  BY <1>1 DEF AgeInv
<1>2. CASE \E a \in Agents : PublishHint(a)
  <2>1. PICK a \in Agents : PublishHint(a)
    BY <1>2
  <2>2. look' = "due"
    BY <2>1 DEF PublishHint
  <2>3. \A h \in hints' : h \in hints \/ (h.age = 0 /\ h.name = nextHint)
    BY <2>1 DEF PublishHint
  <2>4. \A h \in hints : h.age <= TurnMaxAge
    BY DEF AgeInv
  <2>5. ASSUME NEW g \in hints', NEW h \in hints', g.name < h.name
        PROVE  h.age <= g.age
    <3>1. CASE h.age = 0
      BY <1>m, <2>3, <3>1
    <3>2. CASE h \in hints /\ g \in hints
      BY <2>5, <3>2 DEF AgeInv
    <3>3. CASE h \in hints /\ g.name = nextHint
      <4>1. h.name < nextHint /\ h.name \in Nat /\ nextHint \in Nat
        BY <1>m, <1>t, <3>3, BoundsAssumption DEF TypeOK
      <4> QED
        BY <2>5, <3>3, <4>1
    <3> QED
      BY <2>3, <3>1, <3>2, <3>3
  <2> QED
    BY <1>m, <2>2, <2>3, <2>4, <2>5 DEF AgeInv
<1>3. CASE TakeNothing
  <2>1. CASE look' = "vain"
    BY <1>t, <1>3, <2>1, VainPoll DEF AgeInv
  <2>2. CASE look' # "vain"
    <3>1. hints' \subseteq hints
      BY <1>3 DEF TakeNothing, Purged, ValidHints
    <3> QED
      BY <2>2, <3>1 DEF AgeInv
  <2> QED
    BY <2>1, <2>2
<1>4. CASE Tick
  <2> DEFINE aged(h) == [h EXCEPT !.age = IF @ > TurnMaxAge THEN @ ELSE @ + 1]
  <2>1. hints' = {aged(h) : h \in hints} /\ look' = "due" /\ look = "vain"
    BY <1>4 DEF Tick
  <2>2. ASSUME NEW h \in hints
        PROVE  aged(h).age = h.age + 1 /\ aged(h).name = h.name /\ h.age < TurnMaxAge
    <3>1. h.age < TurnMaxAge
      BY <2>1, <2>2 DEF AgeInv
    <3>2. h \in Hints
      BY <1>t, <2>2 DEF TypeOK
    <3> QED
      BY <1>m, <3>1, <3>2 DEF Hints
  <2> HIDE DEF aged
  <2>3. \A h \in hints' : h.age <= TurnMaxAge
    BY <1>m, <2>1, <2>2
  <2>4. ASSUME NEW g \in hints, NEW h \in hints, aged(g).name < aged(h).name
        PROVE  aged(h).age <= aged(g).age
    <3>1. g.name < h.name
      BY <2>2, <2>4
    <3>2. h.age <= g.age
      BY <3>1 DEF AgeInv
    <3> QED
      BY <1>m, <2>2, <3>2
  <2> QED
    BY <2>1, <2>3, <2>4 DEF AgeInv
<1> QED
  BY <1>t, <1>1, <1>2, <1>3, <1>4, HintSteps

\* No hint whose file is as it says is older than agent_turn_max_age: a poll that does
\* nothing has looked at a group that is older than it, or removed it.
THEOREM AgesCorrect == Spec => []HintsAreTakenInTime
<1>1. Init => TypeInv /\ AgeInv
  BY InitTypes DEF Init, AgeInv
<1>2. AgeInv => HintsAreTakenInTime
  BY DEF AgeInv, HintsAreTakenInTime
<1> QED
  BY <1>1, <1>2, NextTypes, NextAges, PTL DEF Spec


(***************************************************************************)
(* Requests.                                                               *)
(***************************************************************************)
FirstMembers == ActiveMembers(HintGroups[FirstLive(HintGroups)])

\* After a poll in vain no request of the owner covers the first live group.
RequestInv ==
    look = "vain" /\ Live(HintGroups) # {} =>
        \A a \in Agents : Owns(a) => requests[a] < Newest(FirstMembers).name

\* Groups are made in the same way after every step.
LEMMA GroupsDefNext ==
  ( /\ GroupsUpTo[0] = <<>>
    /\ \A n \in 1 .. MaxHints : GroupsUpTo[n] = WithHint(GroupsUpTo[n - 1], n) )'
  BY GroupsDef, PTL

\* The same hints of the same session and files make the same groups.
LEMMA SameGroups ==
  ASSUME UNCHANGED <<hints, session, content>>
  PROVE  /\ HintGroups' = HintGroups
         /\ Live(HintGroups)' = Live(HintGroups)
         /\ FirstMembers' = FirstMembers
<1>m. MaxHints \in Nat
  BY BoundsAssumption
<1>1. ValidHints' = ValidHints
  BY DEF ValidHints, Owns
<1> DEFINE old == GroupsUpTo
           new == GroupsUpTo'
<1>2. /\ new[0] = <<>>
      /\ \A n \in 1 .. MaxHints : new[n] = WithHint(new[n - 1], n)
  BY <1>1, GroupsDefNext DEF WithHint
<1>3. /\ old[0] = <<>>
      /\ \A n \in 1 .. MaxHints : old[n] = WithHint(old[n - 1], n)
  BY GroupsDef
<1>4. HintGroups' = HintGroups
  <2> HIDE DEF old, new
  <2> DEFINE Same == {n \in 0 .. MaxHints : new[n] = old[n]}
  <2>1. 0 \in Same
    BY <1>m, <1>2, <1>3
  <2>2. ASSUME NEW n \in 1 .. MaxHints, n - 1 \in Same
        PROVE  n \in Same
    BY <1>2, <1>3, <2>2
  <2>3. MaxHints \in Same
    <3> HIDE DEF Same
    <3> QED
      BY <1>m, <2>1, <2>2, SetInduction
  <2>4. new[MaxHints] = old[MaxHints]
    BY <2>3
  <2> QED
    BY <2>4 DEF HintGroups, old, new
<1>5. \A group : CurrentPaths(group)' = CurrentPaths(group)
  BY DEF CurrentPaths
<1>6. \A group : ActiveMembers(group)' = ActiveMembers(group)
  BY <1>5 DEF ActiveMembers
<1>7. Live(HintGroups)' = Live(HintGroups)
  BY <1>4, <1>5 DEF Live
<1>8. FirstLive(HintGroups)' = FirstLive(HintGroups)
  BY <1>7 DEF FirstLive
<1>9. FirstMembers' = FirstMembers
  BY <1>4, <1>6, <1>8 DEF FirstMembers
<1> QED
  BY <1>4, <1>7, <1>9


\* While the main loop has nothing to look for, hints and files stay as they are, nobody
\* becomes the owner and nothing is asked for.
LEMMA QuietSteps ==
  ASSUME TypeOK, [Next]_vars, look' = "vain", ~TakeNothing
  PROVE  /\ look = "vain"
         /\ UNCHANGED <<hints, content>>
         /\ \/ UNCHANGED session
            \/ session'.state = "closed"
         /\ \A a \in Agents : requests'[a] \in {requests[a], NoRequest}
<1>1. CASE MainStep
  BY <1>1 DEF MainStep, TakeHints, TakeBatch, SubmitDuplicate, SubmitFollowUp, UnlinkHints,
     LookAgain, spool
<1>2. CASE WorkerStep
  BY <1>2 DEF WorkerStep, StartReview, ReadFiles, SkipReview, PublishReview, LinkBatch,
     EndReview, RetireHints, FinishReview, LookAgain, spool
<1>3. CASE Environment
  <2>1. CASE \E a \in Agents : ExpireRequests(a)
    <3>1. PICK a \in Agents : ExpireRequests(a)
      BY <2>1
    <3>2. \A b \in Agents : requests'[b] \in {requests[b], NoRequest}
      BY <3>1 DEF ExpireRequests, TypeOK
    <3> QED
      BY <3>1, <3>2 DEF ExpireRequests
  <2>2. CASE ReleaseSession
    BY <2>2 DEF ReleaseSession
  <2>3. CASE Tick \/ \E p \in Paths : ForeignEdit(p)
    BY <2>3 DEF Tick, ForeignEdit, Change
  <2> QED
    BY <1>3, <2>1, <2>2, <2>3 DEF Environment
<1>4. CASE \E a \in Agents : Hook(a)
  <2>1. PICK a \in Agents : Hook(a)
    BY <1>4
  <2>2. CASE \E S \in (SUBSET Paths) \ {{}} : AgentEdit(a, S)
    BY <2>2 DEF AgentEdit, Change
  <2>3. CASE PublishHint(a) \/ StartStop(a)
    BY <2>3 DEF PublishHint, StartStop
  <2>4. CASE Collect(a) \/ ClaimNothing(a) \/ ScanMarkers(a) \/ PollAgain(a) \/ GraceEnds(a)
    BY <2>4 DEF Collect, ClaimNothing, ScanMarkers, PollAgain, GraceEnds, spool
  <2>5. CASE ScanHints(a)
    BY <2>5 DEF ScanHints, LookAgain
  <2> QED
    BY <2>1, <2>2, <2>3, <2>4, <2>5 DEF Hook
<1>5. CASE UNCHANGED vars
  BY <1>5 DEF vars, spool
<1> QED
  BY <1>1, <1>2, <1>3, <1>4, <1>5 DEF Next

\* Every step keeps them so: only a poll finds that there is nothing to do.
LEMMA NextRequests == TypeInv /\ RequestInv /\ [Next]_vars => RequestInv'
<1> SUFFICES ASSUME TypeInv, RequestInv, [Next]_vars, look' = "vain",
                    (Live(HintGroups) # {})', NEW a \in Agents, Owns(a)'
             PROVE  requests'[a] < Newest(FirstMembers').name
  BY DEF RequestInv
<1>t. TypeOK /\ NoRequest = -1 /\ requests \in [Agents -> {NoRequest} \union 0 .. MaxHints]
  BY DEF TypeInv, TypeOK, NoRequest
<1>1. CASE TakeNothing
  <2>1. UNCHANGED <<hints, session, content>>
    BY <1>1 DEF TakeNothing
  <2>2. HintGroups' = HintGroups /\ Live(HintGroups) # {} /\ FirstMembers' = FirstMembers
    BY <2>1, SameGroups
  <2>3. ~Forced(FirstMembers) /\ requests' = ValidRequests
    BY <1>1, <2>2 DEF TakeNothing, Ready, FirstMembers
  <2>4. Owns(a)
    BY <2>1 DEF Owns
  <2>5. ~(Newest(FirstMembers).name <= ValidRequests[a]) /\ ValidRequests[a] = requests[a]
    BY <2>3, <2>4 DEF Forced, ValidRequests
  <2>6. Newest(FirstMembers).name \in 1 .. MaxHints
    <3>1. FirstMembers # {} /\ FirstMembers \subseteq hints
      BY <1>t, <2>2, FirstGroup DEF FirstMembers, ValidHints
    <3>2. Newest(FirstMembers) \in hints
      BY <1>t, <3>1, EndsOfGroup
    <3> QED
      BY <1>t, <3>2, HintTypes
  <2> QED
    BY <1>t, <2>2, <2>3, <2>5, <2>6, BoundsAssumption
<1>2. CASE ~TakeNothing
  <2>1. /\ look = "vain" /\ UNCHANGED <<hints, content>>
        /\ UNCHANGED session \/ session'.state = "closed"
        /\ requests'[a] \in {requests[a], NoRequest}
    BY <1>t, <1>2, QuietSteps
  <2>2. UNCHANGED <<hints, session, content>> /\ Owns(a)
    BY <2>1 DEF Owns
  <2>3. Live(HintGroups) # {} /\ FirstMembers' = FirstMembers
    BY <2>2, SameGroups
  <2>4. requests[a] < Newest(FirstMembers).name
    BY <2>1, <2>2, <2>3 DEF RequestInv
  <2>5. Newest(FirstMembers).name \in 1 .. MaxHints
    <3>1. FirstMembers # {} /\ FirstMembers \subseteq hints
      BY <1>t, <2>3, FirstGroup DEF FirstMembers, ValidHints
    <3>2. Newest(FirstMembers) \in hints
      BY <1>t, <3>1, EndsOfGroup
    <3> QED
      BY <1>t, <3>2, HintTypes
  <2> QED
    BY <1>t, <2>1, <2>3, <2>4, <2>5, BoundsAssumption
<1> QED
  BY <1>1, <1>2

\* No time passes while the first group of live hints is covered by a request of the
\* owner: neither its age nor the removal of a request keeps it back.
THEOREM RequestsCorrect == Spec => FlushedOnRequest
<1>1. Init => TypeInv /\ RequestInv
  BY InitTypes DEF Init, RequestInv
<1>2. RequestInv /\ [Next]_vars =>
        [Tick /\ Live(HintGroups) # {} =>
          LET members == ActiveMembers(HintGroups[FirstLive(HintGroups)])
          IN  \A a \in Agents : Owns(a) => requests[a] < Newest(members).name]_vars
  BY DEF RequestInv, FirstMembers, Tick
<1> QED
  BY <1>1, <1>2, NextTypes, NextRequests, PTL DEF Spec, FlushedOnRequest


(***************************************************************************)
(* Whose hints and reviews they are.                                       *)
(***************************************************************************)
\* Either one agent only uses the route or its session does not end.  (The Stop hook of
\* an ended session that still polls would unlink the hints of the next one.)
OneOwner == MaxGeneration = 0 \/ \A a, b \in Agents : a = b

\* The main thread's hands: empty while it polls; names of hints of the owner, and paths.
MainInv ==
    /\ \A n \in main.names : n < nextHint
    /\ main.pc = "poll" => main = Polling
    /\ main.pc = "submit" => main.paths # {}
    /\ main.names # {} => main.agent \in Agents

\* The session has an owner while it is bound, and only then are hinted bytes owed.
SessionInv ==
    /\ session.state = "bound" <=> session.agent # NoAgent
    /\ session.state # "bound" => owed = NoFiles

\* The agents whose hooks run, or of whom there are hints, reviews or markers.
Engaged(a) ==
    \/ hooks[a].pc # "idle"
    \/ \E h \in hints : h.agent = a
    \/ a \in {main.agent, active.agent, active.marker, followUp.agent, followUp.marker}

EngagedInv == MaxGeneration = 0 => \A a \in Agents : Engaged(a) => Owns(a)

\* What becomes of main in a step.
LEMMA NextMain == TypeInv /\ MainInv /\ [Next]_vars => MainInv'
<1> SUFFICES ASSUME TypeInv, MainInv, [Next]_vars
             PROVE  MainInv'
  OBVIOUS
<1>t. /\ TypeOK /\ nextHint \in Nat /\ main \in Mains
      /\ \A h \in hints : h.name < nextHint /\ h.name \in Nat
      /\ \A n \in main.names : n \in Nat
  BY BoundsAssumption, HintTypes DEF TypeInv, TypeOK, Mains, HintIds
<1>n. nextHint' = nextHint \/ nextHint' = nextHint + 1
  BY DEF Next, Hook, AgentEdit, PublishHint, StartStop, Collect, ClaimNothing, ScanMarkers,
         ScanHints, PollAgain, GraceEnds, MainStep, TakeHints, TakeNothing, TakeBatch,
         SubmitDuplicate, SubmitFollowUp, UnlinkHints, WorkerStep, StartReview, ReadFiles,
         SkipReview, PublishReview, LinkBatch, EndReview, RetireHints, FinishReview,
         Environment, ForeignEdit, ReleaseSession, ExpireRequests, Tick, spool, vars
<1>1. CASE UNCHANGED main
  BY <1>t, <1>n, <1>1 DEF MainInv
<1>2. CASE TakeHints
  <2> DEFINE group == HintGroups[FirstLive(HintGroups)]
  <2>1. /\ Live(HintGroups) # {}
        /\ main' = [pc |-> "submit", agent |-> Oldest(group).agent,
                    names |-> Names(ActiveMembers(group)), paths |-> CurrentPaths(group)]
        /\ nextHint' = nextHint
    BY <1>2 DEF TakeHints
  <2>2. /\ group # {} /\ group \subseteq ValidHints /\ CurrentPaths(group) # {}
        /\ ActiveMembers(group) \subseteq group
    BY <1>t, <2>1, FirstGroup
  <2> HIDE DEF group
  <2>3. Oldest(group).agent \in Agents
    <3>1. Oldest(group) \in hints
      BY <1>t, <2>2, EndsOfGroup DEF ValidHints
    <3> QED
      BY <1>t, <3>1, HintTypes
  <2>4. \A n \in Names(ActiveMembers(group)) : n < nextHint
    BY <1>t, <2>2 DEF Names, ValidHints
  <2> QED
    BY <2>1, <2>2, <2>3, <2>4 DEF MainInv
<1>3. CASE \E S \in (SUBSET dirty) \ {{}} : TakeBatch(S)
  <2>1. PICK S \in (SUBSET dirty) \ {{}} : TakeBatch(S)
    BY <1>3
  <2>2. main' = [Polling EXCEPT !.pc = "submit", !.paths = S]
    BY <2>1 DEF TakeBatch
  <2> QED
    BY <2>1, <2>2 DEF MainInv, Polling
<1>4. CASE main' = Polling
  BY <1>4 DEF MainInv, Polling
<1>5. CASE main' = [main EXCEPT !.pc = "unlink"]
  <2>1. main'.pc = "unlink" /\ main'.names = main.names /\ main'.agent = main.agent
    BY <1>t, <1>5 DEF Mains
  <2> QED
    BY <1>t, <1>n, <2>1 DEF MainInv
<1>6. \/ UNCHANGED main \/ TakeHints \/ \E S \in (SUBSET dirty) \ {{}} : TakeBatch(S)
      \/ main' = Polling \/ main' = [main EXCEPT !.pc = "unlink"]
  <2>1. CASE MainStep
    BY <2>1 DEF MainStep, TakeNothing, SubmitDuplicate, SubmitFollowUp, AfterMarker,
       UnlinkHints
  <2>2. CASE WorkerStep
    BY <2>2 DEF WorkerStep, StartReview, ReadFiles, SkipReview, PublishReview, LinkBatch,
       EndReview, RetireHints, FinishReview
  <2>3. CASE Environment
    BY <2>3 DEF Environment, ForeignEdit, ReleaseSession, ExpireRequests, Tick
  <2>4. CASE \E a \in Agents : Hook(a)
    BY <2>4 DEF Hook, AgentEdit, PublishHint, StartStop, Collect, ClaimNothing,
       ScanMarkers, ScanHints, PollAgain, GraceEnds
  <2> QED
    BY <2>1, <2>2, <2>3, <2>4 DEF Next, vars
<1> QED
  BY <1>1, <1>2, <1>3, <1>4, <1>5, <1>6

\* How the session goes on, and with it what is owed.
LEMMA NextSession == TypeInv /\ SessionInv /\ [Next]_vars => SessionInv'
<1> SUFFICES ASSUME TypeInv, SessionInv, [Next]_vars
             PROVE  SessionInv'
  OBVIOUS
<1>t. session \in Sessions /\ NoAgent \notin Agents
  BY NullsAssumption DEF TypeInv, TypeOK, Sessions
<1>1. CASE \E a \in Agents : Lease(a)
  BY <1>t, <1>1 DEF Lease, Sessions, SessionInv
<1>2. CASE ReleaseSession
  BY <1>2 DEF ReleaseSession, SessionInv
<1>3. CASE UNCHANGED session /\ UNCHANGED owed
  BY <1>3 DEF SessionInv
<1>4. CASE UNCHANGED session /\ (\E S \in SUBSET Paths : Change(S))
  <2>1. owed = NoFiles => owed' = NoFiles
    BY <1>4 DEF Change, NoFiles
  <2> QED
    BY <1>4, <2>1 DEF SessionInv
<1>5. CASE UNCHANGED session /\ \E a \in Agents : Owns(a)
  BY <1>5 DEF SessionInv, Owns
<1>6. CASE UNCHANGED session /\ Reviewed
  <2>1. owed = NoFiles => owed' = NoFiles
    BY <1>6 DEF Reviewed, NoFiles
  <2> QED
    BY <1>6, <2>1 DEF SessionInv
<1>7. \/ \E a \in Agents : Lease(a)
      \/ ReleaseSession
      \/ UNCHANGED session /\ UNCHANGED owed
      \/ UNCHANGED session /\ (\E S \in SUBSET Paths : Change(S))
      \/ UNCHANGED session /\ \E a \in Agents : Owns(a)
      \/ UNCHANGED session /\ Reviewed
  <2>1. CASE MainStep
    BY <2>1 DEF MainStep, TakeHints, TakeNothing, TakeBatch, SubmitDuplicate,
       SubmitFollowUp, UnlinkHints, history
  <2>2. CASE WorkerStep
    BY <2>2 DEF WorkerStep, StartReview, ReadFiles, SkipReview, PublishReview, LinkBatch,
       EndReview, RetireHints, FinishReview, history
  <2>3. CASE Environment
    BY <2>3 DEF Environment, ForeignEdit, ExpireRequests, Tick, history
  <2>4. CASE \E a \in Agents : Hook(a)
    BY <2>4 DEF Hook, AgentEdit, PublishHint, StartStop, Collect, ClaimNothing,
       ScanMarkers, ScanHints, PollAgain, GraceEnds, history
  <2> QED
    BY <2>1, <2>2, <2>3, <2>4 DEF Next, vars, history
<1> QED
  BY <1>1, <1>2, <1>3, <1>4, <1>5, <1>6, <1>7


\* Who is engaged after a step was before, or owns the route.
LEMMA Engagement ==
  ASSUME TypeInv, Next, NEW b \in Agents, Engaged(b)'
  PROVE  Engaged(b) \/ Owns(b)'
<1>t. /\ TypeOK /\ NoAgent \notin Agents /\ hooks \in [Agents -> HookStates]
      /\ main \in Mains /\ active \in Reviews /\ followUp \in Reviews
  BY NullsAssumption DEF TypeInv, TypeOK, Mains, HookStates
<1>1. CASE MainStep
  <2>1. hooks' = hooks /\ hints' \subseteq hints
    BY <1>1 DEF MainStep, TakeHints, TakeNothing, TakeBatch, SubmitDuplicate, Purged,
       SubmitFollowUp, UnlinkHints, ValidHints, spool
  <2> SUFFICES ASSUME b \in {main'.agent, active'.agent, active'.marker, followUp'.agent,
                             followUp'.marker}
               PROVE  Engaged(b)
    BY <2>1 DEF Engaged
  <2>2. CASE TakeHints
    <3> DEFINE group == HintGroups[FirstLive(HintGroups)]
    <3>1. /\ Live(HintGroups) # {} /\ main'.agent = Oldest(group).agent
          /\ UNCHANGED <<active, followUp>>
      BY <2>2 DEF TakeHints, scheduler
    <3>2. group # {} /\ group \subseteq ValidHints
      BY <1>t, <3>1, FirstGroup
    <3> HIDE DEF group
    <3>3. Oldest(group) \in hints
      BY <1>t, <3>2, EndsOfGroup DEF ValidHints
    <3> QED
      BY <3>1, <3>3 DEF Engaged
  <2>3. CASE TakeNothing \/ UnlinkHints \/ \E S \in (SUBSET dirty) \ {{}} : TakeBatch(S)
    <3>1. main'.agent \in {main.agent, NoAgent} /\ UNCHANGED <<active, followUp>>
      <4>1. CASE TakeNothing
        BY <4>1 DEF TakeNothing, scheduler
      <4>2. CASE UnlinkHints
        BY <4>2 DEF UnlinkHints, Polling, scheduler
      <4>3. CASE \E S \in (SUBSET dirty) \ {{}} : TakeBatch(S)
        BY <4>3 DEF TakeBatch, Polling, scheduler
      <4> QED
        BY <2>3, <4>1, <4>2, <4>3
    <3> QED
      BY <1>t, <3>1 DEF Engaged
  <2>a. \A agent : AfterMarker(agent) => main'.agent \in {main.agent, NoAgent}
    BY <1>t DEF AfterMarker, Mains, Polling
  <2>4. CASE SubmitDuplicate
    <3>1. /\ main'.agent \in {main.agent, NoAgent} /\ followUp' = followUp
          /\ active'.agent \in {active.agent, main.agent}
          /\ active'.marker \in {active.marker, main.agent}
      BY <1>t, <2>4, <2>a DEF SubmitDuplicate, Begun, Reviews
    <3> QED
      BY <1>t, <3>1 DEF Engaged
  <2>5. CASE SubmitFollowUp
    <3>1. /\ main'.agent \in {main.agent, NoAgent}
          /\ active'.agent = active.agent /\ active'.marker = active.marker
      BY <1>t, <2>5, <2>a DEF SubmitFollowUp, Reviews
    <3>2. IncomingAgent \in {active.agent, main.agent}
      BY DEF IncomingAgent
    <3>3. /\ Base.agent \in {followUp.agent, IncomingAgent}
          /\ Base.marker \in {followUp.marker, NoAgent}
          /\ DOMAIN Base = {"paths", "digest", "agent", "generation", "marker", "cancelled"}
      BY <1>t DEF Base, NoReview, Reviews
    <3>4. /\ followUp'.agent \in {Base.agent, IncomingAgent}
          /\ followUp'.marker \in {Base.marker, IncomingAgent}
      BY <2>5, <3>3 DEF SubmitFollowUp, Begun
    <3> QED
      BY <1>t, <3>1, <3>2, <3>3, <3>4 DEF Engaged
  <2> QED
    BY <1>1, <2>2, <2>3, <2>4, <2>5 DEF MainStep
<1>2. CASE WorkerStep
  <2>1. hooks' = hooks /\ main' = main /\ hints' \subseteq hints
    BY <1>2 DEF WorkerStep, StartReview, ReadFiles, SkipReview, PublishReview, LinkBatch,
       EndReview, RetireHints, FinishReview, Unreviewed, spool
  <2>2. /\ active'.agent \in {active.agent, followUp.agent, NoAgent}
        /\ active'.marker \in {active.marker, followUp.marker, NoAgent}
        /\ followUp'.agent \in {followUp.agent, NoAgent}
        /\ followUp'.marker \in {followUp.marker, NoAgent}
    BY <1>t, <1>2 DEF WorkerStep, StartReview, ReadFiles, SkipReview, PublishReview, LinkBatch,
       EndReview, RetireHints, FinishReview, ReviewForgotten, NoReview, Reviews
  <2> QED
    BY <1>t, <2>1, <2>2 DEF Engaged
<1>3. CASE Environment
  <2>1. UNCHANGED <<hooks, main, active, followUp>>
    BY <1>3 DEF Environment, ForeignEdit, ReleaseSession, ExpireRequests, Tick, scheduler
  <2>2. \A h \in hints' : \E g \in hints : h.agent = g.agent
    <3>1. CASE Tick
      <4>1. \A g \in hints :
              [g EXCEPT !.age = IF @ > TurnMaxAge THEN @ ELSE @ + 1].agent = g.agent
        BY <1>t DEF TypeOK, Hints
      <4> QED
        BY <3>1, <4>1 DEF Tick
    <3>2. CASE ~Tick
      BY <1>3, <3>2 DEF Environment, ForeignEdit, ReleaseSession, ExpireRequests, spool
    <3> QED
      BY <3>1, <3>2
  <2> QED
    BY <2>1, <2>2 DEF Engaged
<1>4. CASE \E a \in Agents : Hook(a)
  <2>1. PICK a \in Agents : Hook(a)
    BY <1>4
  <2>2. UNCHANGED <<main, active, followUp>>
    <3>1. CASE \E S \in (SUBSET Paths) \ {{}} : AgentEdit(a, S)
      BY <3>1 DEF AgentEdit, scheduler
    <3>2. CASE PublishHint(a) \/ StartStop(a) \/ Collect(a) \/ ClaimNothing(a)
      BY <3>2 DEF PublishHint, StartStop, Collect, ClaimNothing, scheduler
    <3>3. CASE ScanMarkers(a) \/ ScanHints(a) \/ PollAgain(a) \/ GraceEnds(a)
      BY <3>3 DEF ScanMarkers, ScanHints, PollAgain, GraceEnds, scheduler
    <3> QED
      BY <2>1, <3>1, <3>2, <3>3 DEF Hook
  <2>3. /\ b # a => hooks'[b] = hooks[b]
        /\ Engaged(a) \/ Owns(a)'
    <3>1. b # a => hooks'[b] = hooks[b]
      BY <1>t, <2>1 DEF Hook, AgentEdit, PublishHint, StartStop, Collect, ClaimNothing,
         ScanMarkers, ScanHints, PollAgain, GraceEnds, Step
    <3>2. Lease(a) => Owns(a)'
      <4>1. session \in Sessions
        BY <1>t DEF TypeOK, Sessions
      <4> QED
        BY <4>1 DEF Lease, Owns, Sessions
    <3>3. hooks[a].pc = "idle" => Lease(a)
      BY <2>1 DEF Hook, AgentEdit, PublishHint, StartStop, Collect, ClaimNothing,
         ScanMarkers, ScanHints, PollAgain, GraceEnds
    <3> QED
      BY <3>1, <3>2, <3>3 DEF Engaged
  <2>4. \A h \in hints' : h \in hints \/ h.agent = a
    <3>1. CASE PublishHint(a)
      BY <3>1 DEF PublishHint
    <3>2. CASE ScanHints(a)
      BY <3>2 DEF ScanHints
    <3>3. CASE \E S \in (SUBSET Paths) \ {{}} : AgentEdit(a, S)
      BY <3>3 DEF AgentEdit, spool
    <3>4. CASE StartStop(a) \/ Collect(a) \/ ClaimNothing(a) \/ ScanMarkers(a)
               \/ PollAgain(a) \/ GraceEnds(a)
      BY <3>4 DEF StartStop, Collect, ClaimNothing, ScanMarkers, PollAgain, GraceEnds, spool
    <3> QED
      BY <2>1, <3>1, <3>2, <3>3, <3>4 DEF Hook
  <2> QED
    BY <2>2, <2>3, <2>4 DEF Engaged
<1> QED
  BY <1>1, <1>2, <1>3, <1>4 DEF Next

\* Without an end of the session everybody that is engaged owns the route for ever.
LEMMA NextEngaged == TypeInv /\ SessionInv /\ EngagedInv /\ [Next]_vars => EngagedInv'
<1> SUFFICES ASSUME TypeInv, SessionInv, EngagedInv, [Next]_vars, MaxGeneration = 0,
                    NEW b \in Agents, Engaged(b)'
             PROVE  Owns(b)'
  BY DEF EngagedInv
<1>t. session \in Sessions
  BY DEF TypeInv, TypeOK, Sessions
<1>1. CASE UNCHANGED vars
  BY <1>1 DEF vars, spool, scheduler, EngagedInv, Engaged, Owns
<1>2. CASE Next
  <2>1. UNCHANGED session \/ \E a \in Agents : Lease(a)
    <3>1. ~ReleaseSession
      BY <1>t DEF ReleaseSession, Sessions, Generations
    <3>2. CASE MainStep
      BY <3>2 DEF MainStep, TakeHints, TakeNothing, TakeBatch, SubmitDuplicate,
         SubmitFollowUp, UnlinkHints
    <3>3. CASE WorkerStep
      BY <3>3 DEF WorkerStep, StartReview, ReadFiles, SkipReview, PublishReview, LinkBatch,
         EndReview, RetireHints, FinishReview
    <3>4. CASE Environment
      BY <3>1, <3>4 DEF Environment, ForeignEdit, ExpireRequests, Tick
    <3>5. CASE \E a \in Agents : Hook(a)
      BY <3>5 DEF Hook, AgentEdit, PublishHint, StartStop, Collect, ClaimNothing,
         ScanMarkers, ScanHints, PollAgain, GraceEnds
    <3> QED
      BY <1>2, <3>2, <3>3, <3>4, <3>5 DEF Next
  <2>2. Owns(b) => Owns(b)'
    BY <1>t, <2>1 DEF Owns, Lease, Sessions
  <2>3. Engaged(b) \/ Owns(b)'
    BY <1>2, Engagement
  <2> QED
    BY <2>2, <2>3 DEF EngagedInv
<1> QED
  BY <1>1, <1>2

\* While the session is bound, nobody but its owner is engaged.
LEMMA EngagedOwns ==
  ASSUME OneOwner, TypeInv, SessionInv, EngagedInv, session.state = "bound",
         NEW a \in Agents, Engaged(a)
  PROVE  Owns(a)
<1>1. CASE MaxGeneration = 0
  BY <1>1 DEF EngagedInv
<1>2. CASE \A c, d \in Agents : c = d
  <2>1. session.agent \in Agents
    BY DEF SessionInv, TypeInv, TypeOK, AgentIds
  <2> QED
    BY <1>2, <2>1 DEF Owns
<1> QED
  BY <1>1, <1>2 DEF OneOwner


(***************************************************************************)
(* What is owed.                                                           *)
(***************************************************************************)
\* There is an active review while the worker is at one, a follow-up while it has paths;
\* owed bytes are those on disk, and those a hook is about to publish are not owed yet.
OwedInv ==
    /\ worker = "waiting" => active = NoReview
    /\ followUp.paths = {} => followUp = NoReview
    /\ \A p \in Paths : owed[p] # NoVersion => owed[p] = content[p]
    /\ \A a \in Agents :
        hooks[a].pc = "hint" /\ Owns(a) =>
            \A p \in Named(hooks[a].files) : owed[p] = NoVersion

\* Files change only with what is owed of them, and bytes become owed only when they
\* are published.
LEMMA OwedSteps ==
  ASSUME TypeInv, [Next]_vars
  PROVE  \/ \E S \in SUBSET Paths : Change(S) /\ UNCHANGED hooks
         \/ \E a \in Agents, S \in SUBSET Paths : AgentEdit(a, S)
         \/ \E a \in Agents : PublishHint(a)
         \/ /\ UNCHANGED content
            /\ \A p \in Paths : owed'[p] \in {owed[p], NoVersion}
            /\ \A a \in Agents : hooks'[a].pc = "hint" => hooks'[a] = hooks[a]
<1>t. /\ hooks \in [Agents -> HookStates] /\ owed \in [Paths -> VersionIds]
  BY DEF TypeInv, TypeOK, HookStates
<1>r. Reviewed => \A p \in Paths : owed'[p] \in {owed[p], NoVersion}
  BY <1>t DEF Reviewed
<1>1. CASE MainStep
  BY <1>1 DEF MainStep, TakeHints, TakeNothing, TakeBatch, SubmitDuplicate,
     SubmitFollowUp, UnlinkHints, history
<1>2. CASE WorkerStep
  BY <1>2, <1>r DEF WorkerStep, StartReview, ReadFiles, SkipReview, PublishReview, LinkBatch,
     EndReview, RetireHints, FinishReview, history
<1>3. CASE Environment
  <2>1. CASE \E p \in Paths : ForeignEdit(p)
    BY <2>1 DEF ForeignEdit
  <2>2. CASE ReleaseSession
    BY <2>2 DEF ReleaseSession, NoFiles
  <2>3. CASE Tick \/ \E a \in Agents : ExpireRequests(a)
    BY <2>3 DEF Tick, ExpireRequests, history
  <2> QED
    BY <1>3, <2>1, <2>2, <2>3 DEF Environment
<1>4. CASE \E a \in Agents : Hook(a)
  <2>1. PICK a \in Agents : Hook(a)
    BY <1>4
  <2>2. CASE (\E S \in (SUBSET Paths) \ {{}} : AgentEdit(a, S)) \/ PublishHint(a)
    BY <2>2
  <2>3. CASE StartStop(a) \/ ClaimNothing(a) \/ ScanMarkers(a)
    BY <1>t, <2>3 DEF StartStop, ClaimNothing, ScanMarkers, Step, HookStates, history
  <2>4. CASE Collect(a) \/ PollAgain(a) \/ GraceEnds(a)
    BY <1>t, <2>4 DEF Collect, PollAgain, GraceEnds, HookStates, IdleHook, history
  <2>5. CASE ScanHints(a)
    BY <1>t, <2>5 DEF ScanHints, Step, HookStates, IdleHook, history
  <2> QED
    BY <2>1, <2>2, <2>3, <2>4, <2>5 DEF Hook
<1>5. CASE UNCHANGED vars
  BY <1>5 DEF vars, history
<1> QED
  BY <1>1, <1>2, <1>3, <1>4, <1>5 DEF Next

\* The scheduler's reviews come and go with their paths.
LEMMA NextReviews ==
  ASSUME TypeInv, MainInv, OwedInv, [Next]_vars
  PROVE  /\ worker' = "waiting" => active' = NoReview
         /\ followUp'.paths = {} => followUp' = NoReview
<1>t. /\ active \in Reviews /\ followUp \in Reviews /\ main \in Mains
      /\ worker = "waiting" => active = NoReview
      /\ followUp.paths = {} => followUp = NoReview
  BY DEF TypeInv, TypeOK, Mains, OwedInv
<1>1. CASE SubmitDuplicate
  <2>1. worker # "waiting"
    BY <1>t, <1>1 DEF SubmitDuplicate, Incoming, UnchangedOverlap, NoReview, MainInv
  <2> QED
    BY <1>t, <1>1, <2>1 DEF SubmitDuplicate
<1>2. CASE SubmitFollowUp
  <2>1. DOMAIN Base = {"paths", "digest", "agent", "generation", "marker", "cancelled"}
    BY <1>t DEF Base, NoReview, Reviews
  <2>2. followUp'.paths = Base.paths \union Incoming /\ Incoming # {}
    BY <1>2, <2>1 DEF SubmitFollowUp
  <2>3. active = NoReview => active' = NoReview
    <3> SUFFICES ASSUME active = NoReview
                 PROVE  active' = active
      OBVIOUS
    <3>1. active.paths = {} /\ active.cancelled = FALSE
      BY DEF NoReview
    <3>2. (active.cancelled \/ Supersedes) = FALSE
      BY <3>1 DEF Supersedes
    <3>3. [active EXCEPT !.cancelled = FALSE] = active
      BY <1>t, <3>1 DEF Reviews
    <3> QED
      BY <1>2, <3>2, <3>3 DEF SubmitFollowUp
  <2> QED
    BY <1>t, <1>2, <2>2, <2>3 DEF SubmitFollowUp
<1>3. CASE WorkerStep
  BY <1>t, <1>3 DEF WorkerStep, StartReview, ReadFiles, SkipReview, PublishReview, LinkBatch,
     EndReview, RetireHints, FinishReview, ReviewForgotten, NoReview
<1>4. CASE UNCHANGED <<worker, active, followUp>>
  BY <1>t, <1>4
<1>5. \/ SubmitDuplicate \/ SubmitFollowUp \/ WorkerStep
      \/ UNCHANGED <<worker, active, followUp>>
  <2>1. CASE MainStep
    BY <2>1 DEF MainStep, TakeHints, TakeNothing, TakeBatch, UnlinkHints, scheduler
  <2>2. CASE Environment
    BY <2>2 DEF Environment, ForeignEdit, ReleaseSession, ExpireRequests, Tick, scheduler
  <2>3. CASE \E a \in Agents : Hook(a)
    <3>1. PICK a \in Agents : Hook(a)
      BY <2>3
    <3>2. CASE \E S \in (SUBSET Paths) \ {{}} : AgentEdit(a, S)
      BY <3>2 DEF AgentEdit, scheduler
    <3>3. CASE PublishHint(a) \/ StartStop(a) \/ Collect(a) \/ ClaimNothing(a)
      BY <3>3 DEF PublishHint, StartStop, Collect, ClaimNothing, scheduler
    <3>4. CASE ScanMarkers(a) \/ ScanHints(a) \/ PollAgain(a) \/ GraceEnds(a)
      BY <3>4 DEF ScanMarkers, ScanHints, PollAgain, GraceEnds, scheduler
    <3> QED
      BY <3>1, <3>2, <3>3, <3>4 DEF Hook
  <2> QED
    BY <2>1, <2>2, <2>3 DEF Next, vars, scheduler
<1> QED
  BY <1>1, <1>2, <1>3, <1>4, <1>5


\* Every step keeps what is owed in line with the files and the hooks.
LEMMA NextOwed ==
  ASSUME TypeInv, MainInv, SessionInv, OwedInv, EngagedInv, OneOwner, [Next]_vars
  PROVE  OwedInv'
<1>t. /\ hooks \in [Agents -> HookStates] /\ owed \in [Paths -> VersionIds]
      /\ content \in [Paths -> Versions] /\ NoVersion \notin Versions
      /\ TypeOK' /\ session \in Sessions
  BY NextTypes, NullsAssumption DEF TypeInv, TypeOK, HookStates, Sessions
<1>1. \A p \in Paths : owed'[p] # NoVersion => owed'[p] = content'[p]
  <2>1. CASE \E S \in SUBSET Paths : Change(S)
    BY <1>t, <2>1 DEF Change, OwedInv
  <2>2. CASE \E a \in Agents : PublishHint(a)
    BY <1>t, <2>2 DEF PublishHint, OwedInv, history
  <2>3. CASE UNCHANGED content /\ \A p \in Paths : owed'[p] \in {owed[p], NoVersion}
    BY <2>3 DEF OwedInv
  <2> QED
    BY <2>1, <2>2, <2>3, OwedSteps DEF AgentEdit
<1>2. ASSUME NEW b \in Agents, hooks'[b].pc = "hint", Owns(b)', NEW p \in Named(hooks'[b].files)
      PROVE  owed'[p] = NoVersion
  <2>p. p \in Paths
    BY DEF Named
  <2>1. CASE \E a \in Agents, S \in SUBSET Paths : AgentEdit(a, S)
    <3>1. PICK a \in Agents, S \in SUBSET Paths : AgentEdit(a, S)
      BY <2>1
    <3>2. /\ \A q \in Paths : q \in S => owed'[q] = NoVersion
          /\ \A q \in Paths : owed'[q] \in {owed[q], NoVersion}
      BY <3>1 DEF AgentEdit, Change
    <3>3. CASE b = a
      <4>1. hooks'[a].files = [q \in Paths |-> IF q \in S THEN content'[q] ELSE NoVersion]
        BY <1>t, <3>1 DEF AgentEdit, HookStates
      <4>2. p \in S
        BY <3>3, <4>1 DEF Named
      <4> QED
        BY <2>p, <3>2, <4>2
    <3>4. CASE b # a
      <4>1. hooks'[b] = hooks[b]
        BY <1>t, <3>1, <3>4 DEF AgentEdit
      <4>2. Engaged(b)
        BY <1>2, <4>1 DEF Engaged
      <4>3. Owns(a)'
        BY <1>t, <3>1 DEF AgentEdit, Lease, Owns, Sessions
      <4>4. FALSE
        BY <1>2, <3>4, <4>3 DEF Owns
      <4> QED
        BY <4>4
    <3> QED
      BY <3>3, <3>4
  <2>2. CASE \E a \in Agents : PublishHint(a)
    <3>1. PICK a \in Agents : PublishHint(a)
      BY <2>2
    <3>2. hooks'[a].pc = "collect" /\ UNCHANGED session
      BY <1>t, <3>1 DEF PublishHint, HookStates
    <3>3. b # a /\ hooks'[b] = hooks[b]
      BY <1>t, <1>2, <3>1, <3>2 DEF PublishHint
    <3>4. Owns(b) /\ ~Owns(a)
      BY <1>2, <3>2, <3>3 DEF Owns
    <3>5. owed' = owed
      BY <3>1, <3>4 DEF PublishHint, history
    <3> QED
      BY <1>2, <3>3, <3>4, <3>5 DEF OwedInv
  <2>3. CASE /\ \A q \in Paths : owed'[q] \in {owed[q], NoVersion}
             /\ \A a \in Agents : hooks'[a].pc = "hint" => hooks'[a] = hooks[a]
    <3>1. hooks'[b] = hooks[b] /\ hooks[b].pc = "hint"
      BY <1>2, <2>3
    <3>2. CASE Owns(b)
      BY <1>2, <2>p, <2>3, <3>1, <3>2 DEF OwedInv
    <3>3. CASE ~Owns(b)
      <4>1. session.state # "bound" \/ session.agent # b
        BY <3>3 DEF Owns
      <4>2. session.state # "bound"
        BY <3>1, <3>3, EngagedOwns DEF Engaged
      <4>3. owed = NoFiles
        BY <4>2 DEF SessionInv
      <4> QED
        BY <2>p, <2>3, <4>3 DEF NoFiles
    <3> QED
      BY <3>2, <3>3
  <2>4. CASE \E S \in SUBSET Paths : Change(S) /\ UNCHANGED hooks
    <3>1. PICK S \in SUBSET Paths : Change(S) /\ UNCHANGED hooks
      BY <2>4
    <3>2. \A q \in Paths : owed'[q] \in {owed[q], NoVersion}
      BY <3>1 DEF Change
    <3>3. CASE Owns(b)
      BY <1>2, <2>p, <3>1, <3>2, <3>3 DEF OwedInv
    <3>4. CASE ~Owns(b)
      <4>1. session.state # "bound"
        BY <1>2, <3>1, <3>4, EngagedOwns DEF Engaged
      <4>2. owed = NoFiles
        BY <4>1 DEF SessionInv
      <4> QED
        BY <2>p, <3>2, <4>2 DEF NoFiles
    <3> QED
      BY <3>3, <3>4
  <2> QED
    BY <2>1, <2>2, <2>3, <2>4, OwedSteps
<1> QED
  BY <1>1, <1>2, NextReviews DEF OwedInv


(***************************************************************************)
(* Where an edit is visible.                                               *)
(***************************************************************************)
\* A hint of the owner says of the path what is owed, and so do the later ones.
Says(h, p) ==
    /\ h.agent = session.agent
    /\ h.files[p] = owed[p]
    /\ \A g \in hints :
        g.agent = session.agent /\ h.name < g.name /\ p \in Named(g.files)
            => g.files[p] = owed[p]

\* If the main thread is to unlink the hint, it submits the path first.
Handled(h, p) == h.name \in main.names => main.pc = "submit" /\ p \in main.paths

Hinted(p) == \E h \in hints : Says(h, p) /\ Handled(h, p)

\* The follow-up is marked for the owner.
FollowUpMarked ==
    followUp.marker = session.agent /\ followUp.generation = session.generation

\* The bytes of the active review are those that are owed.
Reviewing(p) == p \in active.paths /\ active.digest[p] = owed[p]

Tracked(p) ==
    \/ worker \in {"link", "retire"} /\ active.digest[p] = owed[p]
    \/ Reviewing(p) /\ (active.marker = session.agent \/ FollowUpMarked)
    \/ p \in followUp.paths /\ FollowUpMarked
    \/ Hinted(p)

VisibleInv == \A p \in Paths : owed[p] # NoVersion /\ p \notin excused => Tracked(p)

\* All that the proof knows of a state.
StateInv ==
    /\ TypeInv /\ MainInv /\ SessionInv /\ OwedInv /\ EngagedInv
    /\ VisibleInv

\* What is known of a path that is still owed after a step in the same bytes.
LEMMA OwedFacts ==
  ASSUME StateInv, NEW p \in Paths, owed[p] # NoVersion
  PROVE  /\ session.state = "bound" /\ session.agent \in Agents
         /\ CapturedGeneration = session.generation
         /\ owed[p] = content[p]
         /\ \A a \in Agents : Owns(a) <=> a = session.agent
         /\ \A h \in hints : h.files[p] = owed[p] => p \in Named(h.files)
<1>1. session.state = "bound"
  BY DEF StateInv, SessionInv, NoFiles
<1>2. session.agent \in Agents
  BY <1>1 DEF StateInv, SessionInv, TypeInv, TypeOK, AgentIds
<1>3. CapturedGeneration = session.generation
  BY <1>1 DEF CapturedGeneration
<1>4. owed[p] = content[p]
  BY DEF StateInv, OwedInv
<1> QED
  BY <1>1, <1>2, <1>3, <1>4 DEF Owns, Named

\* While bytes are owed, the session stays as it is.
LEMMA SameSession ==
  ASSUME StateInv, [Next]_vars, NEW p \in Paths, owed[p] # NoVersion, owed'[p] = owed[p]
  PROVE  session' = session
<1>1. session.state = "bound" /\ session.agent \in Agents
  BY OwedFacts
<1>2. session \in Sessions
  BY DEF StateInv, TypeInv, TypeOK, Sessions
<1>3. ASSUME NEW a \in Agents, Lease(a)
      PROVE  session' = session
  BY <1>1, <1>2, <1>3 DEF Lease, Sessions
<1>4. ~ReleaseSession
  BY DEF ReleaseSession, NoFiles
<1>5. CASE MainStep
  BY <1>5 DEF MainStep, TakeHints, TakeNothing, TakeBatch, SubmitDuplicate, SubmitFollowUp,
     UnlinkHints
<1>6. CASE WorkerStep
  BY <1>6 DEF WorkerStep, StartReview, ReadFiles, SkipReview, PublishReview, LinkBatch,
     EndReview, RetireHints, FinishReview
<1>7. CASE Environment
  BY <1>4, <1>7 DEF Environment, ForeignEdit, ExpireRequests, Tick
<1>8. CASE \E a \in Agents : Hook(a)
  <2>1. PICK a \in Agents : Hook(a)
    BY <1>8
  <2>2. UNCHANGED session \/ Lease(a)
    BY <2>1 DEF Hook, AgentEdit, PublishHint, StartStop, Collect, ClaimNothing, ScanMarkers,
       ScanHints, PollAgain, GraceEnds
  <2> QED
    BY <1>3, <2>2
<1>9. CASE UNCHANGED vars
  BY <1>9 DEF vars
<1> QED
  BY <1>5, <1>6, <1>7, <1>8, <1>9 DEF Next

\* A step that leaves hints, the main thread and the scheduler alone.
LEMMA StaysTracked ==
  ASSUME NEW p \in Paths, Tracked(p), owed'[p] = owed[p], UNCHANGED session,
         UNCHANGED <<hints, main, active, followUp, worker>>
  PROVE  Tracked(p)'
<1>1. Hinted(p) => Hinted(p)'
  BY DEF Hinted, Says, Handled
<1> QED
  BY <1>1 DEF Tracked, Reviewing, FollowUpMarked

\* A hint stays one for the path if it is not unlinked.
LEMMA StaysHinted ==
  ASSUME NEW p \in Paths, NEW h \in hints, Says(h, p), owed'[p] = owed[p],
         UNCHANGED session, hints' \subseteq hints, h \in hints', Handled(h, p)'
  PROVE  Hinted(p)'
  BY DEF Hinted, Says

\* A group with such a hint has the path as one of its current ones.
LEMMA HintIsActive ==
  ASSUME StateInv, NEW p \in Paths, owed[p] # NoVersion, NEW h \in hints, Says(h, p),
         NEW group, group \subseteq ValidHints, h \in group
  PROVE  p \in CurrentPaths(group) /\ h \in ActiveMembers(group)
<1>o. /\ owed[p] = content[p] /\ p \in Named(h.files)
      /\ \A a \in Agents : Owns(a) <=> a = session.agent
  BY OwedFacts DEF Says
<1>t. TypeOK /\ group \subseteq hints /\ \A g \in hints : g.agent \in Agents /\ g.name \in Nat
  BY HintTypes DEF StateInv, TypeInv, ValidHints
<1> DEFINE naming == {g \in group : p \in Named(g.files)}
<1>1. naming \subseteq hints /\ h \in naming
  BY <1>o, <1>t
<1>2. /\ Newest(naming) \in naming /\ h.name <= Newest(naming).name
  BY <1>t, <1>1, EndsOfGroup
<1>3. Newest(naming).files[p] = content[p]
  <2>1. /\ Newest(naming) \in hints /\ p \in Named(Newest(naming).files)
        /\ Newest(naming).agent = session.agent
    BY <1>o, <1>t, <1>2 DEF ValidHints
  <2>2. CASE Newest(naming).name = h.name
    BY <1>o, <1>t, <2>1, <2>2 DEF TypeOK, Says
  <2>3. CASE h.name < Newest(naming).name
    BY <1>o, <2>1, <2>3 DEF Says
  <2> QED
    BY <1>t, <1>2, <2>1, <2>2, <2>3
<1>4. p \in PathsOf(group)
  BY <1>o DEF PathsOf
<1>5. p \in CurrentPaths(group)
  BY <1>3, <1>4 DEF CurrentPaths, LatestVersion
<1> QED
  BY <1>o, <1>5 DEF ActiveMembers


\* What the main loop does to a path that is owed before and after.
LEMMA MainKeepsTracked ==
  ASSUME OneOwner, StateInv, MainStep, [Next]_vars, NEW p \in Paths, owed[p] # NoVersion,
         Tracked(p)
  PROVE  Tracked(p)'
<1>o. /\ session.state = "bound" /\ session.agent \in Agents
      /\ CapturedGeneration = session.generation /\ owed[p] = content[p]
      /\ \A a \in Agents : Owns(a) <=> a = session.agent
      /\ NoAgent \notin Agents /\ ~Owns(NoAgent)
  BY OwedFacts, NullsAssumption DEF Owns
<1>s. owed' = owed /\ UNCHANGED <<session, content>>
  BY DEF MainStep, TakeHints, TakeNothing, TakeBatch, SubmitDuplicate, SubmitFollowUp,
         UnlinkHints, history
<1>t. /\ TypeOK /\ main \in Mains /\ active \in Reviews /\ followUp \in Reviews
      /\ MainInv
      /\ InGroups(HintGroups, MaxHints) /\ Len(HintGroups) \in Nat
      /\ \A h \in hints : h.name \in 1 .. MaxHints
      /\ \A i \in 1 .. Len(HintGroups) : HintGroups[i] \subseteq ValidHints
  <2>1. TypeOK
    BY DEF StateInv, TypeInv
  <2>2. InGroups(HintGroups, MaxHints)
    BY <2>1, GroupsOfHints
  <2> QED
    BY <2>1, <2>2, HintTypes DEF StateInv, TypeOK, Mains, InGroups
<1>e. \A a \in Agents : Engaged(a) => a = session.agent
  BY <1>o, EngagedOwns DEF StateInv
<1>f. /\ main.agent \in {session.agent, NoAgent} /\ active.agent \in {session.agent, NoAgent}
      /\ active.marker \in {session.agent, NoAgent}
      /\ followUp.agent \in {session.agent, NoAgent}
      /\ followUp.marker \in {session.agent, NoAgent}
  BY <1>t, <1>e DEF Engaged, Mains, Reviews, AgentIds
<1>1. CASE TakeHints \/ TakeNothing
  <2>0. UNCHANGED <<active, followUp, worker>> /\ main.names = {}
    BY <1>t, <1>1 DEF TakeHints, TakeNothing, scheduler, MainInv, Polling
  <2>1. CASE ~Hinted(p)
    BY <1>s, <2>0, <2>1 DEF Tracked, Reviewing, FollowUpMarked
  <2>2. CASE Hinted(p)
    <3>1. PICK h \in hints : Says(h, p)
      BY <2>2 DEF Hinted
    <3>2. h \in ValidHints
      BY <1>o, <3>1 DEF Says, ValidHints
    <3>3. PICK i \in 1 .. Len(HintGroups) : h \in HintGroups[i]
      BY <1>t, <3>2 DEF InGroups
    <3>4. p \in CurrentPaths(HintGroups[i]) /\ h \in ActiveMembers(HintGroups[i])
      BY <1>t, <3>1, <3>3, HintIsActive
    <3>5. i \in Live(HintGroups)
      BY <1>t, <3>4 DEF Live, InGroups
    <3>6. ASSUME NEW n \in 0 .. Len(HintGroups)
          PROVE  h \in Purged(HintGroups, n)
      <4>1. ASSUME NEW j \in 1 .. n, h \in HintGroups[j]
            PROVE  h \in ActiveMembers(HintGroups[j])
        <5>1. j \in 1 .. Len(HintGroups)
          BY <1>t
        <5> QED
          BY <1>t, <3>1, <4>1, <5>1, HintIsActive
      <4> QED
        BY <1>t, <3>2, <4>1, PurgedFacts
    <3> DEFINE first == FirstLive(HintGroups)
               group == HintGroups[first]
    <3>7. /\ first \in 1 .. Len(HintGroups) /\ first \in 0 .. Len(HintGroups)
          /\ group \subseteq ValidHints /\ ActiveMembers(group) \subseteq group
          /\ \A j \in 1 .. Len(HintGroups) : j < first => CurrentPaths(HintGroups[j]) = {}
      BY <1>t, <3>5, FirstLiveFacts, FirstGroup
    <3>8. hints' = Purged(HintGroups, first)
      BY <1>1, <3>5 DEF TakeHints, TakeNothing
    <3>9. h \in hints' /\ hints' \subseteq hints
      BY <3>6, <3>7, <3>8 DEF Purged, ValidHints
    <3>10. Handled(h, p)'
      <4>1. CASE TakeNothing
        BY <2>0, <4>1 DEF TakeNothing, Handled
      <4>2. CASE TakeHints
        <5>1. main' = [pc |-> "submit", agent |-> Oldest(group).agent,
                       names |-> Names(ActiveMembers(group)), paths |-> CurrentPaths(group)]
          BY <4>2 DEF TakeHints
        <5> HIDE DEF first
        <5>2. ~(i < first)
          BY <3>4, <3>7
        <5>3. CASE i = first
          BY <3>4, <5>1, <5>3 DEF Handled
        <5>4. CASE first < i
          <6>1. \A g \in group : g.name < h.name
            BY <1>t, <3>3, <3>7, <5>4 DEF InGroups
          <6>2. h.name \notin Names(ActiveMembers(group))
            BY <1>t, <3>7, <6>1 DEF Names, ValidHints
          <6> QED
            BY <5>1, <6>2 DEF Handled
        <5> QED
          BY <1>t, <3>7, <5>2, <5>3, <5>4
      <4> QED
        BY <1>1, <4>1, <4>2
    <3>11. Hinted(p)'
      BY <1>s, <3>1, <3>9, <3>10, StaysHinted
    <3> QED
      BY <3>11 DEF Tracked
  <2> QED
    BY <2>1, <2>2
<1>2. CASE \E S \in (SUBSET dirty) \ {{}} : TakeBatch(S)
  <2>1. main'.names = {} /\ UNCHANGED <<hints, active, followUp, worker>>
    <3>1. PICK S \in (SUBSET dirty) \ {{}} : TakeBatch(S)
      BY <1>2
    <3> QED
      BY <3>1 DEF TakeBatch, Polling, spool, scheduler
  <2>2. Hinted(p) => Hinted(p)'
    BY <1>s, <2>1 DEF Hinted, Says, Handled
  <2> QED
    BY <1>s, <2>1, <2>2 DEF Tracked, Reviewing, FollowUpMarked
<1>m. \A agent : AfterMarker(agent) =>
        main'.names \in {main.names, {}}
  BY <1>t DEF AfterMarker, Mains, Polling
<1>3. CASE SubmitDuplicate
  <2>1. /\ UNCHANGED <<hints, followUp, worker>> /\ main'.names \in {main.names, {}}
        /\ main.pc = "submit" /\ Incoming = {}
        /\ active'.paths = active.paths /\ active'.digest = active.digest
        /\ active'.marker = IF main.agent = NoAgent \/ active.marker # NoAgent
                            THEN active.marker ELSE Begun(active, main.agent)
    BY <1>t, <1>3, <1>m DEF SubmitDuplicate, spool, Reviews
  <2>2. active.marker = session.agent => active'.marker = session.agent
    BY <1>o, <2>1
  <2>3. CASE ~Hinted(p)
    BY <1>s, <2>1, <2>2, <2>3 DEF Tracked, Reviewing, FollowUpMarked
  <2>4. CASE Hinted(p)
    <3>1. PICK h \in hints : Says(h, p) /\ Handled(h, p)
      BY <2>4 DEF Hinted
    <3>2. CASE h.name \notin main.names
      <4>1. Hinted(p)'
        BY <1>s, <2>1, <3>1, <3>2, StaysHinted DEF Handled
      <4> QED
        BY <4>1 DEF Tracked
    <3>3. CASE h.name \in main.names
      <4>1. p \in main.paths /\ main.agent = session.agent
        BY <1>t, <1>f, <1>o, <3>1, <3>3 DEF Handled, MainInv
      <4>2. p \in UnchangedOverlap
        BY <2>1, <4>1 DEF Incoming
      <4>3. Reviewing(p)
        BY <1>o, <4>2 DEF UnchangedOverlap, Reviewing
      <4>4. active'.marker = session.agent
        BY <1>o, <1>f, <2>1, <4>1 DEF Begun
      <4> QED
        BY <1>s, <2>1, <4>3, <4>4 DEF Tracked, Reviewing
    <3> QED
      BY <3>2, <3>3
  <2> QED
    BY <2>3, <2>4
<1>4. CASE SubmitFollowUp
  <2>1. IncomingAgent \in {session.agent, NoAgent}
    BY <1>f DEF IncomingAgent
  <2>2. followUp.paths = {} => followUp = NoReview
    BY DEF StateInv, OwedInv
  <2>3. /\ DOMAIN Base = {"paths", "digest", "agent", "generation", "marker", "cancelled"}
        /\ Base.marker \in {session.agent, NoAgent}
    BY <1>t, <1>f DEF Base, NoReview, Reviews
  <2>4. FollowUpMarked =>
          /\ Base.marker = session.agent
          /\ followUp.paths \subseteq Base.paths
    <3> SUFFICES ASSUME FollowUpMarked
                 PROVE  Base = followUp
      BY DEF FollowUpMarked
    <3>1. followUp.paths # {}
      BY <1>o, <2>2 DEF FollowUpMarked, NoReview
    <3>2. ~RouteChanged(followUp, IncomingAgent)
      BY <1>o, <1>f, <2>1 DEF FollowUpMarked, RouteChanged, AgentsDiffer
    <3> QED
      BY <3>1, <3>2 DEF Base
  <2>5. /\ followUp'.paths = Base.paths \union Incoming
        /\ followUp'.generation = session.generation
        /\ followUp'.marker = Begun(Base, IncomingAgent)
    BY <1>o, <1>4, <2>3 DEF SubmitFollowUp
  <2>6. /\ UNCHANGED <<hints, worker>> /\ main'.names \in {main.names, {}}
        /\ main.pc = "submit"
        /\ active'.paths = active.paths /\ active'.digest = active.digest
        /\ active'.marker = active.marker
    BY <1>t, <1>4, <1>m DEF SubmitFollowUp, spool, Reviews
  <2>7. FollowUpMarked => FollowUpMarked'
    BY <1>o, <1>s, <2>4, <2>5 DEF FollowUpMarked, Begun
  <2>8. CASE ~Hinted(p)
    <3>1. p \in followUp.paths /\ FollowUpMarked => p \in followUp'.paths
      BY <2>4, <2>5
    <3> QED
      BY <1>s, <2>6, <2>7, <2>8, <3>1 DEF Tracked, Reviewing
  <2>9. CASE Hinted(p)
    <3>1. PICK h \in hints : Says(h, p) /\ Handled(h, p)
      BY <2>9 DEF Hinted
    <3>2. CASE h.name \notin main.names
      <4>1. Hinted(p)'
        BY <1>s, <2>6, <3>1, <3>2, StaysHinted DEF Handled
      <4> QED
        BY <4>1 DEF Tracked
    <3>3. CASE h.name \in main.names
      <4>1. p \in main.paths /\ main.agent = session.agent
        BY <1>t, <1>f, <1>o, <3>1, <3>3 DEF Handled, MainInv
      <4>2. IncomingAgent = session.agent
        BY <1>o, <4>1 DEF IncomingAgent
      <4>3. followUp'.marker = session.agent
        BY <1>o, <2>3, <2>5, <4>2 DEF Begun
      <4>4. FollowUpMarked'
        BY <1>s, <2>5, <4>3 DEF FollowUpMarked
      <4>5. CASE p \in Incoming
        BY <2>5, <4>4, <4>5 DEF Tracked
      <4>6. CASE p \notin Incoming
        <5>1. p \in UnchangedOverlap
          BY <4>1, <4>6 DEF Incoming
        <5>2. Reviewing(p)
          BY <1>o, <5>1 DEF UnchangedOverlap, Reviewing
        <5> QED
          BY <1>s, <2>6, <4>4, <5>2 DEF Tracked, Reviewing
      <4> QED
        BY <4>5, <4>6
    <3> QED
      BY <3>2, <3>3
  <2> QED
    BY <2>8, <2>9
<1>5. CASE UnlinkHints
  <2>1. /\ main.pc = "unlink" /\ hints' = {h \in hints : h.name \notin main.names}
        /\ main'.names = {} /\ UNCHANGED <<active, followUp, worker>>
    BY <1>5 DEF UnlinkHints, Polling, scheduler
  <2>2. CASE ~Hinted(p)
    BY <1>s, <2>1, <2>2 DEF Tracked, Reviewing, FollowUpMarked
  <2>3. CASE Hinted(p)
    <3>1. PICK h \in hints : Says(h, p) /\ Handled(h, p)
      BY <2>3 DEF Hinted
    <3>2. h \in hints' /\ hints' \subseteq hints /\ Handled(h, p)'
      BY <2>1, <3>1 DEF Handled
    <3>3. Hinted(p)'
      BY <1>s, <3>1, <3>2, StaysHinted
    <3> QED
      BY <3>3 DEF Tracked
  <2> QED
    BY <2>2, <2>3
<1> QED
  BY <1>1, <1>2, <1>3, <1>4, <1>5 DEF MainStep


\* What the worker does to it.
LEMMA WorkerKeepsTracked ==
  ASSUME StateInv, WorkerStep, NEW p \in Paths, owed[p] # NoVersion,
         p \notin excused, Tracked(p), owed'[p] # NoVersion, p \notin excused'
  PROVE  Tracked(p)'
<1>o. /\ owed[p] = content[p] /\ session.agent \in Agents /\ NoAgent \notin Agents
      /\ \A h \in hints : h.files[p] = owed[p] => p \in Named(h.files)
  BY OwedFacts, NullsAssumption
<1>t. /\ active \in Reviews /\ followUp \in Reviews /\ owed \in [Paths -> VersionIds]
      /\ worker = "waiting" => active = NoReview
  BY DEF StateInv, TypeInv, TypeOK, OwedInv
<1>u. UNCHANGED <<session, main, content>>
  BY DEF WorkerStep, StartReview, ReadFiles, SkipReview, PublishReview, LinkBatch, EndReview,
         RetireHints, FinishReview
<1>n. NoReview.digest[p] = NoVersion /\ NoReview.marker = NoAgent /\ NoReview.paths = {}
  BY DEF NoReview, NoFiles
<1>r. Reviewed => active.digest[p] # owed[p] /\ owed'[p] = owed[p]
  BY <1>t DEF Reviewed
<1>h. ASSUME UNCHANGED hints, owed'[p] = owed[p], Hinted(p)
      PROVE  Hinted(p)'
  BY <1>u, <1>h DEF Hinted, Says, Handled
<1>k. ASSUME hints' = Unreviewed, owed'[p] = owed[p], Hinted(p), active.digest[p] # owed[p]
      PROVE  Hinted(p)'
  <2>1. PICK h \in hints : Says(h, p) /\ Handled(h, p)
    BY <1>k DEF Hinted
  <2>2. h \in hints' /\ hints' \subseteq hints
    BY <1>o, <1>k, <2>1 DEF Unreviewed, Says
  <2>3. Handled(h, p)'
    BY <1>u, <2>1 DEF Handled
  <2> QED
    BY <1>k, <1>u, <2>1, <2>2, <2>3, StaysHinted
<1>1. CASE StartReview
  <2>1. /\ active' = [followUp EXCEPT !.digest = ContentOf(followUp.paths)]
        /\ followUp' = NoReview /\ worker = "waiting" /\ UNCHANGED <<hints, owed>>
    BY <1>1 DEF StartReview, spool, history
  <2>2. ~Reviewing(p) /\ worker \notin {"link", "retire"}
    BY <1>t, <1>n, <2>1 DEF Reviewing
  <2>3. CASE p \in followUp.paths /\ FollowUpMarked
    <3>1. /\ active'.paths = followUp.paths /\ active'.marker = session.agent
          /\ active'.digest[p] = content[p]
      BY <1>t, <2>1, <2>3 DEF Reviews, FollowUpMarked, ContentOf
    <3> QED
      BY <1>o, <1>u, <2>1, <2>3, <3>1 DEF Tracked, Reviewing
  <2> QED
    BY <1>h, <2>1, <2>2, <2>3 DEF Tracked
<1>2. CASE ReadFiles
  <2>1. /\ active' = [active EXCEPT !.digest = ContentOf(active.paths)]
        /\ worker = "read" /\ UNCHANGED <<hints, owed, followUp>>
    BY <1>2 DEF ReadFiles, spool, history
  <2>2. Reviewing(p) => Reviewing(p)'
    BY <1>o, <1>t, <2>1 DEF Reviewing, Reviews, ContentOf
  <2>3. active'.marker = active.marker
    BY <1>t, <2>1 DEF Reviews
  <2> QED
    BY <1>h, <1>u, <2>1, <2>2, <2>3 DEF Tracked, FollowUpMarked
<1>3. CASE SkipReview \/ EndReview
  <2>1. UNCHANGED <<hints, owed, active, followUp>> /\ worker \in {"read", "review"}
    BY <1>3 DEF SkipReview, EndReview, spool, history
  <2> QED
    BY <1>h, <1>u, <2>1 DEF Tracked, Reviewing, FollowUpMarked
<1>4. CASE PublishReview
  <2>1. /\ UNCHANGED <<owed, active, followUp>> /\ worker = "review" /\ worker' = "link"
        /\ hints' = Unreviewed
    BY <1>4 DEF PublishReview, history
  <2>2. CASE active.digest[p] = owed[p]
    BY <2>1, <2>2 DEF Tracked
  <2>3. CASE active.digest[p] # owed[p]
    BY <1>k, <1>u, <2>1, <2>3 DEF Tracked, Reviewing, FollowUpMarked
  <2> QED
    BY <2>2, <2>3
<1>5. CASE LinkBatch
  <2>1. UNCHANGED <<hints, owed, active, followUp>> /\ worker' = "retire"
    BY <1>5 DEF LinkBatch, history
  <2> QED
    BY <1>h, <1>u, <2>1 DEF Tracked, Reviewing, FollowUpMarked
<1>6. CASE RetireHints
  <2>1. UNCHANGED <<active, followUp>> /\ hints' = Unreviewed /\ Reviewed
    BY <1>6 DEF RetireHints
  <2> QED
    BY <1>k, <1>r, <1>u, <2>1 DEF Tracked, Reviewing, FollowUpMarked
<1>7. CASE FinishReview
  <2>1. UNCHANGED <<hints, followUp>> /\ worker = "finish" /\ Reviewed
    BY <1>7 DEF FinishReview, ReviewForgotten, spool
  <2> QED
    BY <1>h, <1>r, <1>u, <2>1 DEF Tracked, Reviewing, FollowUpMarked
<1> QED
  BY <1>1, <1>2, <1>3, <1>4, <1>5, <1>6, <1>7 DEF WorkerStep

\* What hooks do to it.
LEMMA HookKeepsTracked ==
  ASSUME OneOwner, StateInv, NEW a \in Agents, Hook(a), Next, NEW p \in Paths,
         owed'[p] # NoVersion, p \notin excused'
  PROVE  Tracked(p)'
<1>t. /\ TypeOK /\ MainInv /\ nextHint \in Nat /\ owed \in [Paths -> VersionIds]
      /\ content \in [Paths -> Versions] /\ NoVersion \notin Versions
      /\ \A h \in hints : h.name \in Nat /\ h.name < nextHint
  BY HintTypes, NullsAssumption, BoundsAssumption DEF StateInv, TypeInv, TypeOK
<1>k. owed[p] # NoVersion /\ p \notin excused => Tracked(p)
  BY DEF StateInv, VisibleInv
<1>1. CASE \E S \in (SUBSET Paths) \ {{}} : AgentEdit(a, S)
  <2>1. PICK S \in (SUBSET Paths) \ {{}} : AgentEdit(a, S)
    BY <1>1
  <2>2. /\ owed'[p] = owed[p] /\ p \notin excused
        /\ UNCHANGED <<hints, main, active, followUp, worker>>
    BY <2>1 DEF AgentEdit, Change, spool, scheduler
  <2>3. session' = session
    BY <2>2, SameSession
  <2> QED
    BY <1>k, <2>2, <2>3, StaysTracked
<1>2. CASE PublishHint(a)
  <2>1. UNCHANGED <<content, session, main, active, followUp, worker>>
    BY <1>2 DEF PublishHint, scheduler
  <2>2. CASE ~Owns(a)
    <3>1. UNCHANGED <<hints, owed, excused>>
      BY <1>2, <2>2 DEF PublishHint, history
    <3> QED
      BY <1>k, <2>1, <3>1, StaysTracked
  <2>3. CASE Owns(a)
    <3>1. PICK turn \in Turns :
            hints' = hints \union {[name |-> nextHint, agent |-> a, turn |-> turn,
                                    age |-> 0, files |-> hooks[a].files]}
      BY <1>2, <2>3 DEF PublishHint
    <3>2. PICK hint \in hints' :
            /\ hints' = hints \union {hint} /\ hint.name = nextHint /\ hint.agent = a
            /\ hint.files = hooks[a].files
      <4> DEFINE new == [name |-> nextHint, agent |-> a, turn |-> turn, age |-> 0,
                         files |-> hooks[a].files]
      <4>1. /\ new \in hints' /\ hints' = hints \union {new} /\ new.name = nextHint
            /\ new.agent = a /\ new.files = hooks[a].files
        BY <3>1
      <4> QED
        BY <4>1
    <3>3. /\ owed'[p] = IF p \in Named(hooks[a].files) /\ hooks[a].files[p] = content[p]
                        THEN content[p] ELSE owed[p]
          /\ excused' = excused \ {q \in Paths : owed'[q] # owed[q]}
      BY <1>2, <2>3 DEF PublishHint
    <3>4. session.agent = a
      BY <2>3 DEF Owns
    <3>5. CASE p \in Named(hooks[a].files) /\ hooks[a].files[p] = content[p]
      <4>1. Says(hint, p)'
        <5>1. \A g \in hints' : ~(hint.name < g.name)
          BY <1>t, <3>2
        <5>2. hint \in hints' /\ hint.agent = session'.agent
          BY <2>1, <3>2, <3>4
        <5>3. hint.files[p] = owed'[p]
          BY <3>2, <3>3, <3>5
        <5> QED
          BY <5>1, <5>2, <5>3 DEF Says
      <4>2. hint.name \notin main.names
        BY <1>t, <3>2 DEF MainInv
      <4>3. hint \in hints' /\ Handled(hint, p)'
        BY <2>1, <3>2, <4>2 DEF Handled
      <4>4. Hinted(p)'
        BY <4>1, <4>3 DEF Hinted
      <4> QED
        BY <4>4 DEF Tracked
    <3>6. CASE ~(p \in Named(hooks[a].files) /\ hooks[a].files[p] = content[p])
      <4>1. owed'[p] = owed[p] /\ owed[p] # NoVersion /\ p \notin excused
        BY <3>3, <3>6
      <4>2. p \notin Named(hooks[a].files)
        BY <1>2, <2>3, <4>1 DEF PublishHint, StateInv, OwedInv
      <4>3. ASSUME NEW h \in hints, Says(h, p), Handled(h, p)
            PROVE  Hinted(p)'
        <5>1. Says(h, p)'
          BY <2>1, <3>2, <4>1, <4>2, <4>3 DEF Says
        <5> QED
          BY <2>1, <3>2, <4>3, <5>1 DEF Hinted, Handled
      <4> QED
        BY <1>k, <2>1, <4>1, <4>3 DEF Tracked, Hinted, Reviewing, FollowUpMarked
    <3> QED
      BY <3>5, <3>6
  <2> QED
    BY <2>2, <2>3
<1>3. CASE StartStop(a) \/ Collect(a) \/ ClaimNothing(a) \/ ScanMarkers(a) \/ PollAgain(a)
           \/ GraceEnds(a)
  <2>1. UNCHANGED <<owed, excused, hints, main, active, followUp, worker>>
    BY <1>3 DEF StartStop, Collect, ClaimNothing, ScanMarkers, PollAgain, GraceEnds, spool,
       scheduler, history
  <2>2. session' = session
    BY <2>1, SameSession
  <2> QED
    BY <1>k, <2>1, <2>2, StaysTracked
<1>4. CASE ScanHints(a)
  <2>1. UNCHANGED <<owed, excused, session, content, main, active, followUp, worker>>
    BY <1>4 DEF ScanHints, scheduler, history
  <2>2. /\ owed[p] = content[p] /\ session.state = "bound"
        /\ \A h \in hints : h.files[p] = owed[p] => p \in Named(h.files)
    BY <2>1, OwedFacts
  <2>3. Owns(a) /\ session.agent = a
    <3>1. Engaged(a)
      BY <1>4 DEF ScanHints, Engaged
    <3> QED
      BY <2>2, <3>1, EngagedOwns DEF StateInv, Owns
  <2>4. ASSUME NEW h \in hints, Says(h, p), Handled(h, p)
        PROVE  Hinted(p)'
    <3>1. Awaited(a, h)
      BY <2>2, <2>3, <2>4 DEF Awaited, Says
    <3>2. h \in hints' /\ hints' \subseteq hints
      BY <1>4, <3>1 DEF ScanHints
    <3>3. Handled(h, p)'
      BY <2>1, <2>4 DEF Handled
    <3> QED
      BY <2>1, <2>4, <3>2, <3>3, StaysHinted
  <2> QED
    BY <1>k, <2>1, <2>4 DEF Tracked, Hinted, Reviewing, FollowUpMarked
<1> QED
  BY <1>1, <1>2, <1>3, <1>4 DEF Hook

\* What others and time do to it.
LEMMA EnvironmentKeepsTracked ==
  ASSUME StateInv, Environment, NEW p \in Paths, owed'[p] # NoVersion, p \notin excused'
  PROVE  Tracked(p)'
<1>k. owed[p] # NoVersion /\ p \notin excused => Tracked(p)
  BY DEF StateInv, VisibleInv
<1>1. CASE \E q \in Paths : ForeignEdit(q)
  <2>1. /\ owed'[p] = owed[p] /\ p \notin excused
        /\ UNCHANGED <<session, hints, main, active, followUp, worker>>
    BY <1>1 DEF ForeignEdit, Change, spool, scheduler
  <2> QED
    BY <1>k, <2>1, StaysTracked
<1>2. CASE ReleaseSession
  BY <1>2 DEF ReleaseSession, NoFiles
<1>3. CASE \E a \in Agents : ExpireRequests(a)
  <2>1. UNCHANGED <<owed, excused, session, hints, main, active, followUp, worker>>
    BY <1>3 DEF ExpireRequests, scheduler, history
  <2> QED
    BY <1>k, <2>1, StaysTracked
<1>4. CASE Tick
  <2> DEFINE aged(h) == [h EXCEPT !.age = IF @ > TurnMaxAge THEN @ ELSE @ + 1]
  <2>1. /\ hints' = {aged(h) : h \in hints}
        /\ UNCHANGED <<owed, excused, session, main, active, followUp, worker>>
    BY <1>4 DEF Tick, scheduler, history
  <2>2. ASSUME NEW h \in hints
        PROVE  aged(h).name = h.name /\ aged(h).agent = h.agent /\ aged(h).files = h.files
    BY <2>2 DEF StateInv, TypeInv, TypeOK, Hints
  <2> HIDE DEF aged
  <2>3. ASSUME NEW h \in hints, Says(h, p), Handled(h, p)
        PROVE  Hinted(p)'
    <3>1. Says(aged(h), p)'
      BY <2>1, <2>2, <2>3 DEF Says
    <3>2. Handled(aged(h), p)'
      BY <2>1, <2>2, <2>3 DEF Handled
    <3> QED
      BY <2>1, <3>1, <3>2 DEF Hinted
  <2> QED
    BY <1>k, <2>1, <2>3 DEF Tracked, Hinted, Reviewing, FollowUpMarked
<1> QED
  BY <1>1, <1>2, <1>3, <1>4 DEF Environment


\* Hinted bytes that await a review stay where a Stop hook can see them.
LEMMA NextVisible ==
  ASSUME OneOwner, StateInv, [Next]_vars
  PROVE  VisibleInv'
<1> SUFFICES ASSUME NEW p \in Paths, owed'[p] # NoVersion, p \notin excused'
             PROVE  Tracked(p)'
  BY DEF VisibleInv
<1>k. owed[p] # NoVersion /\ p \notin excused => Tracked(p)
  BY DEF StateInv, VisibleInv
<1>t. owed \in [Paths -> VersionIds] /\ excused \subseteq Paths
  BY DEF StateInv, TypeInv, TypeOK
<1>1. CASE \E a \in Agents : Hook(a)
  BY <1>1, HookKeepsTracked DEF Next
<1>2. CASE MainStep
  <2>1. UNCHANGED <<owed, excused>>
    <3>1. CASE TakeHints \/ TakeNothing
      BY <3>1 DEF TakeHints, TakeNothing, history
    <3>2. CASE \E S \in (SUBSET dirty) \ {{}} : TakeBatch(S)
      BY <3>2 DEF TakeBatch, history
    <3>3. CASE SubmitDuplicate \/ SubmitFollowUp \/ UnlinkHints
      BY <3>3 DEF SubmitDuplicate, SubmitFollowUp, UnlinkHints, history
    <3> QED
      BY <1>2, <3>1, <3>2, <3>3 DEF MainStep
  <2> QED
    BY <1>2, <1>k, <2>1, MainKeepsTracked
<1>3. CASE WorkerStep
  <2>1. UNCHANGED <<owed, excused>> \/ Reviewed
    BY <1>3 DEF WorkerStep, StartReview, ReadFiles, SkipReview, PublishReview, LinkBatch,
       EndReview, RetireHints, FinishReview, history
  <2>2. owed[p] # NoVersion /\ p \notin excused
    BY <1>t, <2>1 DEF Reviewed
  <2> QED
    BY <1>3, <1>k, <2>2, WorkerKeepsTracked
<1>4. CASE Environment
  BY <1>4, EnvironmentKeepsTracked
<1>5. CASE UNCHANGED vars
  <2>1. UNCHANGED <<owed, excused, session, hints, main, active, followUp, worker>>
    BY <1>5 DEF vars, spool, scheduler, history
  <2> QED
    BY <1>k, <2>1, StaysTracked
<1> QED
  BY <1>1, <1>2, <1>3, <1>4, <1>5 DEF Next

\* The first state.
LEMMA InitState == Init => StateInv
<1> SUFFICES ASSUME Init
             PROVE  StateInv
  OBVIOUS
<1>1. TypeInv
  BY InitTypes
<1>2. MainInv
  BY DEF Init, MainInv, Polling
<1>3. SessionInv
  BY DEF Init, SessionInv
<1>4. OwedInv
  BY DEF Init, OwedInv, NoFiles, IdleHook
<1>5. EngagedInv
  BY NullsAssumption DEF Init, EngagedInv, Engaged, IdleHook, Polling, NoReview
<1>6. VisibleInv
  BY DEF Init, VisibleInv, NoFiles
<1> QED
  BY <1>1, <1>2, <1>3, <1>4, <1>5, <1>6 DEF StateInv

\* While the session has one owner, every hinted edit that awaits its review is visible
\* in the spool, as a hint, a marker or the review itself.
THEOREM VisibleCorrect == ASSUME OneOwner PROVE Spec => []HintedEditIsVisible
<1>1. StateInv /\ [Next]_vars => StateInv'
  BY NextTypes, NextMain, NextSession, NextOwed, NextEngaged, NextVisible DEF StateInv
<1>2. StateInv => HintedEditIsVisible
  <2> SUFFICES ASSUME StateInv, NEW p \in Paths, owed[p] # NoVersion, p \notin excused
               PROVE  Visible(p)
    BY DEF HintedEditIsVisible
  <2>1. Tracked(p)
    BY DEF StateInv, VisibleInv
  <2> QED
    BY <2>1 DEF Tracked, Visible, Reviewing, FollowUpMarked, Hinted, Says
<1> QED
  BY InitState, <1>1, <1>2, PTL DEF Spec

================================================================================
