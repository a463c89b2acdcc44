--------------------------- MODULE MqttCodecProofs ---------------------------
(* The codec's calls are functions, so an invariant of CodecSpec says what     *)
(* they return for every argument.  Both are recursive definitions: for each   *)
(* a function that solves its equation is written down, and what CHOOSE picks  *)
(* is unfolded from the equation.  The loop over a filter, which has no bound,  *)
(* needs induction: Induction states it for a set of numbers, and is proved    *)
(* from the pigeonhole principle for finite sets.                              *)
EXTENDS MqttCodec, FiniteSetTheorems, SequenceTheorems, TLAPS

\* A set that holds 0, and with a number the next, holds all.  (From one it lacks,
\* take the numbers up to it that it lacks: x |-> x - 1 maps them into fewer.)
LEMMA Induction ==
  ASSUME NEW S, 0 \in S, \A n \in Nat : n \in S => n + 1 \in S
  PROVE  Nat \subseteq S
<1> SUFFICES ASSUME NEW N \in Nat, N \notin S PROVE FALSE
  OBVIOUS
<1> DEFINE W == {x \in 0..N : x \notin S}
           f == [x \in W |-> x - 1]
<1>1. IsFiniteSet(W) /\ N \in W
  <2>1. IsFiniteSet(0..N)
    BY FS_Interval
  <2>2. W \in SUBSET (0..N) /\ N \in W
    OBVIOUS
  <2> HIDE DEF W
  <2> QED BY <2>1, <2>2, FS_Subset
<1>2. \A x \in W : x - 1 \in W \ {N}
  <2>1. ASSUME NEW x \in W PROVE x - 1 \in W \ {N}
    <3>1. x \in Nat /\ x # 0 /\ x <= N
      OBVIOUS
    <3>2. x - 1 \in S => x \in S
      BY <3>1
    <3> QED BY <3>1, <3>2
  <2> QED BY <2>1
<1>3. f \in [W -> W \ {N}]
  BY <1>2
<1>4. IsFiniteSet(W \ {N}) /\ Cardinality(W \ {N}) < Cardinality(W)
  <2> HIDE DEF W
  <2>1. Cardinality(W) \in Nat
    BY <1>1, FS_CardinalityType
  <2>2. IsFiniteSet(W \ {N}) /\ Cardinality(W \ {N}) = Cardinality(W) - 1
    BY <1>1, FS_RemoveElement
  <2> QED BY <2>1, <2>2
<1>5. \A x, y \in W : f[x] = f[y] => x = y
  OBVIOUS
<1> HIDE DEF W, f
<1>6. \E x, y \in W : x # y /\ f[x] = f[y]
  BY <1>1, <1>3, <1>4, FS_PigeonHole
<1> QED BY <1>5, <1>6

-----------------------------------------------------------------------------
\* The loop over a filter of n words and a "#": from word i on it finds what the
\* words from i on say, by induction from the last one down.
LEMMA MatchingLemma ==
  ASSUME NEW n \in Nat, NEW f, NEW t,
         Len(f) = n + 1, f[n + 1] = "#", \A i \in 1..n : f[i] # "#"
  PROVE  matchTopicSubscribe(f, t) = Matches(f, t)
<1> DEFINE From(h, i) == \/ i = Len(f) /\ i = Len(t)
                         \/ f[i] = "#"
                         \/ f[i] \in {"+", t[i]} /\ h[i + 1]
           from == CHOOSE h : h = [i \in 1..Len(f) |-> From(h, i)]
           g == [i \in 1..Len(f) |-> \A j \in i..n : f[j] \in {"+", t[j]}]
<1>1. matchTopicSubscribe(f, t) = from[1]
  BY DEF matchTopicSubscribe
<1>2. g = [i \in 1..Len(f) |-> From(g, i)]
  <2>1. ASSUME NEW i \in 1..Len(f) PROVE g[i] = From(g, i)
    <3>1. CASE i = n + 1
      <4>1. g[i] = TRUE
        BY <3>1
      <4>2. From(g, i) = TRUE
        BY <3>1
      <4> QED BY <4>1, <4>2
    <3>2. CASE i \in 1..n
      <4>1. i + 1 \in 1..Len(f) /\ i # Len(f) /\ f[i] # "#"
        BY <3>2
      <4>2. (\A j \in i..n : f[j] \in {"+", t[j]})
             = (f[i] \in {"+", t[i]} /\ \A j \in (i+1)..n : f[j] \in {"+", t[j]})
        <5>1. i..n = {i} \cup ((i+1)..n)
          BY <3>2
        <5> QED BY <5>1, Zenon
      <4> QED BY <4>1, <4>2
    <3> QED BY <3>1, <3>2
  <2>2. \A i \in 1..Len(f) : g[i] = From(g, i)
    BY <2>1
  <2>3. DOMAIN g = 1..Len(f) /\ g = [i \in DOMAIN g |-> g[i]]
    OBVIOUS
  <2> HIDE DEF g, From
  <2> QED BY <2>2, <2>3
<1>3. from = [i \in 1..Len(f) |-> From(from, i)]
  <2> HIDE DEF g, From
  <2> QED BY <1>2
<1> HIDE DEF from
<1> HIDE DEF g
<1> DEFINE Same(i) == from[i] = g[i]
           K == {k \in Nat : k <= n => Same(n + 1 - k)}
<1>4. \A i \in 1..Len(f) : from[i] = From(from, i) /\ g[i] = From(g, i)
  <2> HIDE DEF From
  <2> QED BY <1>2, <1>3
<1>5. Same(n + 1)
  <2>1. n + 1 \in 1..Len(f)
    OBVIOUS
  <2>2. From(from, n + 1) = From(g, n + 1)
    OBVIOUS
  <2> HIDE DEF From
  <2> QED BY <1>4, <2>1, <2>2
<1>6. ASSUME NEW i \in 1..n, Same(i + 1) PROVE Same(i)
  <2>1. i \in 1..Len(f)
    OBVIOUS
  <2>2. From(from, i) = From(g, i)
    BY <1>6, Zenon
  <2> HIDE DEF From
  <2> QED BY <1>4, <2>1, <2>2
<1> HIDE DEF Same
<1>7. 0 \in K
  BY <1>5
<1>8. ASSUME NEW k \in Nat, k \in K PROVE k + 1 \in K
  <2>1. CASE k + 1 <= n
    <3> DEFINE i == n + 1 - (k + 1)
    <3>1. i \in 1..n /\ i + 1 = n + 1 - k
      BY <2>1
    <3>2. Same(i + 1)
      BY <1>8, <2>1, <3>1
    <3>3. Same(i)
      <4> HIDE DEF i, K
      <4> QED BY <1>6, <3>1, <3>2
    <3> QED BY <3>3
  <2>2. CASE ~(k + 1 <= n)
    BY <2>2
  <2> QED BY <2>1, <2>2
<1>9. n \in K
  <2> HIDE DEF K
  <2> QED BY <1>7, <1>8, Induction
<1>10. from[1] = g[1]
  <2>1. Same(1)
    BY <1>9
  <2> QED BY <2>1 DEF Same
<1>11. g[1] = Matches(f, t)
  <2>1. 1 \in 1..Len(f) /\ Len(f) - 1 = n
    OBVIOUS
  <2>2. g[1] = \A j \in 1..n : f[j] \in {"+", t[j]}
    BY <2>1, Zenon DEF g
  <2>3. Matches(f, t) = \A j \in 1..n : f[j] \in {"+", t[j]}
    BY <2>1, Zenon DEF Matches
  <2> QED BY <2>2, <2>3
<1> QED BY <1>1, <1>10, <1>11

\* A filter ends in "#" and has none before.
LEMMA FilterForm ==
  ASSUME NEW f \in Filters
  PROVE  \E n \in Nat : /\ Len(f) = n + 1 /\ f[n + 1] = "#"
                        /\ \A i \in 1..n : f[i] # "#"
<1>1. PICK n \in 0..FilterWords : \E e \in [1..n -> Words \cup {"+"}] : f = Append(e, "#")
  BY DEF Filters
<1> PICK e \in [1..n -> Words \cup {"+"}] : f = Append(e, "#")
  BY <1>1
<1>2. n \in Nat
  BY WordCountsAssumption
<1>3. e \in Seq(Words \cup {"+", "#"}) /\ Len(e) = n
  <2>1. e \in [1..n -> Words \cup {"+", "#"}]
    OBVIOUS
  <2> QED BY <2>1, <1>2, SeqDef, LenProperties
<1>4. \A i \in 1..n : e[i] # "#"
  BY <1>1, WordsAssumption
<1> QED
  BY <1>1, <1>2, <1>3, <1>4, AppendProperties

\* The filters of the calls have that form.
LEMMA MatchesLemma ==
  ASSUME NEW f \in Filters, NEW t
  PROVE  matchTopicSubscribe(f, t) = Matches(f, t)
<1>1. PICK n \in Nat : Len(f) = n + 1 /\ f[n + 1] = "#" /\ \A i \in 1..n : f[i] # "#"
  BY FilterForm
<1> QED BY <1>1, MatchingLemma

-----------------------------------------------------------------------------
\* The words of the tables' filters and of the messages' topics.
AllWords ==
  {"$iothub", "methods", "POST", "twin", "PATCH", "properties", "desired", "res",
   "$dps", "registrations", "#", "name", "?$rid=1", "?$version=1", "200", "204",
   "?$rid=1&$version=1", "202", "?$rid=1&retry-after=3"}

\* A filter of the tables matches the topics that begin with its words.
LEMMA BelowMatches ==
  ASSUME NEW b \in Seq(AllWords), NEW t, \A i \in 1..Len(b) : b[i] \notin {"#", "+"}
  PROVE  /\ Below(b) # NoTopic
         /\ matchTopicSubscribe(Below(b), t) <=> \A i \in 1..Len(b) : b[i] = t[i]
<1> DEFINE n == Len(b)
           f == Below(b)
<1>1. /\ n \in Nat /\ Len(f) = n + 1 /\ f[n + 1] = "#" /\ f # <<>>
      /\ \A i \in 1..n : f[i] = b[i]
  BY AppendProperties, LenProperties DEF Below, AllWords
<1> HIDE DEF f
<1>2. matchTopicSubscribe(f, t) = Matches(f, t)
  BY <1>1, MatchingLemma
<1>3. Matches(f, t) <=> \A i \in 1..n : b[i] = t[i]
  <2>1. Len(f) - 1 = n
    BY <1>1
  <2> QED BY <1>1, <2>1 DEF Matches
<1> QED BY <1>1, <1>2, <1>3 DEF NoTopic, f

\* The words the tables' filters begin with.
LEMMA FilterWordsLemma ==
  /\ Methods \in Seq(AllWords) /\ Len(Methods) = 3
  /\ Methods[1] = "$iothub" /\ Methods[2] = "methods" /\ Methods[3] = "POST"
  /\ Patch \in Seq(AllWords) /\ Len(Patch) = 5
  /\ Patch[1] = "$iothub" /\ Patch[2] = "twin" /\ Patch[3] = "PATCH"
  /\ Patch[4] = "properties" /\ Patch[5] = "desired"
  /\ TwinGet \in Seq(AllWords) /\ Len(TwinGet) = 3
  /\ TwinGet[1] = "$iothub" /\ TwinGet[2] = "twin" /\ TwinGet[3] = "res"
  /\ Register \in Seq(AllWords) /\ Len(Register) = 3
  /\ Register[1] = "$dps" /\ Register[2] = "registrations" /\ Register[3] = "res"
BY DEF Methods, Patch, TwinGet, Register, AllWords

\* Which filters a topic matches, by its words.
LEMMA TableMatches ==
  ASSUME NEW t
  PROVE  /\ Below(Methods) # NoTopic /\ Below(Patch) # NoTopic
         /\ Below(TwinGet) # NoTopic /\ Below(Register) # NoTopic
         /\ matchTopicSubscribe(Below(Methods), t) <=>
              t[1] = "$iothub" /\ t[2] = "methods" /\ t[3] = "POST"
         /\ matchTopicSubscribe(Below(Patch), t) <=>
              /\ t[1] = "$iothub" /\ t[2] = "twin" /\ t[3] = "PATCH"
              /\ t[4] = "properties" /\ t[5] = "desired"
         /\ matchTopicSubscribe(Below(TwinGet), t) <=>
              t[1] = "$iothub" /\ t[2] = "twin" /\ t[3] = "res"
         /\ matchTopicSubscribe(Below(Register), t) <=>
              t[1] = "$dps" /\ t[2] = "registrations" /\ t[3] = "res"
<1>1. 1..3 = {1, 2, 3} /\ 1..5 = {1, 2, 3, 4, 5}
  OBVIOUS
<1>2. /\ Below(Methods) # NoTopic
      /\ matchTopicSubscribe(Below(Methods), t) <=>
           t[1] = "$iothub" /\ t[2] = "methods" /\ t[3] = "POST"
  <2>1. Methods \in Seq(AllWords) /\ Len(Methods) = 3
    BY FilterWordsLemma
  <2>2. \A i \in 1..Len(Methods) : Methods[i] \notin {"#", "+"}
    BY <1>1, FilterWordsLemma
  <2>3. /\ Below(Methods) # NoTopic
        /\ matchTopicSubscribe(Below(Methods), t) <=> \A i \in 1..Len(Methods) : Methods[i] = t[i]
    BY <2>1, <2>2, BelowMatches
  <2>4. (\A i \in 1..3 : Methods[i] = t[i]) <=> Methods[1] = t[1] /\ Methods[2] = t[2] /\ Methods[3] = t[3]
    BY <1>1 
  <2> QED BY <2>1, <2>3, <2>4, FilterWordsLemma
<1>3. /\ Below(Patch) # NoTopic
      /\ matchTopicSubscribe(Below(Patch), t) <=>
           /\ t[1] = "$iothub" /\ t[2] = "twin" /\ t[3] = "PATCH"
           /\ t[4] = "properties" /\ t[5] = "desired"
  <2>1. Patch \in Seq(AllWords) /\ Len(Patch) = 5
    BY FilterWordsLemma
  <2>2. \A i \in 1..Len(Patch) : Patch[i] \notin {"#", "+"}
    BY <1>1, FilterWordsLemma
  <2>3. /\ Below(Patch) # NoTopic
        /\ matchTopicSubscribe(Below(Patch), t) <=> \A i \in 1..Len(Patch) : Patch[i] = t[i]
    BY <2>1, <2>2, BelowMatches
  <2>4. (\A i \in 1..5 : Patch[i] = t[i]) <=> Patch[1] = t[1] /\ Patch[2] = t[2] /\ Patch[3] = t[3] /\ Patch[4] = t[4] /\ Patch[5] = t[5]
    BY <1>1 
  <2> QED BY <2>1, <2>3, <2>4, FilterWordsLemma
<1>4. /\ Below(TwinGet) # NoTopic
      /\ matchTopicSubscribe(Below(TwinGet), t) <=>
           t[1] = "$iothub" /\ t[2] = "twin" /\ t[3] = "res"
  <2>1. TwinGet \in Seq(AllWords) /\ Len(TwinGet) = 3
    BY FilterWordsLemma
  <2>2. \A i \in 1..Len(TwinGet) : TwinGet[i] \notin {"#", "+"}
    BY <1>1, FilterWordsLemma
  <2>3. /\ Below(TwinGet) # NoTopic
        /\ matchTopicSubscribe(Below(TwinGet), t) <=> \A i \in 1..Len(TwinGet) : TwinGet[i] = t[i]
    BY <2>1, <2>2, BelowMatches
  <2>4. (\A i \in 1..3 : TwinGet[i] = t[i]) <=> TwinGet[1] = t[1] /\ TwinGet[2] = t[2] /\ TwinGet[3] = t[3]
    BY <1>1 
  <2> QED BY <2>1, <2>3, <2>4, FilterWordsLemma
<1>5. /\ Below(Register) # NoTopic
      /\ matchTopicSubscribe(Below(Register), t) <=>
           t[1] = "$dps" /\ t[2] = "registrations" /\ t[3] = "res"
  <2>1. Register \in Seq(AllWords) /\ Len(Register) = 3
    BY FilterWordsLemma
  <2>2. \A i \in 1..Len(Register) : Register[i] \notin {"#", "+"}
    BY <1>1, FilterWordsLemma
  <2>3. /\ Below(Register) # NoTopic
        /\ matchTopicSubscribe(Below(Register), t) <=> \A i \in 1..Len(Register) : Register[i] = t[i]
    BY <2>1, <2>2, BelowMatches
  <2>4. (\A i \in 1..3 : Register[i] = t[i]) <=> Register[1] = t[1] /\ Register[2] = t[2] /\ Register[3] = t[3]
    BY <1>1 
  <2> QED BY <2>1, <2>3, <2>4, FilterWordsLemma
<1> QED BY <1>2, <1>3, <1>4, <1>5

\* The words the topics of messages begin with.
LEMMA TopicWordsLemma ==
  ASSUME NEW t \in HubTopics \cup ServiceTopics
  PROVE  \/ /\ t \in ServiceTopics
            /\ t[1] = "$dps" /\ t[2] = "registrations" /\ t[3] = "res"
         \/ /\ t \notin ServiceTopics
            /\ t[1] = "$iothub" /\ t[2] = "methods" /\ t[3] = "POST"
         \/ /\ t \notin ServiceTopics
            /\ t[1] = "$iothub" /\ t[2] = "twin" /\ t[3] = "PATCH"
            /\ t[4] = "properties" /\ t[5] = "desired"
         \/ /\ t \notin ServiceTopics
            /\ t[1] = "$iothub" /\ t[2] = "twin" /\ t[3] = "res"
<1>1. ASSUME NEW b \in Seq(AllWords), NEW e \in Seq(AllWords)
      PROVE  \A i \in 1..Len(b) : (b \o e)[i] = b[i]
  BY ConcatProperties, LenProperties
<1>2. /\ <<"name", "?$rid=1">> \in Seq(AllWords) /\ <<"?$version=1">> \in Seq(AllWords)
      /\ <<"200", "?$rid=1">> \in Seq(AllWords)
      /\ <<"204", "?$rid=1&$version=1">> \in Seq(AllWords)
      /\ <<"202", "?$rid=1&retry-after=3">> \in Seq(AllWords)
  BY DEF AllWords
<1>3. 1..3 = {1, 2, 3} /\ 1..5 = {1, 2, 3, 4, 5}
  OBVIOUS
<1>4. \A s \in ServiceTopics : s[1] = "$dps" /\ s[2] = "registrations" /\ s[3] = "res"
  <2> SUFFICES ASSUME NEW s \in ServiceTopics
               PROVE  s[1] = "$dps" /\ s[2] = "registrations" /\ s[3] = "res"
    OBVIOUS
  <2>1. \A i \in 1..Len(Register) : s[i] = Register[i]
    <3> HIDE DEF AllWords
    <3>1. Register \in Seq(AllWords)
      BY FilterWordsLemma
    <3> QED BY <1>1, <1>2, <3>1 DEF ServiceTopics
  <2> QED BY <1>3, <2>1, FilterWordsLemma
<1>5. ASSUME NEW e \in Seq(AllWords)
      PROVE  /\ \A i \in 1..3 : (Methods \o e)[i] = Methods[i]
             /\ \A i \in 1..5 : (Patch \o e)[i] = Patch[i]
             /\ \A i \in 1..3 : (TwinGet \o e)[i] = TwinGet[i]
  <2>1. /\ Methods \in Seq(AllWords) /\ Patch \in Seq(AllWords)
        /\ TwinGet \in Seq(AllWords)
        /\ Len(Methods) = 3 /\ Len(Patch) = 5 /\ Len(TwinGet) = 3
    BY FilterWordsLemma
  <2>2. \A i \in 1..Len(Methods) : (Methods \o e)[i] = Methods[i]
    BY <1>1, <2>1
  <2>3. \A i \in 1..Len(Patch) : (Patch \o e)[i] = Patch[i]
    BY <1>1, <2>1
  <2>4. \A i \in 1..Len(TwinGet) : (TwinGet \o e)[i] = TwinGet[i]
    BY <1>1, <2>1
  <2> QED BY <2>1, <2>2, <2>3, <2>4
<1>6. CASE t \in ServiceTopics
  BY <1>4, <1>6
<1>7. CASE t \in HubTopics
  <2>1. \/ t = Methods \o <<"name", "?$rid=1">>
        \/ t = Patch \o <<"?$version=1">>
        \/ t = TwinGet \o <<"200", "?$rid=1">>
        \/ t = TwinGet \o <<"204", "?$rid=1&$version=1">>
    BY <1>7 DEF HubTopics
  <2>2. \/ \A i \in 1..3 : t[i] = Methods[i]
        \/ \A i \in 1..5 : t[i] = Patch[i]
        \/ \A i \in 1..3 : t[i] = TwinGet[i]
    <3>1. CASE t = Methods \o <<"name", "?$rid=1">>
      BY <1>2, <1>5, <3>1, Zenon
    <3>2. CASE t = Patch \o <<"?$version=1">>
      BY <1>2, <1>5, <3>2, Zenon
    <3>3. CASE t = TwinGet \o <<"200", "?$rid=1">>
      BY <1>2, <1>5, <3>3, Zenon
    <3>4. CASE t = TwinGet \o <<"204", "?$rid=1&$version=1">>
      BY <1>2, <1>5, <3>4, Zenon
    <3> QED BY <2>1, <3>1, <3>2, <3>3, <3>4
  <2>3. \/ t[1] = Methods[1] /\ t[2] = Methods[2] /\ t[3] = Methods[3]
        \/ /\ t[1] = Patch[1] /\ t[2] = Patch[2] /\ t[3] = Patch[3]
           /\ t[4] = Patch[4] /\ t[5] = Patch[5]
        \/ t[1] = TwinGet[1] /\ t[2] = TwinGet[2] /\ t[3] = TwinGet[3]
    BY <1>3, <2>2
  <2>4. t \notin ServiceTopics
    <3>1. t[1] = "$iothub"
      BY <2>3, FilterWordsLemma
    <3> QED BY <1>4, <3>1
  <2> QED BY <2>3, <2>4, FilterWordsLemma
<1> QED BY <1>6, <1>7

\* The callback the topic t is for, in either session.
LEMMA DispatchLemma ==
  ASSUME NEW t \in HubTopics \cup ServiceTopics
  PROVE  /\ t \in ServiceTopics =>
              /\ Dispatched(iothubTable, t) = "none"
              /\ Dispatched(provisioningTable, t) = "dps_client_register"
         /\ t \notin ServiceTopics =>
              /\ Dispatched(provisioningTable, t) = "none"
              /\ t[2] = "methods" =>
                   Dispatched(iothubTable, t) = "APP_ReceivedFromCloud_methods"
              /\ t[2] = "twin" /\ t[3] = "PATCH" =>
                   Dispatched(iothubTable, t) = "APP_ReceivedFromCloud_patch"
              /\ t[2] = "twin" /\ t[3] = "res" =>
                   Dispatched(iothubTable, t) = "APP_ReceivedFromCloud_twin"
<1> DEFINE matching(table) == {i \in 1..Len(table) :
             table[i].topic # NoTopic /\ matchTopicSubscribe(table[i].topic, t)}
<1>1. ASSUME NEW table, NEW i, i \in Nat, matching(table) = {i}
      PROVE  Dispatched(table, t) = table[i].callback
  <2>1. Min({i}) = i
    <3>1. Min({i}) \in {i}
      BY <1>1 DEF Min
    <3> QED BY <3>1
  <2> QED BY <1>1, <2>1 DEF Dispatched
<1>2. ASSUME NEW table, matching(table) = {} PROVE Dispatched(table, t) = "none"
  BY <1>2 DEF Dispatched
<1>3. /\ Len(iothubTable) = 3
      /\ iothubTable[1].topic = Below(Methods)
      /\ iothubTable[1].callback = "APP_ReceivedFromCloud_methods"
      /\ iothubTable[2].topic = Below(Patch)
      /\ iothubTable[2].callback = "APP_ReceivedFromCloud_patch"
      /\ iothubTable[3].topic = Below(TwinGet)
      /\ iothubTable[3].callback = "APP_ReceivedFromCloud_twin"
  BY DEF iothubTable, Entry
<1>4. /\ Len(provisioningTable) = 3
      /\ provisioningTable[1].topic = Below(Register)
      /\ provisioningTable[1].callback = "dps_client_register"
      /\ provisioningTable[2].topic = NoTopic /\ provisioningTable[3].topic = NoTopic
  BY DEF provisioningTable, Entry
<1>5. 1..3 = {1, 2, 3}
  OBVIOUS
<1>6. CASE t \in ServiceTopics
  <2>1. t[1] = "$dps" /\ t[2] = "registrations" /\ t[3] = "res"
    BY <1>6, TopicWordsLemma
  <2>2. matching(iothubTable) = {}
    BY <1>3, <1>5, <2>1, TableMatches
  <2>3. matching(provisioningTable) = {1}
    BY <1>4, <1>5, <2>1, TableMatches
  <2> HIDE DEF matching
  <2> QED BY <1>1, <1>2, <1>4, <1>6, <2>2, <2>3
<1>7. CASE t \notin ServiceTopics
  <2>1. t[1] = "$iothub"
    BY <1>7, TopicWordsLemma
  <2>2. matching(provisioningTable) = {}
    BY <1>4, <1>5, <2>1, TableMatches
  <2>3. ASSUME t[2] = "methods"
        PROVE  Dispatched(iothubTable, t) = "APP_ReceivedFromCloud_methods"
    <3>1. t[3] = "POST"
      BY <1>7, <2>3, TopicWordsLemma
    <3>2. matching(iothubTable) = {1}
      BY <1>3, <1>5, <2>1, <2>3, <3>1, TableMatches
    <3> HIDE DEF matching
    <3> QED BY <1>1, <1>3, <3>2
  <2>4. ASSUME t[2] = "twin", t[3] = "PATCH"
        PROVE  Dispatched(iothubTable, t) = "APP_ReceivedFromCloud_patch"
    <3>1. t[4] = "properties" /\ t[5] = "desired"
      BY <1>7, <2>4, TopicWordsLemma
    <3>2. matching(iothubTable) = {2}
      BY <1>3, <1>5, <2>1, <2>4, <3>1, TableMatches
    <3> HIDE DEF matching
    <3> QED BY <1>1, <1>3, <3>2
  <2>5. ASSUME t[2] = "twin", t[3] = "res"
        PROVE  Dispatched(iothubTable, t) = "APP_ReceivedFromCloud_twin"
    <3>1. matching(iothubTable) = {3}
      BY <1>3, <1>5, <2>1, <2>5, TableMatches
    <3> HIDE DEF matching
    <3> QED BY <1>1, <1>3, <3>1
  <2> HIDE DEF matching
  <2> QED BY <1>2, <1>7, <2>2, <2>3, <2>4, <2>5
<1> QED BY <1>6, <1>7

-----------------------------------------------------------------------------
\* A number is its lower seven bits and 128 times the rest.
LEMMA GroupLemma ==
  ASSUME NEW x \in Nat
  PROVE  /\ x \div 128 \in Nat /\ x % 128 \in 0..127
         /\ x % 128 = x - 128 * (x \div 128)
OBVIOUS

\* One byte in front of one or of two.
LEMMA PairLemma ==
  ASSUME NEW a \in Int, NEW b \in Int
  PROVE  <<a>> \o <<b>> = <<a, b>>
<1>1. /\ <<a>> \in Seq(Int) /\ <<b>> \in Seq(Int) /\ <<a, b>> \in Seq(Int)
      /\ Len(<<a>>) = 1 /\ Len(<<b>>) = 1 /\ Len(<<a, b>>) = 2
  OBVIOUS
<1>2. <<a>> \o <<b>> \in Seq(Int) /\ Len(<<a>> \o <<b>>) = 2
  BY <1>1, ConcatProperties
<1>3. \A i \in 1..2 : (<<a>> \o <<b>>)[i] = <<a, b>>[i]
  <2>1. (<<a>> \o <<b>>)[1] = a /\ (<<a>> \o <<b>>)[2] = b
    OBVIOUS
  <2> QED BY <2>1
<1> QED BY <1>1, <1>2, <1>3, SeqEqual

LEMMA TripleLemma ==
  ASSUME NEW a \in Int, NEW b \in Int, NEW c \in Int
  PROVE  <<a>> \o <<b, c>> = <<a, b, c>>
<1>1. /\ <<a>> \in Seq(Int) /\ <<b, c>> \in Seq(Int) /\ <<a, b, c>> \in Seq(Int)
      /\ Len(<<a>>) = 1 /\ Len(<<b, c>>) = 2 /\ Len(<<a, b, c>>) = 3
  OBVIOUS
<1>2. <<a>> \o <<b, c>> \in Seq(Int) /\ Len(<<a>> \o <<b, c>>) = 3
  BY <1>1, ConcatProperties
<1>3. \A i \in 1..3 : (<<a>> \o <<b, c>>)[i] = <<a, b, c>>[i]
  <2>1. (<<a>> \o <<b, c>>)[1] = a /\ (<<a>> \o <<b, c>>)[2] = b /\ (<<a>> \o <<b, c>>)[3] = c
    OBVIOUS
  <2> QED BY <2>1
<1> QED BY <1>1, <1>2, <1>3, SeqEqual

\* The uint16_t values.
LEMMA LengthRange ==
  /\ \A l \in TotalLengths : l \in Nat /\ l <= 65535
  /\ \A l \in Nat : l <= 65535 => l \in TotalLengths
<1>1. UINT16_MAX \in Nat
  BY SMT DEF UINT16_MAX
<1>2. /\ \A l \in TotalLengths : l \in Nat /\ l <= UINT16_MAX
      /\ \A l \in Nat : l <= UINT16_MAX => l \in TotalLengths
  BY <1>1 DEF TotalLengths
<1>3. UINT16_MAX = 65535
  BY SMT DEF UINT16_MAX
<1> QED BY <1>2, <1>3, SMT

\* The bytes a length is written as: one, two or three groups of seven bits.
LEMMA EncodeLemma ==
  ASSUME NEW x \in TotalLengths
  PROVE  \/ /\ x < 128
            /\ mqttEncodeLength(x) = <<x>>
         \/ \E q, r \in 0..127 :
              /\ x = 128 * q + r
              /\ mqttEncodeLength(x) = <<r + 128, q>>
         \/ \E p, q, r \in 0..127 :
              /\ x = 128 * (128 * p + q) + r
              /\ mqttEncodeLength(x) = <<r + 128, q + 128, p>>
<1> DEFINE q(l) == l \div 128
           r(l) == l % 128
           E(f, l) == IF l < 128 THEN <<l>> ELSE <<r(l) + 128>> \o f[q(l)]
           g == [l \in TotalLengths |->
                   IF l < 128 THEN <<l>>
                   ELSE IF q(l) < 128 THEN <<r(l) + 128, q(l)>>
                   ELSE <<r(l) + 128, r(q(l)) + 128, q(q(l))>>]
<1>1. ASSUME NEW l \in TotalLengths
      PROVE  /\ l \in Nat /\ q(l) \in TotalLengths /\ r(l) \in 0..127
             /\ l = 128 * q(l) + r(l) /\ q(q(l)) < 128 /\ q(q(l)) \in Nat
  <2>1. l \in Nat /\ l <= 65535
    BY LengthRange
  <2> DEFINE k == q(l)
  <2>2. k \in Nat /\ r(l) \in 0..127 /\ r(l) = l - 128 * k
    BY <2>1, GroupLemma
  <2>3. q(k) \in Nat /\ r(k) \in 0..127 /\ r(k) = k - 128 * q(k)
    <3> HIDE DEF k
    <3> QED BY <2>2, GroupLemma
  <2> DEFINE k2 == q(k)
  <2> HIDE DEF k2, k, q, r
  <2> QED BY <2>1, <2>2, <2>3, LengthRange DEF k2, k
<1>2. EncodeGroups = CHOOSE f : f = [l \in TotalLengths |-> E(f, l)]
  BY DEF EncodeGroups, Continues
<1> HIDE DEF q, r
<1>3. ASSUME NEW l \in TotalLengths PROVE g[l] = E(g, l)
  <2>1. CASE l < 128
    BY <2>1
  <2>2. CASE ~(l < 128) /\ q(l) < 128
    <3>1. E(g, l) = <<r(l) + 128>> \o <<q(l)>>
      <4>1. q(l) \in TotalLengths
        BY <1>1
      <4>2. g[q(l)] = <<q(l)>>
        BY <2>2, <4>1
      <4> HIDE DEF g
      <4> QED BY <2>2, <4>2
    <3>2. g[l] = <<r(l) + 128, q(l)>>
      BY <2>2
    <3>3. r(l) + 128 \in Int /\ q(l) \in Int
      <4>1. q(l) \in TotalLengths /\ r(l) \in 0..127
        BY <1>1
      <4> QED BY <4>1, LengthRange
    <3> HIDE DEF g, E
    <3> QED BY <3>1, <3>2, <3>3, PairLemma
  <2>3. CASE ~(l < 128) /\ ~(q(l) < 128)
    <3> DEFINE k == q(l)
    <3>1. k \in TotalLengths /\ q(k) < 128
      BY <1>1
    <3>2. g[k] = <<r(k) + 128, q(k)>>
      BY <2>3, <3>1
    <3>3. E(g, l) = <<r(l) + 128>> \o g[k]
      <4> HIDE DEF g
      <4> QED BY <2>3
    <3>4. g[l] = <<r(l) + 128, r(k) + 128, q(k)>>
      BY <2>3
    <3>5. r(l) + 128 \in Int /\ r(k) + 128 \in Int /\ q(k) \in Int
      <4> HIDE DEF k
      <4>1. r(l) \in 0..127
        BY <1>1
      <4>2. r(k) \in 0..127 /\ q(k) \in Nat
        BY <1>1, <3>1, LengthRange
      <4> QED BY <4>1, <4>2
    <3> HIDE DEF g, E, k
    <3> QED BY <3>2, <3>3, <3>4, <3>5, TripleLemma
  <2> QED BY <2>1, <2>2, <2>3
<1>4. g = [l \in TotalLengths |-> E(g, l)]
  <2>1. \A l \in TotalLengths : g[l] = E(g, l)
    BY <1>3
  <2>2. g = [l \in TotalLengths |-> g[l]]
    OBVIOUS
  <2> HIDE DEF g, E
  <2> QED BY <2>1, <2>2
<1> HIDE DEF g
<1>5. EncodeGroups = [l \in TotalLengths |-> E(EncodeGroups, l)]
  <2> HIDE DEF E
  <2> QED BY <1>2, <1>4
<1> DEFINE e == EncodeGroups
<1>6. \A l \in TotalLengths : e[l] = E(e, l)
  <2> HIDE DEF E
  <2> QED BY <1>5
<1> HIDE DEF e
<1>7. \A l \in TotalLengths : l < 128 => e[l] = <<l>>
  BY <1>6
<1>8. ASSUME NEW l \in TotalLengths, ~(l < 128), q(l) < 128
      PROVE  e[l] = <<r(l) + 128, q(l)>>
  <2>1. q(l) \in TotalLengths /\ r(l) + 128 \in Int /\ q(l) \in Int
    <3>1. q(l) \in TotalLengths /\ r(l) \in 0..127
      BY <1>1
    <3> QED BY <3>1, LengthRange
  <2>2. e[l] = <<r(l) + 128>> \o <<q(l)>>
    BY <1>6, <1>7, <1>8, <2>1
  <2> QED BY <2>1, <2>2, PairLemma
<1>9. CASE x < 128
  BY <1>7, <1>9 DEF mqttEncodeLength, e
<1>10. CASE ~(x < 128) /\ q(x) < 128
  <2>1. mqttEncodeLength(x) = <<r(x) + 128, q(x)>>
    BY <1>8, <1>10 DEF mqttEncodeLength, e
  <2>2. q(x) \in 0..127 /\ r(x) \in 0..127 /\ x = 128 * q(x) + r(x)
    BY <1>1, <1>10, LengthRange
  <2> QED BY <2>1, <2>2
<1>11. CASE ~(x < 128) /\ ~(q(x) < 128)
  <2> DEFINE k == q(x)
  <2>1. k \in TotalLengths /\ q(k) < 128 /\ r(x) \in 0..127 /\ x = 128 * k + r(x)
    BY <1>1
  <2> HIDE DEF k
  <2>2. r(k) \in 0..127 /\ q(k) \in 0..127 /\ k = 128 * q(k) + r(k)
    <3>1. r(k) \in 0..127 /\ q(k) \in TotalLengths /\ q(k) < 128 /\ k = 128 * q(k) + r(k)
      BY <1>1, <2>1
    <3> QED BY <3>1, LengthRange
  <2>3. e[k] = <<r(k) + 128, q(k)>>
    BY <1>8, <1>11, <2>1 DEF k
  <2>4. e[x] = <<r(x) + 128>> \o e[k]
    BY <1>6, <1>11 DEF k
  <2>5. e[x] = <<r(x) + 128, r(k) + 128, q(k)>>
    <3>1. r(x) + 128 \in Int /\ r(k) + 128 \in Int /\ q(k) \in Int
      BY <2>1, <2>2
    <3> QED BY <2>3, <2>4, <3>1, TripleLemma
  <2>6. x = 128 * (128 * q(k) + r(k)) + r(x)
    BY <2>1, <2>2
  <2> QED BY <2>1, <2>2, <2>5, <2>6 DEF mqttEncodeLength, e
<1> QED BY <1>9, <1>10, <1>11

\* The least element of a set of numbers.
LEMMA MinLemma ==
  ASSUME NEW S, NEW k \in S, S \subseteq Nat, \A y \in S : k <= y
  PROVE  Min(S) = k
<1>1. Min(S) \in S /\ \A y \in S : Min(S) <= y
  BY DEF Min
<1>2. Min(S) \in Nat /\ k \in Nat /\ Min(S) <= k /\ k <= Min(S)
  BY <1>1
<1> QED BY <1>2

\* The value of three groups, the lowest first.
Groups(a, b, c) == a + 128 * (b + 128 * c)

\* Up to three bytes, of which the last and only the last does not continue.
LEMMA DecodeLemma ==
  ASSUME NEW n \in 1..3, NEW bytes \in Seq(Nat), Len(bytes) = n,
         bytes[n] < 128, \A i \in 1..(n - 1) : bytes[i] >= 128
  PROVE  /\ n = 1 => mqttDecodeLength(bytes) = bytes[1] % 128
         /\ n = 2 => mqttDecodeLength(bytes) = (bytes[1] % 128) + 128 * (bytes[2] % 128)
         /\ n = 3 => mqttDecodeLength(bytes) =
                       Groups(bytes[1] % 128, bytes[2] % 128, bytes[3] % 128)
<1> DEFINE d(i) == bytes[i] % 128
           V(f, i) == IF i > n THEN 0 ELSE d(i) + 128 * f[i + 1]
           Value(k) == CHOOSE f :
             f = [i \in 1..(k + 1) |-> IF i > k THEN 0 ELSE (bytes[i] % 128) + 128 * f[i + 1]]
           value == Value(n)
           h(i) == IF i > n THEN 0 ELSE d(i) + 128 *
                     (IF i + 1 > n THEN 0 ELSE d(i + 1) + 128 *
                       (IF i + 2 > n THEN 0 ELSE d(i + 2) + 128 * 0))
           g == [i \in 1..(n + 1) |-> h(i)]
<1>1. Min({i \in 1..Len(bytes) : bytes[i] < Continues}) = n
  <2> DEFINE S == {i \in 1..Len(bytes) : bytes[i] < Continues}
  <2>1. n \in S /\ S \subseteq Nat
    BY DEF Continues
  <2>2. \A y \in S : n <= y
    BY DEF Continues
  <2> HIDE DEF S
  <2>3. Min(S) = n
    BY <2>1, <2>2, MinLemma
  <2> QED BY <2>3 DEF S
<1>2. mqttDecodeLength(bytes) = value[1]
  <2>1. mqttDecodeLength(bytes) =
          Value(Min({i \in 1..Len(bytes) : bytes[i] < Continues}))[1]
    BY DEF mqttDecodeLength
  <2> HIDE DEF Value
  <2> QED BY <1>1, <2>1
<1>3. \A i \in 1..n : d(i) \in Nat
  BY GroupLemma
<1> HIDE DEF d
<1>4. ASSUME NEW i \in 1..(n + 1) PROVE g[i] = V(g, i)
  <2>1. g[i] = h(i)
    OBVIOUS
  <2>2. CASE i > n
    BY <2>1, <2>2
  <2>3. CASE i <= n
    <3>1. i + 1 \in 1..(n + 1) /\ i + 3 > n
      BY <2>3
    <3>2. g[i + 1] = h(i + 1)
      BY <3>1
    <3>3. (i + 1) + 1 = i + 2 /\ (i + 1) + 2 = i + 3
      OBVIOUS
    <3>4. h(i) = d(i) + 128 * h(i + 1)
      BY <2>3, <3>1, <3>3
    <3> QED BY <2>1, <2>3, <3>2, <3>4
  <2> QED BY <2>2, <2>3
<1>5. g = [i \in 1..(n + 1) |-> V(g, i)]
  <2>1. \A i \in 1..(n + 1) : g[i] = V(g, i)
    BY <1>4
  <2>2. g = [i \in 1..(n + 1) |-> g[i]]
    OBVIOUS
  <2> HIDE DEF g, V
  <2> QED BY <2>1, <2>2
<1> HIDE DEF g, h
<1>6. value = [i \in 1..(n + 1) |-> V(value, i)]
  <2>1. value = CHOOSE f : f = [i \in 1..(n + 1) |-> V(f, i)]
    BY DEF d
  <2> HIDE DEF V, value
  <2> QED BY <1>5, <2>1
<1>7. \A i \in 1..(n + 1) : value[i] = V(value, i)
  <2> HIDE DEF V, value
  <2> QED BY <1>6
<1> HIDE DEF value
<1>8. value[n + 1] = 0 /\ \A i \in 1..n : value[i] = d(i) + 128 * value[i + 1]
  BY <1>7
<1>9. CASE n = 1
  BY <1>2, <1>3, <1>8, <1>9 DEF d
<1>10. CASE n = 2
  <2>1. value[3] = 0 /\ value[2] = d(2) + 128 * value[3] /\ value[1] = d(1) + 128 * value[2]
    BY <1>8, <1>10
  <2>2. d(1) \in Nat /\ d(2) \in Nat
    BY <1>3, <1>10
  <2>3. value[1] = d(1) + 128 * d(2)
    BY <2>1, <2>2
  <2> QED BY <1>2, <1>10, <2>3 DEF d
<1>11. CASE n = 3
  <2>1. /\ value[4] = 0 /\ value[3] = d(3) + 128 * value[4]
        /\ value[2] = d(2) + 128 * value[3] /\ value[1] = d(1) + 128 * value[2]
    BY <1>8, <1>11
  <2>2. d(1) \in Nat /\ d(2) \in Nat /\ d(3) \in Nat
    BY <1>3, <1>11
  <2>3. value[1] = d(1) + 128 * (d(2) + 128 * d(3))
    BY <2>1, <2>2
  <2> QED BY <1>2, <1>11, <2>3 DEF d, Groups
<1> QED BY <1>9, <1>10, <1>11

\* What is read of a field of n bytes and the byte behind it.
LEMMA FieldLemma ==
  ASSUME NEW n \in 1..3, NEW field \in Seq(Nat), NEW next \in Nat, Len(field) = n,
         field[n] < 128, \A i \in 1..(n - 1) : field[i] >= 128
  PROVE  /\ FieldLength(field \o <<next>>) = n
         /\ SubSeq(field \o <<next>>, 1, n) = field
<1> DEFINE bytes == field \o <<next>>
           S == {i \in 1..Len(bytes) : bytes[i] < Continues} \cup {FieldSize}
<1>1. <<next>> \in Seq(Nat) /\ Len(<<next>>) = 1
  OBVIOUS
<1>2. /\ bytes \in Seq(Nat) /\ Len(bytes) = n + 1
      /\ \A i \in 1..n : bytes[i] = field[i]
  BY <1>1, ConcatProperties, LenProperties
<1> HIDE DEF bytes
<1>3. n \in S /\ S \subseteq Nat /\ \A y \in S : n <= y
  <2>1. n \in S /\ S \subseteq Nat
    BY <1>2 DEF Continues, FieldSize
  <2>2. ASSUME NEW y \in S, y < n PROVE FALSE
    BY <1>2, <2>1, <2>2 DEF Continues, FieldSize
  <2> QED BY <2>1, <2>2
<1>4. FieldLength(bytes) = n
  <2> HIDE DEF S
  <2>1. Min(S) = n
    BY <1>3, MinLemma
  <2> QED BY <2>1 DEF FieldLength, S
<1>5. SubSeq(bytes, 1, n) = field
  <2> DEFINE p == SubSeq(bytes, 1, n)
  <2>1. \A i \in 1..n : bytes[i] \in Nat
    BY <1>2
  <2>2. p \in Seq(Nat) /\ Len(p) = n /\ \A i \in 1..n : p[i] = bytes[i]
    BY <2>1, SubSeqProperties
  <2> HIDE DEF p
  <2>3. p = field
    BY <1>2, <2>2, SeqEqual
  <2> QED BY <2>3 DEF p
<1> QED BY <1>4, <1>5 DEF bytes

\* A length that was written is read back, whatever byte follows.
LEMMA LengthLemma ==
  ASSUME NEW x \in TotalLengths, NEW next \in Nat
  PROVE  LET bytes == mqttEncodeLength(x) \o <<next>>
             n     == FieldLength(bytes)
         IN /\ n = Len(mqttEncodeLength(x)) /\ n <= FieldSize
            /\ mqttDecodeLength(SubSeq(bytes, 1, n)) = x
<1> DEFINE field == mqttEncodeLength(x)
<1>1. PICK n \in 1..3 :
        /\ field \in Seq(Nat) /\ Len(field) = n
        /\ field[n] < 128 /\ \A i \in 1..(n - 1) : field[i] >= 128
        /\ mqttDecodeLength(field) = x
  <2>1. CASE x < 128 /\ field = <<x>>
    <3>1. /\ field \in Seq(Nat) /\ Len(field) = 1 /\ field[1] = x
          /\ x \in Nat /\ \A i \in 1..(1 - 1) : field[i] >= 128
      BY <2>1, LengthRange
    <3> HIDE DEF field
    <3> PICK n \in 1..3 : n = 1
      OBVIOUS
    <3>2. mqttDecodeLength(field) = field[1] % 128
      BY <2>1, <3>1, DecodeLemma
    <3>3. x % 128 = x
      BY <2>1, <3>1
    <3> QED BY <2>1, <3>1, <3>2, <3>3
  <2>2. ASSUME NEW q \in 0..127, NEW r \in 0..127, x = 128 * q + r, field = <<r + 128, q>>
        PROVE  \E n \in 1..3 :
                 /\ field \in Seq(Nat) /\ Len(field) = n
                 /\ field[n] < 128 /\ \A i \in 1..(n - 1) : field[i] >= 128
                 /\ mqttDecodeLength(field) = x
    <3> HIDE DEF field
    <3> PICK n \in 1..3 : n = 2
      OBVIOUS
    <3>1. /\ field \in Seq(Nat) /\ Len(field) = 2 /\ field[1] = r + 128 /\ field[2] = q
      BY <2>2
    <3>2. field[2] < 128 /\ \A i \in 1..(n - 1) : field[i] >= 128
      BY <3>1
    <3>3. mqttDecodeLength(field) = (field[1] % 128) + 128 * (field[2] % 128)
      BY <3>1, <3>2, DecodeLemma
    <3>4. (r + 128) % 128 = r /\ q % 128 = q
      OBVIOUS
    <3> QED BY <2>2, <3>1, <3>2, <3>3, <3>4
  <2>3. ASSUME NEW p \in 0..127, NEW q \in 0..127, NEW r \in 0..127,
               x = 128 * (128 * p + q) + r, field = <<r + 128, q + 128, p>>
        PROVE  \E n \in 1..3 :
                 /\ field \in Seq(Nat) /\ Len(field) = n
                 /\ field[n] < 128 /\ \A i \in 1..(n - 1) : field[i] >= 128
                 /\ mqttDecodeLength(field) = x
    <3> HIDE DEF field
    <3> PICK n \in 1..3 : n = 3
      OBVIOUS
    <3>1. /\ field \in Seq(Nat) /\ Len(field) = 3
          /\ field[1] = r + 128 /\ field[2] = q + 128 /\ field[3] = p
      BY <2>3
    <3>2. field[3] < 128 /\ \A i \in 1..(n - 1) : field[i] >= 128
      <4>1. \A i \in 1..(n - 1) : i = 1 \/ i = 2
        OBVIOUS
      <4>2. field[1] >= 128 /\ field[2] >= 128 /\ field[3] < 128
        BY <3>1
      <4> QED BY <4>1, <4>2
    <3>3. mqttDecodeLength(field) = Groups(field[1] % 128, field[2] % 128, field[3] % 128)
      <4>1. Len(field) = n /\ field[n] < 128
        BY <3>1, <3>2
      <4> QED BY <3>1, <3>2, <4>1, DecodeLemma
    <3>4. (r + 128) % 128 = r /\ (q + 128) % 128 = q /\ p % 128 = p
      OBVIOUS
    <3>5. mqttDecodeLength(field) = x
      BY <2>3, <3>1, <3>3, <3>4 DEF Groups
    <3> QED BY <3>1, <3>2, <3>5
  <2> HIDE DEF field
  <2>4. \/ x < 128 /\ field = <<x>>
        \/ \E q, r \in 0..127 : x = 128 * q + r /\ field = <<r + 128, q>>
        \/ \E p, q, r \in 0..127 :
             x = 128 * (128 * p + q) + r /\ field = <<r + 128, q + 128, p>>
    BY EncodeLemma, Zenon DEF field
  <2> QED BY <2>1, <2>2, <2>3, <2>4
<1> HIDE DEF field
<1>2. /\ FieldLength(field \o <<next>>) = n
      /\ SubSeq(field \o <<next>>, 1, n) = field
  BY <1>1, FieldLemma
<1>3. n <= FieldSize
  BY DEF FieldSize
<1>4. /\ FieldLength(field \o <<next>>) = Len(field)
      /\ FieldLength(field \o <<next>>) <= FieldSize
      /\ mqttDecodeLength(SubSeq(field \o <<next>>, 1, FieldLength(field \o <<next>>))) = x
  BY <1>1, <1>2, <1>3
<1> QED BY <1>4, Zenon DEF field

-----------------------------------------------------------------------------
\* Every length the engine writes is read back as it was written, from as many
\* bytes as were written, whatever byte follows them (mqttEncodeLength,
\* mqttDecodeLength, mqttProcessPublish).
THEOREM LengthSurvivesCorrect == CodecSpec => []LengthSurvives
<1>1. codec = Idle => LengthSurvives
  BY DEF Idle, LengthSurvives
<1>2. LengthSurvives /\ [CodecCall \/ codec' = Idle]_codec => LengthSurvives'
  <2> SUFFICES ASSUME LengthSurvives, [CodecCall \/ codec' = Idle]_codec
               PROVE  LengthSurvives'
    OBVIOUS
  <2>1. CASE \E length \in TotalLengths, next \in NextBytes : PassLength(length, next)
    <3> PICK length \in TotalLengths, next \in NextBytes : PassLength(length, next)
      BY <2>1
    <3>1. next \in Nat
      BY NextBytesAssumption
    <3> QED BY <3>1, LengthLemma DEF PassLength, LengthSurvives
  <2>2. CASE \E filter \in Filters : \E topic \in TopicsOf(Len(filter)) :
               MatchTopic(filter, topic)
    BY <2>2 DEF MatchTopic, LengthSurvives
  <2>3. CASE \E session \in {"iothub", "iotprovisioning"}, topic \in HubTopics \cup ServiceTopics :
               Deliver(session, topic)
    BY <2>3 DEF Deliver, LengthSurvives
  <2>4. CASE codec' = Idle
    BY <2>4 DEF Idle, LengthSurvives
  <2>5. CASE UNCHANGED codec
    BY <2>5 DEF LengthSurvives
  <2> QED BY <2>1, <2>2, <2>3, <2>4, <2>5 DEF CodecCall
<1> QED BY <1>1, <1>2, PTL DEF CodecSpec

\* The loop over the words of a filter decides what the filter means in MQTT
\* (matchTopicSubscribe), for all filters and topics of any words and lengths.
THEOREM MatchingIsMqtts == CodecSpec => []MatchingCorrect
<1>1. codec = Idle => MatchingCorrect
  BY DEF Idle, MatchingCorrect
<1>2. MatchingCorrect /\ [CodecCall \/ codec' = Idle]_codec => MatchingCorrect'
  <2> SUFFICES ASSUME MatchingCorrect, [CodecCall \/ codec' = Idle]_codec
               PROVE  MatchingCorrect'
    OBVIOUS
  <2>1. CASE \E length \in TotalLengths, next \in NextBytes : PassLength(length, next)
    BY <2>1 DEF PassLength, MatchingCorrect
  <2>2. CASE \E filter \in Filters : \E topic \in TopicsOf(Len(filter)) :
               MatchTopic(filter, topic)
    BY <2>2, MatchesLemma DEF MatchTopic, MatchingCorrect
  <2>3. CASE \E session \in {"iothub", "iotprovisioning"}, topic \in HubTopics \cup ServiceTopics :
               Deliver(session, topic)
    BY <2>3 DEF Deliver, MatchingCorrect
  <2>4. CASE codec' = Idle
    BY <2>4 DEF Idle, MatchingCorrect
  <2>5. CASE UNCHANGED codec
    BY <2>5 DEF MatchingCorrect, Matches
  <2> QED BY <2>1, <2>2, <2>3, <2>4, <2>5 DEF CodecCall
<1> QED BY <1>1, <1>2, PTL DEF CodecSpec

\* A message of the hub or of the provisioning service reaches its own callback
\* in its own session and none in the other (mqttProcessPublish's loop over the
\* table of the two clients).
THEOREM MessageDispatchedCorrect == CodecSpec => []MessageDispatched
<1>1. codec = Idle => MessageDispatched
  BY DEF Idle, MessageDispatched
<1>2. MessageDispatched /\ [CodecCall \/ codec' = Idle]_codec => MessageDispatched'
  <2> SUFFICES ASSUME MessageDispatched, [CodecCall \/ codec' = Idle]_codec
               PROVE  MessageDispatched'
    OBVIOUS
  <2>1. CASE \E length \in TotalLengths, next \in NextBytes : PassLength(length, next)
    BY <2>1 DEF PassLength, MessageDispatched
  <2>2. CASE \E filter \in Filters : \E topic \in TopicsOf(Len(filter)) :
               MatchTopic(filter, topic)
    BY <2>2 DEF MatchTopic, MessageDispatched
  <2>3. CASE \E session \in {"iothub", "iotprovisioning"}, topic \in HubTopics \cup ServiceTopics :
               Deliver(session, topic)
    <3> PICK session \in {"iothub", "iotprovisioning"}, t \in HubTopics \cup ServiceTopics :
               Deliver(session, t)
      BY <2>3
    <3>1. /\ codec'.session = session /\ codec'.topic = t
          /\ codec'.result =
               Dispatched(IF session = "iothub" THEN iothubTable ELSE provisioningTable, t)
      BY DEF Deliver
    <3>2. CASE t \in ServiceTopics
      <4>1. t[2] = "registrations"
        BY <3>2, TopicWordsLemma
      <4> QED BY <3>1, <3>2, <4>1, DispatchLemma DEF MessageDispatched
    <3>3. CASE t \notin ServiceTopics
      <4>1. \/ t[2] = "methods" /\ t[3] = "POST"
            \/ t[2] = "twin" /\ t[3] = "PATCH"
            \/ t[2] = "twin" /\ t[3] = "res"
        BY <3>3, TopicWordsLemma
      <4>2. CASE t[2] = "methods" /\ t[3] = "POST"
        BY <3>1, <3>3, <4>2, DispatchLemma DEF MessageDispatched
      <4>3. CASE t[2] = "twin" /\ t[3] = "PATCH"
        BY <3>1, <3>3, <4>3, DispatchLemma DEF MessageDispatched
      <4>4. CASE t[2] = "twin" /\ t[3] = "res"
        BY <3>1, <3>3, <4>4, DispatchLemma DEF MessageDispatched
      <4> QED BY <4>1, <4>2, <4>3, <4>4
    <3> QED BY <3>2, <3>3
  <2>4. CASE codec' = Idle
    BY <2>4 DEF Idle, MessageDispatched
  <2>5. CASE UNCHANGED codec
    BY <2>5 DEF MessageDispatched
  <2> QED BY <2>1, <2>2, <2>3, <2>4, <2>5 DEF CodecCall
<1> QED BY <1>1, <1>2, PTL DEF CodecSpec
=============================================================================
