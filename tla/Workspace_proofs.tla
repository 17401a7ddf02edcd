-------------------------- MODULE Workspace_proofs --------------------------
(***************************************************************************)
(* Proofs about Workspace, for every number of messages, requests and      *)
(* events: at most one message is in flight, and a page nothing disturbed  *)
(* shows what the portal holds, also while its own message is under way.   *)
(***************************************************************************)
EXTENDS Workspace, FiniteSetTheorems, FunctionTheorems, SequenceTheorems, TLAPS

-----------------------------------------------------------------------------
(* Sets of numbers in their order *)

LEMMA RankType ==
    ASSUME NEW S \in SUBSET Int, IsFiniteSet(S), NEW a \in S
    PROVE  Rank(a, S) \in 1..Cardinality(S)
<1> DEFINE B == {b \in S : b <= a}
<1>1. B \subseteq S /\ a \in B
    OBVIOUS
<1>2. IsFiniteSet(B) /\ Cardinality(B) <= Cardinality(S)
    BY <1>1, FS_Subset
<1>3. Cardinality(B) \in Nat /\ Cardinality(S) \in Nat /\ Cardinality(B) # 0
    BY <1>1, <1>2, FS_CardinalityType, FS_EmptySet
<1>4. Rank(a, S) = Cardinality(B)
    BY DEF Rank
<1> QED
    BY <1>2, <1>3, <1>4

LEMMA RankGrows ==
    ASSUME NEW S \in SUBSET Int, IsFiniteSet(S), NEW a \in S, NEW b \in S, a < b
    PROVE  Rank(a, S) < Rank(b, S)
<1> DEFINE A == {c \in S : c <= a}
           B == {c \in S : c <= b}
<1>1. A \subseteq B /\ A # B
    <2>1. a \in Int /\ b \in Int /\ b \in B /\ b \notin A
        OBVIOUS
    <2>2. \A c \in S : c <= a => c <= b
        OBVIOUS
    <2> QED
        BY <2>1, <2>2
<1>2. IsFiniteSet(B)
    BY FS_Subset
<1>3. IsFiniteSet(A) /\ Cardinality(A) <= Cardinality(B) /\ Cardinality(A) # Cardinality(B)
    BY <1>1, <1>2, FS_Subset
<1>4. Cardinality(A) \in Nat /\ Cardinality(B) \in Nat
    BY <1>2, <1>3, FS_CardinalityType
<1>5. Rank(a, S) = Cardinality(A) /\ Rank(b, S) = Cardinality(B)
    BY DEF Rank
<1> QED
    BY <1>3, <1>4, <1>5

LEMMA RankIsOneToOne ==
    ASSUME NEW S \in SUBSET Int, IsFiniteSet(S), NEW a \in S, NEW b \in S,
           Rank(a, S) = Rank(b, S)
    PROVE  a = b
<1>1. Rank(a, S) \in Int /\ Rank(b, S) \in Int
    BY RankType, FS_CardinalityType
<1>2. ~(a < b) /\ ~(b < a)
    BY <1>1, RankGrows
<1>3. a \in Int /\ b \in Int
    OBVIOUS
<1> QED
    BY <1>2, <1>3

LEMMA RankOnto ==
    ASSUME NEW S \in SUBSET Int, IsFiniteSet(S), NEW i \in 1..Cardinality(S)
    PROVE  \E a \in S : Rank(a, S) = i
<1> DEFINE f == [a \in S |-> Rank(a, S)]
           T == 1..Cardinality(S)
<1>1. f \in [S -> T]
    BY RankType
<1>2. f \in Injection(S, T)
    BY <1>1, RankIsOneToOne, Fun_IsInj
<1>3. Cardinality(S) \in Nat
    BY FS_CardinalityType
<1>4. IsFiniteSet(T) /\ Cardinality(T) = Cardinality(S)
    BY <1>3, FS_Interval
<1>5. f \in Surjection(S, T)
    <2> HIDE DEF f, T
    <2> QED
        BY <1>2, <1>4, FS_Injection
<1>6. \E a \in S : f[a] = i
    <2>1. i \in T
        OBVIOUS
    <2> HIDE DEF f, T
    <2> QED
        BY <1>5, <2>1 DEF Surjection
<1> QED
    BY <1>6

\* A finite set of numbers in its order is a sequence of its members, and each
\* stands at its rank.
LEMMA AscendingProperties ==
    ASSUME NEW S \in SUBSET Int, IsFiniteSet(S)
    PROVE  /\ Cardinality(S) \in Nat
           /\ Ascending(S) \in [1..Cardinality(S) -> S]
           /\ \A i \in 1..Cardinality(S) : Rank(Ascending(S)[i], S) = i
           /\ \A a \in S : Rank(a, S) \in 1..Cardinality(S) /\ Ascending(S)[Rank(a, S)] = a
           /\ Ascending(S) \in Seq(S) /\ Len(Ascending(S)) = Cardinality(S)
<1>1. Cardinality(S) \in Nat
    BY FS_CardinalityType
<1>2. \A i \in 1..Cardinality(S) :
        (CHOOSE a \in S : Rank(a, S) = i) \in S /\ Rank(CHOOSE a \in S : Rank(a, S) = i, S) = i
    BY RankOnto
<1>3. Ascending(S) \in [1..Cardinality(S) -> S]
    BY <1>2 DEF Ascending
<1>4. \A i \in 1..Cardinality(S) : Rank(Ascending(S)[i], S) = i
    BY <1>2 DEF Ascending
<1>5. ASSUME NEW a \in S
      PROVE  Rank(a, S) \in 1..Cardinality(S) /\ Ascending(S)[Rank(a, S)] = a
    <2>1. Rank(a, S) \in 1..Cardinality(S)
        BY RankType
    <2>2. Ascending(S)[Rank(a, S)] \in S /\ Rank(Ascending(S)[Rank(a, S)], S) = Rank(a, S)
        BY <1>3, <1>4, <2>1
    <2> QED
        BY <2>1, <2>2, RankIsOneToOne
<1>6. Ascending(S) \in Seq(S)
    BY <1>1, <1>3, SeqDef
<1>7. Len(Ascending(S)) = Cardinality(S)
    BY <1>1, <1>3, <1>6, LenProperties
<1> QED
    BY <1>1, <1>3, <1>4, <1>5, <1>6, <1>7

\* What is in order is the only sequence that has every member at its rank.
LEMMA AscendingIs ==
    ASSUME NEW S \in SUBSET Int, IsFiniteSet(S), NEW s,
           s \in [1..Cardinality(S) -> S], \A i \in 1..Cardinality(S) : Rank(s[i], S) = i
    PROVE  Ascending(S) = s
<1>1. \A i \in 1..Cardinality(S) : Ascending(S)[i] = s[i]
    <2> TAKE i \in 1..Cardinality(S)
    <2>1. Ascending(S)[i] \in S /\ s[i] \in S /\ Rank(Ascending(S)[i], S) = Rank(s[i], S)
        BY AscendingProperties
    <2> QED
        BY <2>1, RankIsOneToOne
<1>2. Ascending(S) \in [1..Cardinality(S) -> S]
    BY AscendingProperties
<1>3. Ascending(S) = [i \in 1..Cardinality(S) |-> Ascending(S)[i]]
      /\ s = [i \in 1..Cardinality(S) |-> s[i]]
    BY <1>2, Zenon
<1> QED
    BY <1>1, <1>3, Zenon

\* A number above all others comes last.
LEMMA AscendingAppend ==
    ASSUME NEW S \in SUBSET Int, IsFiniteSet(S), NEW m \in Int, \A a \in S : a < m
    PROVE  Ascending(S \cup {m}) = Append(Ascending(S), m)
<1> DEFINE T == S \cup {m}
           s == Append(Ascending(S), m)
           k == Cardinality(S)
<1>1. m \notin S /\ T \in SUBSET Int
    OBVIOUS
<1>2. k \in Nat /\ IsFiniteSet(T) /\ Cardinality(T) = k + 1
    BY <1>1, FS_AddElement, FS_CardinalityType
<1>3. /\ Ascending(S) \in Seq(S) /\ Len(Ascending(S)) = k
      /\ \A i \in 1..k : Ascending(S)[i] \in S /\ Rank(Ascending(S)[i], S) = i
    BY AscendingProperties
<1>4. /\ \A i \in 1..k : s[i] = Ascending(S)[i]
      /\ s[k + 1] = m
      /\ s \in [1..(k + 1) -> T]
    <2> HIDE DEF k
    <2>1. Ascending(S) \in Seq(T)
        BY <1>3, SeqMonotonic
    <2>2. s \in Seq(T) /\ Len(s) = k + 1
        BY <1>2, <1>3, <2>1
    <2>3. s \in [1..(k + 1) -> T]
        BY <2>2, LenProperties, Zenon
    <2>4. \A i \in 1..k : s[i] = Ascending(S)[i]
        BY <1>2, <1>3, <2>1
    <2>5. s[k + 1] = m
        BY <1>2, <1>3, <2>1
    <2> QED
        BY <2>3, <2>4, <2>5
<1>5. \A a \in S : Rank(a, T) = Rank(a, S)
    <2> TAKE a \in S
    <2>1. {b \in T : b <= a} = {b \in S : b <= a}
        BY <1>1
    <2> QED
        BY <2>1 DEF Rank
<1>6. Rank(m, T) = k + 1
    <2>1. \A b \in T : b <= m
        OBVIOUS
    <2>2. {b \in T : b <= m} = T
        <3> HIDE DEF T
        <3> QED
            BY <2>1
    <2>3. Rank(m, T) = Cardinality({b \in T : b <= m})
        BY DEF Rank
    <2> QED
        BY <1>2, <2>2, <2>3
<1>7. \A i \in 1..(k + 1) : Rank(s[i], T) = i
    <2> HIDE DEF T, s, k
    <2> TAKE i \in 1..(k + 1)
    <2>1. CASE i = k + 1
        BY <1>4, <1>6, <2>1
    <2>2. CASE i # k + 1
        <3>1. i \in 1..k
            BY <1>2, <2>2
        <3>2. s[i] = Ascending(S)[i] /\ Ascending(S)[i] \in S /\ Rank(Ascending(S)[i], S) = i
            BY <1>3, <1>4, <3>1
        <3> QED
            BY <1>5, <3>2
    <2> QED
        BY <2>1, <2>2
<1> QED
    <2> HIDE DEF T, s, k
    <2>1. Ascending(T) = s
        BY <1>1, <1>2, <1>4, <1>7, AscendingIs
    <2> QED
        BY <2>1 DEF T, s

LEMMA AscendingInterval ==
    ASSUME NEW k \in Nat
    PROVE  Ascending(1..k) = [i \in 1..k |-> i]
<1> DEFINE s == [i \in 1..k |-> i]
<1>1. 1..k \in SUBSET Int /\ IsFiniteSet(1..k) /\ Cardinality(1..k) = k
    BY FS_Interval
<1>2. \A i \in 1..k : Rank(s[i], 1..k) = i
    <2> TAKE i \in 1..k
    <2>1. {b \in 1..k : b <= i} = 1..i
        OBVIOUS
    <2>2. Cardinality(1..i) = i
        BY FS_Interval
    <2> QED
        BY <2>1, <2>2 DEF Rank
<1> QED
    BY <1>1, <1>2, AscendingIs

-----------------------------------------------------------------------------
(* The inductive invariant *)

Overviews == [status: Status, engineers: Nat, confirmed: Nat, pending: Nat, chats: Nat]
ChatViews == [messages: Seq(Int), actions: Seq(Int)]
Key == ({"status"} \X Status) \cup ({"approve", "reject"} \X Member)
        \cup ({"confirm", "cancel"} \X Nat)

ChatType == [state: {"idle", "sent", "stored", "failed", "counting"}, text: Text \cup {Empty},
             turn: Nat, proposes: BOOLEAN, overview: Overviews \cup {None}]
OpType == [state: {"idle", "sent", "done", "failed", "loading"}, key: Key \cup {None}, id: Nat,
           read: [Parts -> {None} \cup ChatViews \cup Overviews \cup SUBSET Member]]

\* What a load has read and the page may show.
ReadOK(op) ==
    /\ op.read["overview"] \in Overviews \cup {None}
    /\ op.read["chat"] # None =>
        /\ op.read["chat"] \in ChatViews
        /\ ToSet(op.read["chat"].messages) \subseteq 1..turns
        /\ ToSet(op.read["chat"].actions) \subseteq 1..turns
    /\ op.read["requests"] # None => op.read["requests"] \subseteq Member

\* A place that was used keeps its text; every committed turn has used one.
Used == {n \in Sends : chats[n] # NoChat /\ chats[n].state # "sent"}

ChatsOK ==
    /\ chats \in [Sends -> ChatType]
    /\ \A n \in Sends :
        /\ chats[n].state # "idle" => chats[n].text \in Text
        /\ chats[n].turn <= turns
        /\ chats[n].state = "stored" => chats[n].turn > 0
        /\ chats[n].state # "counting" => chats[n].overview = None
    /\ turns <= Cardinality(Used)

OpsOK ==
    /\ ops \in [Slot -> OpType]
    /\ \A o \in Slot :
        /\ ops[o].id <= workspaceRequest
        /\ ops[o].state = "sent" => ops[o].key \in Key
        /\ ReadOK(ops[o])

PortalOK ==
    /\ turns \in Nat /\ pending \subseteq 1..turns /\ confirmed \in Nat
    /\ status \in Status
    /\ members \in [Member -> {"none", "request", "invitation", "approved", "rejected",
                              "accepted", "declined"}]

PageOK ==
    /\ overview \in Overviews \cup {None}
    /\ messages \in Seq(Int) /\ ToSet(messages) \subseteq 1..turns \cup {Placeholder(n) : n \in Sends}
    /\ actions \in Seq(Int) /\ ToSet(actions) \subseteq 1..turns
    /\ memberships \subseteq Member
    /\ agentCommand \in Text \cup {Empty}
    /\ error \in BOOLEAN /\ submitting \in BOOLEAN /\ unsure \in BOOLEAN
    /\ workspaceRequest \in Nat /\ events \in 0..MaxEvents

\* At most one message is in flight, exactly while submittingRef is set.
OneAtATime ==
    /\ submitting <=> Chatting
    /\ \A m, n \in Sends : chats[m].state # "idle" /\ chats[n].state # "idle" => m = n

\* Messages are sent from a page that shows the project.
Shown == Chatting => overview # None

\* Nothing disturbed the page: no banner, nothing it was not told of, and no
\* operation whose result it has yet to load.
Calm ==
    /\ ~error /\ ~unsure
    /\ \A o \in Slot : ops[o].state \notin {"sent", "done", "failed"}

\* A load that met no chat in flight meets none.
LoadsMeetNoChat == ~unsure /\ Loading => ~Chatting

Newest(o) == ops[o].state = "loading" /\ ops[o].id = workspaceRequest

\* What the newest load has read is still so.
ReadsAreCurrent ==
    Calm => \A o \in Slot : Newest(o) =>
        \A part \in Parts : ops[o].read[part] \in {None, ReadPart(part)}

\* The page shows what the portal holds.
Exact ==
    /\ overview = Overview
    /\ messages = Chat.messages
    /\ actions = Chat.actions

\* While message n is under way it lacks what the portal has of it, and its
\* placeholder stands in.
ExactBut(n) ==
    /\ chats[n].state \in {"sent", "failed"} =>
        /\ overview = Overview
        /\ messages = Append(Chat.messages, Placeholder(n))
        /\ actions = Chat.actions
    /\ chats[n].state = "stored" =>
        /\ turns > 0 /\ chats[n].turn = turns
        /\ messages = Append([i \in 1..(turns - 1) |-> i], Placeholder(n))
        /\ actions = Ascending(pending \ {turns})
        /\ chats[n].proposes <=> turns \in pending
    /\ chats[n].state = "counting" =>
        /\ messages = Chat.messages
        /\ actions = Chat.actions
        /\ chats[n].overview \in {None, Overview}

\* A calm page that no load is about to replace shows what the portal holds,
\* but for the message under way.
CalmPage ==
    (Calm /\ overview # None /\ \A o \in Slot : ~Newest(o)) =>
        /\ ~Chatting => Exact
        /\ \A n \in Sends : chats[n].state # "idle" => ExactBut(n)
        /\ memberships = Pending

Types == PortalOK /\ PageOK /\ ChatsOK /\ OpsOK

IInv == Types /\ Shown /\ OneAtATime /\ LoadsMeetNoChat /\ ReadsAreCurrent /\ CalmPage

LEMMA SendsSize ==
    ASSUME NEW U \in SUBSET Sends
    PROVE  IsFiniteSet(U) /\ Cardinality(U) \in Nat /\ Cardinality(U) <= MaxSends
<1>1. IsFiniteSet(Sends) /\ Cardinality(Sends) = MaxSends
    BY WorkspaceAssumption, FS_Interval DEF Sends
<1> QED
    BY <1>1, FS_Subset, FS_CardinalityType

LEMMA UsedSize ==
    IsFiniteSet(Used) /\ Cardinality(Used) \in Nat /\ Cardinality(Used) <= MaxSends
<1>1. Used \in SUBSET Sends
    BY DEF Used
<1> QED
    BY <1>1, SendsSize

LEMMA TypesGiveTypeOK == Types => TypeOK
<1> SUFFICES ASSUME Types PROVE TypeOK
    OBVIOUS
<1>1. turns \in 0..MaxSends
    BY UsedSize, WorkspaceAssumption DEF Types, PortalOK, ChatsOK
<1>2. \A n \in Sends : /\ chats[n].state \in {"idle", "sent", "stored", "failed", "counting"}
                       /\ chats[n].text \in Text \cup {Empty} /\ chats[n].turn \in 0..turns
    BY <1>1 DEF Types, PortalOK, ChatsOK, ChatType
<1>3. \A o \in Slot : /\ ops[o].state \in {"idle", "sent", "done", "failed", "loading"}
                      /\ ops[o].id \in 0..workspaceRequest
    BY DEF Types, PageOK, OpsOK, OpType
<1> QED
    BY <1>1, <1>2, <1>3 DEF Types, TypeOK, PortalOK, PageOK

-----------------------------------------------------------------------------
(* What is read, and what the lists on the page become *)

LEMMA AppendType ==
    ASSUME NEW s \in Seq(Int), NEW m \in Int
    PROVE  /\ Append(s, m) \in Seq(Int) /\ ToSet(Append(s, m)) = ToSet(s) \cup {m}
           /\ Len(s) \in Nat /\ DOMAIN Append(s, m) = 1..(Len(s) + 1)
           /\ \A i \in 1..Len(s) : Append(s, m)[i] = s[i]
           /\ Append(s, m)[Len(s) + 1] = m
<1>1. Append(s, m) \in Seq(Int) /\ Len(Append(s, m)) = Len(s) + 1 /\ Len(s) \in Nat
    BY LenProperties
<1>2. DOMAIN s = 1..Len(s) /\ DOMAIN Append(s, m) = 1..(Len(s) + 1)
    BY <1>1, LenProperties
<1>3. \A i \in 1..Len(s) : Append(s, m)[i] = s[i]
    BY <1>1
<1>4. Append(s, m)[Len(s) + 1] = m
    BY <1>1
<1>5. 1..(Len(s) + 1) = 1..Len(s) \cup {Len(s) + 1}
    BY <1>1
<1> QED
    BY <1>1, <1>2, <1>3, <1>4, <1>5 DEF ToSet

LEMMA PendingFinite ==
    ASSUME PortalOK
    PROVE  pending \in SUBSET Int /\ IsFiniteSet(pending)
<1>1. IsFiniteSet(1..turns)
    BY FS_Interval DEF PortalOK
<1>2. pending \in SUBSET (1..turns)
    BY DEF PortalOK
<1>3. IsFiniteSet(pending)
    BY <1>1, <1>2, FS_Subset
<1> QED
    BY <1>2, <1>3

LEMMA ReadTypes ==
    ASSUME PortalOK
    PROVE  /\ Overview \in Overviews
           /\ Chat \in ChatViews
           /\ ToSet(Chat.messages) \subseteq 1..turns /\ ToSet(Chat.actions) \subseteq 1..turns
           /\ Pending \subseteq Member
<1>1. Cardinality(Engineers) \in Nat
    BY WorkspaceAssumption, FS_Subset, FS_CardinalityType DEF Engineers
<1>2. /\ Cardinality(pending) \in Nat
      /\ Ascending(pending) \in [1..Cardinality(pending) -> pending]
      /\ Ascending(pending) \in Seq(pending)
    BY PendingFinite, AscendingProperties
<1>3. Ascending(pending) \in Seq(Int) /\ ToSet(Ascending(pending)) \subseteq 1..turns
    <2>1. Ascending(pending) \in Seq(Int)
        BY <1>2, PendingFinite, SeqMonotonic
    <2>2. ToSet(Ascending(pending)) \subseteq pending
        BY <1>2 DEF ToSet
    <2> QED
        BY <2>1, <2>2 DEF PortalOK
<1>4. [n \in 1..turns |-> n] \in Seq(Int) /\ ToSet([n \in 1..turns |-> n]) \subseteq 1..turns
    <2>1. [n \in 1..turns |-> n] \in [1..turns -> Int]
        OBVIOUS
    <2> QED
        BY <2>1, SeqDef DEF PortalOK, ToSet
<1>5. Overview \in Overviews
    BY <1>1, <1>2 DEF PortalOK, Overview, Overviews
<1>6. Chat.messages = [n \in 1..turns |-> n] /\ Chat.actions = Ascending(pending) /\ Chat \in ChatViews
    BY <1>3, <1>4 DEF Chat, ChatViews
<1>7. Pending \subseteq Member
    BY DEF Pending
<1> QED
    BY <1>3, <1>4, <1>5, <1>6, <1>7

\* The filter keeps members of the list, ...
LEMMA WithoutType ==
    ASSUME messages \in Seq(Int), NEW n
    PROVE  /\ WithoutPlaceholder(n) \in Seq(Int)
           /\ ToSet(WithoutPlaceholder(n)) \subseteq ToSet(messages)
<1> DEFINE K == {i \in DOMAIN messages : messages[i] # Placeholder(n)}
           w == [i \in 1..Cardinality(K) |-> messages[Ascending(K)[i]]]
<1>1. /\ Len(messages) \in Nat /\ DOMAIN messages = 1..Len(messages)
      /\ \A i \in DOMAIN messages : messages[i] \in Int
    BY LenProperties, ElementOfSeq
<1>2. K \in SUBSET Int /\ IsFiniteSet(K) /\ K \subseteq DOMAIN messages
    <2>1. IsFiniteSet(1..Len(messages))
        BY <1>1, FS_Interval
    <2> QED
        BY <1>1, <2>1, FS_Subset
<1> HIDE DEF K
<1>3. /\ Cardinality(K) \in Nat
      /\ Ascending(K) \in [1..Cardinality(K) -> K]
    BY <1>2, AscendingProperties
<1>4. WithoutPlaceholder(n) = w
    <2>1. DOMAIN Ascending(K) = 1..Cardinality(K)
        BY <1>3
    <2> QED
        BY <2>1 DEF WithoutPlaceholder, K
<1>5. w \in [1..Cardinality(K) -> Int]
    BY <1>1, <1>2, <1>3
<1>6. w \in Seq(Int)
    <2> HIDE DEF w
    <2> QED
        BY <1>3, <1>5, SeqDef
<1>7. ToSet(w) \subseteq ToSet(messages)
    BY <1>2, <1>3 DEF ToSet
<1> QED
    BY <1>4, <1>6, <1>7

\* ... and a placeholder that stands last it takes away.
LEMMA WithoutLast ==
    ASSUME NEW k \in Nat, NEW n \in Sends, messages = Append([i \in 1..k |-> i], Placeholder(n))
    PROVE  WithoutPlaceholder(n) = [i \in 1..k |-> i]
<1> DEFINE s == [i \in 1..k |-> i]
           K == {i \in DOMAIN messages : messages[i] # Placeholder(n)}
<1>1. n \in Nat \ {0} /\ Placeholder(n) \in Int /\ Placeholder(n) < 0
    BY DEF Sends, Placeholder
<1>2. s \in [1..k -> Int] /\ s \in Seq(Int) /\ Len(s) = k
    <2>1. s \in [1..k -> Int]
        OBVIOUS
    <2>2. s \in Seq(Int)
        BY <2>1, SeqDef
    <2> QED
        BY <2>1, <2>2, LenProperties
<1>3. /\ DOMAIN messages = 1..(k + 1)
      /\ \A i \in 1..k : messages[i] = i
      /\ messages[k + 1] = Placeholder(n)
    <2>1. messages = Append(s, Placeholder(n)) /\ \A i \in 1..k : s[i] = i
        OBVIOUS
    <2> HIDE DEF s
    <2> QED
        BY <1>1, <1>2, <2>1, AppendType
<1>4. K = 1..k
    BY <1>1, <1>3
<1>5. WithoutPlaceholder(n) = [i \in DOMAIN Ascending(1..k) |-> messages[Ascending(1..k)[i]]]
    BY <1>4 DEF WithoutPlaceholder
<1>6. Ascending(1..k) = s
    BY AscendingInterval
<1>7. WithoutPlaceholder(n) = [i \in 1..k |-> messages[i]]
    BY <1>5, <1>6
<1> QED
    BY <1>3, <1>7

-----------------------------------------------------------------------------
(* The types are kept *)

LEMMA NoOpType == NoOp \in OpType /\ ReadOK(NoOp)
BY DEF NoOp, OpType, ReadOK, Parts

LEMMA NoChatType ==
    /\ NoChat \in ChatType /\ NoChat.state = "idle" /\ NoChat.text = Empty /\ NoChat.turn = 0
    /\ NoChat.proposes = FALSE /\ NoChat.overview = None
BY DEF NoChat, ChatType

LEMMA InitTypes == Init => Types
<1> SUFFICES ASSUME Init PROVE Types
    OBVIOUS
<1>1. PortalOK
    BY DEF Init, PortalOK
<1>2. <<>> \in Seq(Int) /\ ToSet(<<>>) = {}
    BY EmptySeq DEF ToSet
<1>3. PageOK
    <2>1. messages \in Seq(Int) /\ ToSet(messages) = {} /\ actions \in Seq(Int) /\ ToSet(actions) = {}
        BY <1>2, Zenon DEF Init
    <2>2. 0 \in 0..MaxEvents
        BY WorkspaceAssumption
    <2>3. /\ overview = None /\ memberships = {} /\ agentCommand = Empty /\ workspaceRequest = 0
          /\ events = 0 /\ error = FALSE /\ submitting = FALSE /\ unsure = FALSE
        BY DEF Init
    <2> QED
        BY <2>1, <2>2, <2>3 DEF PageOK
<1>4. OpsOK
    BY NoOpType DEF Init, OpsOK, NoOp
<1>5. ChatsOK
    <2>1. \A n \in Sends : chats[n] = NoChat
        BY DEF Init
    <2>2. turns <= Cardinality(Used)
        BY UsedSize DEF Init
    <2>3. chats \in [Sends -> ChatType]
        BY NoChatType DEF Init
    <2>4. \A n \in Sends : chats[n].turn <= turns
        BY <2>1 DEF Init, NoChat
    <2>5. \A n \in Sends : chats[n].overview = None /\ chats[n].state = "idle"
        BY <2>1 DEF NoChat
    <2> QED
        BY <2>2, <2>3, <2>4, <2>5 DEF ChatsOK
<1> QED
    BY <1>1, <1>3, <1>4, <1>5 DEF Types

\* One request changes, the list of messages does not grow.
LEMMA OpsStep ==
    ASSUME Types, turns' = turns, workspaceRequest' \in Nat, workspaceRequest <= workspaceRequest',
           NEW o \in Slot, ops' \in [Slot -> OpType], \A q \in Slot : q # o => ops'[q] = ops[q],
           ops'[o].id <= workspaceRequest', ops'[o].state = "sent" => ops'[o].key \in Key,
           ReadOK(ops[o])'
    PROVE  OpsOK'
<1> SUFFICES ASSUME NEW q \in Slot
             PROVE  /\ ops'[q].id <= workspaceRequest'
                    /\ ops'[q].state = "sent" => ops'[q].key \in Key
                    /\ ReadOK(ops[q])'
    BY DEF OpsOK
<1>1. CASE q = o
    BY <1>1
<1>2. CASE q # o
    <2>1. ops'[q] = ops[q] /\ ops[q].id <= workspaceRequest /\ ReadOK(ops[q])
          /\ (ops[q].state = "sent" => ops[q].key \in Key)
        BY <1>2 DEF Types, OpsOK
    <2>2. ReadOK(ops[q])'
        BY <2>1 DEF ReadOK
    <2>3. ops[q].id \in Nat /\ workspaceRequest \in Nat
        BY DEF Types, OpsOK, OpType, PageOK
    <2> QED
        BY <2>1, <2>2, <2>3
<1> QED
    BY <1>1, <1>2

\* The request is over.
LEMMA OpsFinished ==
    ASSUME Types, turns' = turns, workspaceRequest' = workspaceRequest,
           NEW o \in Slot, ops' = [ops EXCEPT ![o] = NoOp]
    PROVE  OpsOK'
<1>1. ops' \in [Slot -> OpType] /\ ops'[o] = NoOp /\ \A q \in Slot : q # o => ops'[q] = ops[q]
    BY NoOpType DEF Types, OpsOK
<1>2. ReadOK(ops[o])'
    BY <1>1, NoOpType DEF ReadOK, NoOp
<1>3. workspaceRequest \in Nat
    BY DEF Types, PageOK
<1> QED
    BY <1>1, <1>2, <1>3, OpsStep DEF NoOp

\* Only the state of the request changes.
LEMMA OpsMoved ==
    ASSUME Types, turns' = turns, workspaceRequest' = workspaceRequest, NEW o \in Slot,
           NEW st \in {"done", "failed"}, ops' = [ops EXCEPT ![o].state = st]
    PROVE  OpsOK'
<1>1. ops[o] \in OpType /\ ops \in [Slot -> OpType] /\ ops[o].id <= workspaceRequest /\ ReadOK(ops[o])
    BY DEF Types, OpsOK
<1>2. ops'[o] = [ops[o] EXCEPT !.state = st] /\ \A q \in Slot : q # o => ops'[q] = ops[q]
    BY <1>1
<1>3. /\ ops'[o] \in OpType /\ ops'[o].read = ops[o].read /\ ops'[o].id = ops[o].id
      /\ ops'[o].state = st
    BY <1>1, <1>2 DEF OpType
<1>4. ops' \in [Slot -> OpType]
    BY <1>1, <1>3
<1>5. ReadOK(ops[o])'
    BY <1>1, <1>3 DEF ReadOK
<1>6. workspaceRequest \in Nat
    BY DEF Types, PageOK
<1> QED
    BY <1>1, <1>2, <1>3, <1>4, <1>5, <1>6, OpsStep

LEMMA OpsIssued ==
    ASSUME Types, turns' = turns, NEW o \in Slot, NEW key \in Key \cup {None}, Issue(o, key)
    PROVE  /\ OpsOK' /\ workspaceRequest' \in Nat /\ error' = FALSE /\ unsure' \in BOOLEAN
           /\ ops'[o] = [NoOp EXCEPT !.state = "loading", !.key = key, !.id = workspaceRequest']
           /\ \A q \in Slot : q # o => ops'[q] = ops[q]
<1> DEFINE new == [NoOp EXCEPT !.state = "loading", !.key = key, !.id = workspaceRequest']
<1>1. workspaceRequest \in Nat /\ workspaceRequest' = workspaceRequest + 1
    BY DEF Types, PageOK, Issue
<1>2. ops \in [Slot -> OpType] /\ ops' = [ops EXCEPT ![o] = new]
    BY <1>1 DEF Types, OpsOK, Issue
<1>3. /\ new.state = "loading" /\ new.id = workspaceRequest' /\ new.read = NoOp.read
      /\ new \in OpType
    <2>1. workspaceRequest' \in Nat
        BY <1>1
    <2>2. new \in OpType
        BY <2>1, NoOpType DEF OpType
    <2>3. new.state = "loading" /\ new.id = workspaceRequest' /\ new.read = NoOp.read
        BY NoOpType DEF OpType
    <2> QED
        BY <2>2, <2>3
<1>4. ops' \in [Slot -> OpType] /\ ops'[o] = new /\ \A q \in Slot : q # o => ops'[q] = ops[q]
    <2> HIDE DEF new
    <2> QED
        BY <1>2, <1>3
<1>5. ReadOK(ops[o])'
    <2>1. ops'[o].read = NoOp.read
        BY <1>3, <1>4
    <2> QED
        BY <2>1 DEF ReadOK, NoOp, Parts
<1>6. OpsOK'
    <2> HIDE DEF new
    <2> QED
        BY <1>1, <1>3, <1>4, <1>5, OpsStep
<1> QED
    BY <1>1, <1>4, <1>6 DEF Issue, Chatting

\* One message changes; a turn is committed only with a place not used before.
LEMMA ChatsStep ==
    ASSUME Types, NEW n \in Sends, chats' \in [Sends -> ChatType],
           \A m \in Sends : m # n => chats'[m] = chats[m],
           chats'[n].state # "idle" => chats'[n].text \in Text,
           chats'[n].turn <= turns',
           chats'[n].state = "stored" => chats'[n].turn > 0,
           chats'[n].state # "counting" => chats'[n].overview = None,
           n \in Used => n \in Used',
           \/ turns' = turns
           \/ turns' = turns + 1 /\ n \notin Used /\ n \in Used'
    PROVE  ChatsOK'
<1> USE DEF Types
<1>1. Used \subseteq Used' /\ Used' \subseteq Sends
    BY DEF Used
<1>2. Cardinality(Used) <= Cardinality(Used') /\ Cardinality(Used) \in Nat /\ Cardinality(Used') \in Nat
    BY <1>1, SendsSize, FS_Subset
<1>3. turns' <= Cardinality(Used')
    <2>1. turns \in Nat /\ turns <= Cardinality(Used)
        BY DEF PortalOK, ChatsOK
    <2>2. CASE turns' = turns
        BY <1>2, <2>1, <2>2
    <2>3. CASE turns' = turns + 1 /\ n \notin Used /\ n \in Used'
        <3>1. Used # Used' /\ IsFiniteSet(Used')
            BY <1>1, <2>3, SendsSize
        <3>2. Cardinality(Used) # Cardinality(Used')
            BY <1>1, <3>1, FS_Subset
        <3> QED
            BY <1>2, <2>1, <2>3, <3>2
    <2> QED
        BY <2>2, <2>3
<1>4. turns <= turns' /\ turns \in Nat /\ turns' \in Nat
    BY DEF PortalOK
<1>5. ASSUME NEW m \in Sends
      PROVE  /\ chats'[m].state # "idle" => chats'[m].text \in Text
             /\ chats'[m].turn <= turns'
             /\ chats'[m].state = "stored" => chats'[m].turn > 0
             /\ chats'[m].state # "counting" => chats'[m].overview = None
    <2>1. CASE m = n
        BY <2>1
    <2>2. CASE m # n
        <3>1. chats'[m] = chats[m] /\ chats[m].turn \in Nat
            BY <2>2 DEF ChatsOK, ChatType
        <3> QED
            BY <1>4, <3>1 DEF ChatsOK
    <2> QED
        BY <2>1, <2>2
<1> QED
    BY <1>3, <1>5 DEF ChatsOK

LEMMA ChatsMoved ==
    ASSUME Types, turns' = turns, NEW n \in Sends, NEW st \in {"failed", "counting"},
           chats[n].state # "idle", chats[n].state # "counting",
           chats' = [chats EXCEPT ![n].state = st]
    PROVE  /\ ChatsOK'
           /\ chats'[n].state = st /\ chats'[n].turn = chats[n].turn
           /\ chats'[n].proposes = chats[n].proposes /\ chats'[n].overview = chats[n].overview
           /\ \A m \in Sends : m # n => chats'[m] = chats[m]
<1>1. chats \in [Sends -> ChatType] /\ chats[n] \in ChatType
    BY DEF Types, ChatsOK
<1>2. chats'[n] = [chats[n] EXCEPT !.state = st] /\ \A m \in Sends : m # n => chats'[m] = chats[m]
    BY <1>1
<1>3. /\ chats'[n] \in ChatType /\ chats'[n].state = st /\ chats'[n].text = chats[n].text
      /\ chats'[n].turn = chats[n].turn /\ chats'[n].overview = chats[n].overview
      /\ chats'[n].proposes = chats[n].proposes
    BY <1>1, <1>2 DEF ChatType
<1>4. chats' \in [Sends -> ChatType]
    BY <1>1, <1>3
<1>5. n \in Used'
    BY <1>3 DEF Used, NoChat
<1>6. chats[n].text \in Text /\ chats[n].turn <= turns /\ chats[n].overview = None
    BY DEF Types, ChatsOK
<1> QED
    BY <1>2, <1>3, <1>4, <1>5, <1>6, ChatsStep

LEMMA ChatsEnded ==
    ASSUME Types, turns' = turns, NEW n \in Sends, chats[n].state \in {"failed", "counting"},
           EndSubmission(n)
    PROVE  ChatsOK' /\ chats'[n].state = "idle" /\ \A m \in Sends : m # n => chats'[m] = chats[m]
<1>1. chats \in [Sends -> ChatType] /\ chats[n].text \in Text /\ turns \in Nat
    BY DEF Types, ChatsOK, PortalOK
<1> DEFINE new == [NoChat EXCEPT !.text = chats[n].text]
<1>2. new \in ChatType /\ new.text = chats[n].text /\ new.state = "idle" /\ new.turn = 0
      /\ new.overview = None
    <2>1. new \in ChatType /\ new.text = chats[n].text
        BY <1>1, NoChatType DEF ChatType
    <2>2. new.state = NoChat.state /\ new.turn = NoChat.turn /\ new.overview = NoChat.overview
        BY NoChatType DEF ChatType
    <2> QED
        BY <2>1, <2>2, NoChatType
<1>3. chats' = [chats EXCEPT ![n] = new]
    BY DEF EndSubmission
<1> HIDE DEF new
<1>4. chats'[n] = new /\ chats' \in [Sends -> ChatType] /\ \A m \in Sends : m # n => chats'[m] = chats[m]
    BY <1>1, <1>2, <1>3
<1>5. n \in Used'
    <2>1. new # NoChat
        BY <1>1, <1>2, WorkspaceAssumption DEF NoChat
    <2> QED
        BY <1>2, <1>4, <2>1 DEF Used
<1>6. ChatsOK'
    BY <1>1, <1>2, <1>4, <1>5, ChatsStep
<1> QED
    BY <1>2, <1>4, <1>6

\* What is not written is as it was.
LEMMA TypesFrame ==
    ASSUME Types
    PROVE  /\ UNCHANGED <<turns, pending, confirmed, status, members>> => PortalOK'
           /\ turns' = turns /\ chats' = chats => ChatsOK'
           /\ turns' = turns /\ ops' = ops /\ workspaceRequest' = workspaceRequest => OpsOK'
<1>1. UNCHANGED <<turns, pending, confirmed, status, members>> => PortalOK'
    BY DEF Types, PortalOK
<1>2. turns' = turns /\ chats' = chats => ChatsOK'
    BY DEF Types, ChatsOK, Used
<1>3. turns' = turns /\ ops' = ops /\ workspaceRequest' = workspaceRequest => OpsOK'
    BY DEF Types, OpsOK, ReadOK
<1> QED
    BY <1>1, <1>2, <1>3

LEMMA EventType == ASSUME PageOK, Event PROVE events' \in 0..MaxEvents
BY WorkspaceAssumption DEF PageOK, Event

LEMMA ServeTypes ==
    ASSUME Types, NEW o \in Slot, NEW part \in Parts, Serve(o, part)
    PROVE  /\ Types' /\ \A q \in Slot : q # o => ops'[q] = ops[q]
           /\ ops'[o].state = ops[o].state /\ ops'[o].id = ops[o].id
           /\ \A q \in Parts : ops'[o].read[q] = IF q = part THEN ReadPart(part) ELSE ops[o].read[q]
<1>1. ops \in [Slot -> OpType] /\ ops[o] \in OpType /\ ops[o].id <= workspaceRequest /\ ReadOK(ops[o])
      /\ workspaceRequest \in Nat /\ PortalOK
    BY DEF Types, OpsOK, PageOK
<1>2. /\ Overview \in Overviews /\ Chat \in ChatViews /\ Pending \subseteq Member
      /\ ToSet(Chat.messages) \subseteq 1..turns /\ ToSet(Chat.actions) \subseteq 1..turns
    BY <1>1, ReadTypes
<1>3. ReadPart(part) \in Overviews \cup ChatViews \cup SUBSET Member
    BY <1>2 DEF ReadPart, Parts
<1> DEFINE new == [ops[o] EXCEPT !.read[part] = ReadPart(part)]
<1>4. /\ new \in OpType /\ new.state = ops[o].state /\ new.id = ops[o].id
      /\ new.read = [ops[o].read EXCEPT ![part] = ReadPart(part)]
    BY <1>1, <1>3 DEF OpType
<1>5. ops' = [ops EXCEPT ![o] = new]
    BY DEF Serve
<1> HIDE DEF new
<1>6. ops'[o] = new /\ ops' \in [Slot -> OpType] /\ \A q \in Slot : q # o => ops'[q] = ops[q]
    BY <1>1, <1>4, <1>5
<1>7. UNCHANGED <<turns, pending, confirmed, status, members>> /\ workspaceRequest' = workspaceRequest
    BY DEF Serve, portal
<1>8. \A q \in Parts : ops'[o].read[q] = IF q = part THEN ReadPart(part) ELSE ops[o].read[q]
    <2>1. ops'[o].read = [ops[o].read EXCEPT ![part] = ReadPart(part)]
        BY <1>4, <1>6
    <2>2. ops[o].read \in [Parts -> {None} \cup ChatViews \cup Overviews \cup SUBSET Member]
        BY <1>1 DEF OpType
    <2> QED
        BY <2>1, <2>2
<1>9. ReadOK(ops[o])'
    <2>1. "overview" \in Parts /\ "chat" \in Parts /\ "requests" \in Parts
        BY DEF Parts
    <2>2. /\ ReadPart("overview") = Overview /\ ReadPart("chat") = Chat /\ ReadPart("requests") = Pending
        BY DEF ReadPart
    <2> QED
        BY <1>1, <1>2, <1>7, <1>8, <2>1, <2>2 DEF ReadOK
<1>10. OpsOK'
    BY <1>1, <1>4, <1>6, <1>7, <1>9, OpsStep DEF Serve
<1>11. PageOK'
    BY <1>7 DEF Types, PageOK, Serve, page
<1>12. PortalOK' /\ ChatsOK'
    BY <1>7, TypesFrame DEF Serve
<1> QED
    BY <1>4, <1>6, <1>8, <1>10, <1>11, <1>12 DEF Types

LEMMA ApplyTypes ==
    ASSUME Types, NEW o \in Slot, Apply(o)
    PROVE  Types'
<1>1. UNCHANGED <<turns, pending, confirmed, status, members, error, agentCommand, submitting,
                  workspaceRequest, chats, events, unsure>>
    BY DEF Apply, portal
<1>2. OpsOK' /\ PortalOK' /\ ChatsOK'
    BY <1>1, OpsFinished, TypesFrame DEF Apply, Finish
<1>3. CASE Show(o)
    <2>1. ReadOK(ops[o]) /\ \A part \in Parts : ops[o].read[part] # None
        BY DEF Types, OpsOK, Apply
    <2>2. "overview" \in Parts /\ "chat" \in Parts /\ "requests" \in Parts
        BY DEF Parts
    <2>3. /\ overview' \in Overviews
          /\ messages' \in Seq(Int) /\ ToSet(messages') \subseteq 1..turns
          /\ actions' \in Seq(Int) /\ ToSet(actions') \subseteq 1..turns
          /\ memberships' \subseteq Member
        BY <1>3, <2>1, <2>2 DEF Show, ReadOK, ChatViews
    <2> QED
        BY <1>1, <1>2, <2>3 DEF Types, PageOK
<1>4. CASE UNCHANGED page
    BY <1>1, <1>2, <1>4 DEF Types, PageOK, page
<1> QED
    BY <1>3, <1>4 DEF Apply

LEMMA LoadTypes ==
    ASSUME Types, NEW o \in Slot, Open(o) \/ LoadFails(o) \/ Answered(o) \/ Refused(o)
    PROVE  Types'
<1> USE DEF Types
<1>1. CASE Open(o)
    <2>1. UNCHANGED <<turns, pending, confirmed, status, members, overview, messages, actions,
                      memberships, agentCommand, submitting, chats>>
        BY <1>1 DEF Open, portal, page
    <2>2. OpsOK' /\ workspaceRequest' \in Nat /\ error' = FALSE /\ unsure' \in BOOLEAN
        BY <1>1, <2>1, OpsIssued DEF Open
    <2>3. events' \in 0..MaxEvents
        BY <1>1, EventType DEF Open
    <2>4. PageOK'
        BY <2>1, <2>2, <2>3 DEF PageOK
    <2> QED
        BY <2>1, <2>2, <2>4, TypesFrame
<1>2. CASE LoadFails(o)
    <2>1. UNCHANGED <<turns, pending, confirmed, status, members, overview, messages, actions,
                      memberships, agentCommand, submitting, workspaceRequest, chats, unsure>>
        BY <1>2 DEF LoadFails, portal, page
    <2>2. OpsOK'
        BY <1>2, <2>1, OpsFinished DEF LoadFails, Finish
    <2>3. events' \in 0..MaxEvents /\ error' \in BOOLEAN
        BY <1>2, EventType DEF LoadFails, PageOK
    <2>4. PageOK'
        BY <2>1, <2>3 DEF PageOK
    <2> QED
        BY <2>1, <2>2, <2>4, TypesFrame
<1>3. CASE Answered(o)
    <2>1. UNCHANGED <<turns, pending, confirmed, status, members, overview, messages, actions,
                      memberships, agentCommand, submitting, chats, events>>
        BY <1>3 DEF Answered, portal, page
    <2>2. ops[o].key \in Key \cup {None}
        BY DEF OpsOK, OpType
    <2>3. OpsOK' /\ workspaceRequest' \in Nat /\ error' = FALSE /\ unsure' \in BOOLEAN
        BY <1>3, <2>1, <2>2, OpsIssued DEF Answered
    <2>4. PageOK'
        BY <2>1, <2>3 DEF PageOK
    <2> QED
        BY <2>1, <2>3, <2>4, TypesFrame
<1>4. CASE Refused(o)
    <2>1. UNCHANGED <<turns, pending, confirmed, status, members, overview, messages, actions,
                      memberships, agentCommand, submitting, workspaceRequest, chats, events, unsure>>
        BY <1>4 DEF Refused, portal, page
    <2>2. OpsOK' /\ error' = TRUE
        BY <1>4, <2>1, OpsFinished DEF Refused, Finish
    <2>3. PageOK'
        BY <2>1, <2>2 DEF PageOK
    <2> QED
        BY <2>1, <2>2, <2>3, TypesFrame
<1> QED
    BY <1>1, <1>2, <1>3, <1>4

LEMMA OfferedType ==
    ASSUME Types, overview # None
    PROVE  Offered \subseteq Key
<1>1. overview \in Overviews /\ ToSet(actions) \subseteq Nat /\ memberships \subseteq Member
    BY DEF Types, PageOK
<1>2. StatusChoices \subseteq Status
    BY DEF StatusChoices
<1>3. Undecided \subseteq Nat
    BY <1>1 DEF Undecided
<1> QED
    BY <1>1, <1>2, <1>3 DEF Offered, Key

LEMMA OperationTypes ==
    ASSUME Types, NEW o \in Slot,
           (\E key \in Key : Start(o, key)) \/ Handle(o) \/ LoseOp(o)
    PROVE  Types'
<1> USE DEF Types
<1>1. ASSUME NEW key \in Key, Start(o, key)
      PROVE  Types'
    <2>1. UNCHANGED <<turns, pending, confirmed, status, members, overview, messages, actions,
                      memberships, agentCommand, submitting, workspaceRequest, chats, unsure>>
          /\ error' = FALSE
        BY <1>1 DEF Start, portal, page
    <2> DEFINE new == [NoOp EXCEPT !.state = "sent", !.key = key]
    <2>2. new \in OpType /\ new.state = "sent" /\ new.key = key
        BY NoOpType DEF OpType
    <2>3. new.id = NoOp.id /\ new.read = NoOp.read
        BY NoOpType DEF OpType
    <2>4. ops' = [ops EXCEPT ![o] = new] /\ ops \in [Slot -> OpType]
        BY <1>1 DEF Start, OpsOK
    <2> HIDE DEF new
    <2>5. ops'[o] = new /\ ops' \in [Slot -> OpType] /\ \A q \in Slot : q # o => ops'[q] = ops[q]
        BY <2>2, <2>4
    <2>6. ReadOK(ops[o])'
        BY <2>3, <2>5 DEF ReadOK, NoOp, Parts
    <2>7. NoOp.id = 0 /\ workspaceRequest \in Nat
        BY DEF NoOp, PageOK
    <2>8. OpsOK'
        BY <2>1, <2>2, <2>3, <2>5, <2>6, <2>7, OpsStep
    <2>9. PageOK'
        BY <1>1, <2>1, EventType DEF Start, PageOK
    <2> QED
        BY <2>1, <2>8, <2>9, TypesFrame
<1>2. CASE LoseOp(o)
    <2>1. UNCHANGED <<turns, pending, confirmed, status, members, overview, messages, actions,
                      memberships, error, agentCommand, submitting, workspaceRequest, chats, unsure>>
        BY <1>2 DEF LoseOp, portal, page
    <2>2. OpsOK'
        BY <1>2, <2>1, OpsMoved DEF LoseOp
    <2>3. PageOK'
        BY <1>2, <2>1, EventType DEF LoseOp, PageOK
    <2> QED
        BY <2>1, <2>2, <2>3, TypesFrame
<1>3. CASE Handle(o)
    <2>1. UNCHANGED <<turns, overview, messages, actions, memberships, error, agentCommand,
                      submitting, workspaceRequest, chats, events, unsure>>
        BY <1>3 DEF Handle, portal, page, Effect
    <2>2. OpsOK'
        BY <1>3, <2>1, OpsMoved DEF Handle
    <2>3. PageOK' /\ ChatsOK'
        BY <2>1, TypesFrame DEF PageOK
    <2>4. ops[o].key \in Key
        BY <1>3 DEF Handle, OpsOK
    <2>5. ASSUME Effect(ops[o].key)
          PROVE  PortalOK'
        <3> DEFINE key == ops[o].key
        <3>1. key[1] = "status" => key[2] \in Status
            BY <2>4 DEF Key
        <3>2. key[1] \in DOMAIN Decided => key[2] \in Member /\ Decided[key[1]] \in {"approved", "rejected"}
            BY <2>4 DEF Key, Decided
        <3>3. status' \in Status
            BY <2>5, <3>1 DEF Effect, PortalOK
        <3>4. members' \in [Member -> {"none", "request", "invitation", "approved", "rejected",
                              "accepted", "declined"}]
            BY <2>5, <3>2 DEF Effect, PortalOK
        <3>5. pending' \subseteq pending /\ confirmed' \in Nat
            BY <2>5 DEF Effect, PortalOK
        <3> QED
            BY <2>1, <3>3, <3>4, <3>5 DEF PortalOK
    <2>6. PortalOK'
        BY <1>3, <2>5, TypesFrame DEF Handle, portal
    <2> QED
        BY <2>2, <2>3, <2>6
<1> QED
    BY <1>1, <1>2, <1>3

LEMMA PlaceholderType ==
    ASSUME NEW n \in Sends
    PROVE  Placeholder(n) \in Int /\ Placeholder(n) < 0
BY DEF Sends, Placeholder

LEMMA TypingTypes ==
    ASSUME Types, NEW t \in Text \cup {Empty}, Typing(t)
    PROVE  Types'
<1>1. UNCHANGED <<turns, pending, confirmed, status, members, overview, messages, actions,
                  memberships, error, submitting, workspaceRequest, chats, ops, events, unsure>>
    BY DEF Typing, portal, page
<1>2. PageOK'
    BY <1>1 DEF Types, PageOK, Typing
<1> QED
    BY <1>1, <1>2, TypesFrame DEF Types

\* The message goes out with the text of the box and a placeholder.
LEMMA SendTypes ==
    ASSUME Types, NEW n \in Sends, SendCommand(n)
    PROVE  /\ Types' /\ chats'[n].state = "sent"
           /\ \A m \in Sends : m # n => chats'[m] = chats[m]
<1> USE DEF Types
<1>1. UNCHANGED <<turns, pending, confirmed, status, members, overview, actions, memberships,
                  error, workspaceRequest, ops>>
    BY DEF SendCommand, Submit, portal
<1>2. agentCommand \in Text
    BY DEF SendCommand, PageOK
<1> DEFINE new == [NoChat EXCEPT !.state = "sent", !.text = agentCommand]
<1>3. new \in ChatType /\ new.state = "sent" /\ new.text = agentCommand
    BY <1>2, NoChatType DEF ChatType
<1>4. new.turn = NoChat.turn /\ new.overview = NoChat.overview
    BY NoChatType DEF ChatType
<1>5. chats' = [chats EXCEPT ![n] = new] /\ chats \in [Sends -> ChatType]
    BY DEF SendCommand, Submit, ChatsOK
<1> HIDE DEF new
<1>6. chats'[n] = new /\ chats' \in [Sends -> ChatType] /\ \A m \in Sends : m # n => chats'[m] = chats[m]
    BY <1>3, <1>5
<1>7. n \notin Used
    BY DEF Used, SendCommand
<1>8. turns \in Nat
    BY DEF PortalOK
<1>9. ChatsOK'
    BY <1>1, <1>2, <1>3, <1>4, <1>6, <1>7, <1>8, NoChatType, ChatsStep
<1>10. messages' \in Seq(Int)
       /\ ToSet(messages') \subseteq 1..turns \cup {Placeholder(m) : m \in Sends}
    <2>1. messages' = Append(messages, Placeholder(n))
        BY DEF SendCommand, Submit
    <2> QED
        BY <2>1, AppendType, PlaceholderType DEF PageOK
<1>11. /\ submitting' = TRUE /\ agentCommand' = Empty /\ unsure' \in BOOLEAN
       /\ events' \in 0..MaxEvents
    BY EventType DEF SendCommand, Submit, PageOK, Loading
<1>12. PageOK'
    BY <1>1, <1>10, <1>11 DEF PageOK
<1> QED
    BY <1>1, <1>3, <1>6, <1>9, <1>12, TypesFrame

\* The turn is committed.
LEMMA StoreTypes ==
    ASSUME Types, NEW n \in Sends, StoreTurn(n)
    PROVE  /\ Types' /\ turns' = turns + 1
           /\ chats'[n].state = "stored" /\ chats'[n].turn = turns'
           /\ chats'[n].proposes <=> turns' \in pending'
           /\ pending' \ {turns'} = pending
           /\ \A m \in Sends : m # n => chats'[m] = chats[m]
<1> USE DEF Types
<1>1. UNCHANGED <<status, members, overview, messages, actions, memberships, error, agentCommand,
                  submitting, workspaceRequest, ops, events, unsure>>
    BY DEF StoreTurn, page
<1>2. turns' = turns + 1 /\ turns \in Nat /\ pending \subseteq 1..turns /\ confirmed \in Nat
    BY DEF StoreTurn, PortalOK
<1>3. PICK outcome \in {"answer", "proposal", "file"} :
        /\ pending' = IF outcome = "proposal" THEN pending \cup {turns + 1} ELSE pending
        /\ confirmed' = IF outcome = "file" THEN confirmed + 1 ELSE confirmed
        /\ chats' = [chats EXCEPT ![n].state = "stored", ![n].turn = turns + 1,
                                  ![n].proposes = (outcome = "proposal")]
    BY DEF StoreTurn
<1>4. turns + 1 \notin pending
    BY <1>2
<1>5. pending' \subseteq 1..turns' /\ confirmed' \in Nat /\ turns' \in Nat
    BY <1>2, <1>3
<1>6. PortalOK'
    BY <1>1, <1>5 DEF PortalOK
<1>7. chats \in [Sends -> ChatType] /\ chats[n] \in ChatType
    BY DEF ChatsOK
<1> DEFINE new == [chats[n] EXCEPT !.state = "stored", !.turn = turns + 1,
                                   !.proposes = (outcome = "proposal")]
<1>8. /\ new \in ChatType /\ new.state = "stored" /\ new.turn = turns + 1
      /\ new.proposes = (outcome = "proposal")
      /\ new.text = chats[n].text /\ new.overview = chats[n].overview
    <2>1. turns + 1 \in Nat /\ (outcome = "proposal") \in BOOLEAN
        BY <1>2
    <2>2. new \in ChatType
        BY <1>7, <2>1 DEF ChatType
    <2>3. new.state = "stored" /\ new.turn = turns + 1
        BY <1>7 DEF ChatType
    <2>4. new.proposes = (outcome = "proposal")
        BY <1>7 DEF ChatType
    <2>5. new.text = chats[n].text /\ new.overview = chats[n].overview
        BY <1>7 DEF ChatType
    <2> QED
        BY <2>2, <2>3, <2>4, <2>5
<1>9. chats' = [chats EXCEPT ![n] = new]
    BY <1>3, <1>7
<1> HIDE DEF new
<1>10. chats'[n] = new /\ chats' \in [Sends -> ChatType] /\ \A m \in Sends : m # n => chats'[m] = chats[m]
    BY <1>7, <1>8, <1>9
<1>11. chats[n].state = "sent" /\ chats[n].text \in Text /\ chats[n].overview = None
    BY DEF StoreTurn, ChatsOK
<1>12. n \notin Used /\ n \in Used'
    BY <1>8, <1>10, <1>11, NoChatType DEF Used
<1>13. ChatsOK'
    BY <1>2, <1>8, <1>10, <1>11, <1>12, ChatsStep
<1>14. 1..turns \subseteq 1..turns'
    BY <1>2
<1>15. OpsOK'
    BY <1>1, <1>14 DEF OpsOK, ReadOK
<1>16. PageOK'
    BY <1>1, <1>14 DEF PageOK
<1>17. chats'[n].proposes <=> turns' \in pending'
    BY <1>2, <1>3, <1>4, <1>8, <1>10
<1>18. pending' \ {turns'} = pending
    BY <1>2, <1>3, <1>4
<1> QED
    BY <1>2, <1>6, <1>8, <1>10, <1>13, <1>15, <1>16, <1>17, <1>18

LEMMA LoseChatTypes ==
    ASSUME Types, NEW n \in Sends, LoseChat(n)
    PROVE  /\ Types'
           /\ chats'[n].state = "failed" /\ chats'[n].turn = chats[n].turn
           /\ chats'[n].proposes = chats[n].proposes /\ chats'[n].overview = chats[n].overview
           /\ \A m \in Sends : m # n => chats'[m] = chats[m]
<1> USE DEF Types
<1>1. UNCHANGED <<turns, pending, confirmed, status, members, overview, messages, actions,
                  memberships, error, agentCommand, submitting, workspaceRequest, ops>>
    BY DEF LoseChat, portal, page
<1>2. chats[n].state \in {"sent", "stored"} /\ chats' = [chats EXCEPT ![n].state = "failed"]
    BY DEF LoseChat
<1>3. /\ ChatsOK'
      /\ chats'[n].state = "failed" /\ chats'[n].turn = chats[n].turn
      /\ chats'[n].proposes = chats[n].proposes /\ chats'[n].overview = chats[n].overview
      /\ \A m \in Sends : m # n => chats'[m] = chats[m]
    BY <1>1, <1>2, ChatsMoved
<1>4. events' \in 0..MaxEvents /\ unsure' \in BOOLEAN
    BY EventType DEF LoseChat, PageOK
<1>5. PageOK'
    BY <1>1, <1>4 DEF PageOK
<1> QED
    BY <1>1, <1>3, <1>5, TypesFrame

LEMMA ReplyTypes ==
    ASSUME Types, NEW n \in Sends, Reply(n)
    PROVE  /\ Types'
           /\ chats'[n].state = "counting" /\ chats'[n].turn = chats[n].turn
           /\ chats'[n].proposes = chats[n].proposes /\ chats'[n].overview = chats[n].overview
           /\ \A m \in Sends : m # n => chats'[m] = chats[m]
<1> USE DEF Types
<1>1. UNCHANGED <<turns, pending, confirmed, status, members, overview, memberships, error, busy,
                  agentCommand, submitting, workspaceRequest, ops, events, unsure>>
    BY DEF Reply, portal
<1>2. chats[n].state = "stored" /\ chats' = [chats EXCEPT ![n].state = "counting"]
    BY DEF Reply
<1>3. /\ ChatsOK'
      /\ chats'[n].state = "counting" /\ chats'[n].turn = chats[n].turn
      /\ chats'[n].proposes = chats[n].proposes /\ chats'[n].overview = chats[n].overview
      /\ \A m \in Sends : m # n => chats'[m] = chats[m]
    BY <1>1, <1>2, ChatsMoved
<1>4. chats[n].turn \in 1..turns
    BY <1>2 DEF ChatsOK, ChatType, PortalOK
<1>5. messages' \in Seq(Int)
      /\ ToSet(messages') \subseteq 1..turns \cup {Placeholder(m) : m \in Sends}
    <2>1. messages' = Append(WithoutPlaceholder(n), chats[n].turn)
        BY DEF Reply
    <2>2. chats[n].turn \in Int
        BY <1>4
    <2>3. messages \in Seq(Int) /\ ToSet(messages) \subseteq 1..turns \cup {Placeholder(m) : m \in Sends}
        BY DEF PageOK
    <2>4. /\ WithoutPlaceholder(n) \in Seq(Int)
          /\ ToSet(WithoutPlaceholder(n)) \subseteq 1..turns \cup {Placeholder(m) : m \in Sends}
        BY <2>3, WithoutType
    <2>5. messages' \in Seq(Int) /\ ToSet(messages') = ToSet(WithoutPlaceholder(n)) \cup {chats[n].turn}
        BY <2>1, <2>2, <2>4, AppendType
    <2> QED
        BY <1>4, <2>4, <2>5
<1>6. actions' \in Seq(Int) /\ ToSet(actions') \subseteq 1..turns
    <2>1. actions' = actions \/ actions' = Append(actions, chats[n].turn)
        BY DEF Reply
    <2>2. chats[n].turn \in Int
        BY <1>4
    <2>3. actions \in Seq(Int) /\ ToSet(actions) \subseteq 1..turns
        BY DEF PageOK
    <2>4. Append(actions, chats[n].turn) \in Seq(Int)
          /\ ToSet(Append(actions, chats[n].turn)) = ToSet(actions) \cup {chats[n].turn}
        BY <2>2, <2>3, AppendType
    <2> QED
        BY <1>4, <2>1, <2>3, <2>4
<1>7. PageOK'
    BY <1>1, <1>5, <1>6 DEF PageOK
<1> QED
    BY <1>1, <1>3, <1>7, TypesFrame

LEMMA ServeOverviewTypes ==
    ASSUME Types, NEW n \in Sends, ServeOverview(n)
    PROVE  /\ Types' /\ chats'[n].state = "counting" /\ chats'[n].overview = Overview
           /\ \A m \in Sends : m # n => chats'[m] = chats[m]
<1> USE DEF Types
<1>1. UNCHANGED <<turns, pending, confirmed, status, members, overview, messages, actions,
                  memberships, error, busy, agentCommand, submitting, workspaceRequest, ops,
                  events, unsure>>
    BY DEF ServeOverview, portal, page
<1>2. chats[n].state = "counting" /\ chats \in [Sends -> ChatType] /\ chats[n] \in ChatType
    BY DEF ServeOverview, ChatsOK
<1>3. Overview \in Overviews
    BY ReadTypes
<1> DEFINE new == [chats[n] EXCEPT !.overview = Overview]
<1>4. /\ new \in ChatType /\ new.state = "counting" /\ new.text = chats[n].text
      /\ new.turn = chats[n].turn /\ new.overview = Overview
    BY <1>2, <1>3 DEF ChatType
<1>5. chats' = [chats EXCEPT ![n] = new]
    BY DEF ServeOverview
<1> HIDE DEF new
<1>6. chats'[n] = new /\ chats' \in [Sends -> ChatType] /\ \A m \in Sends : m # n => chats'[m] = chats[m]
    BY <1>2, <1>4, <1>5
<1>7. n \in Used'
    BY <1>4, <1>6, NoChatType DEF Used
<1>8. chats[n].text \in Text /\ chats[n].turn <= turns
    BY <1>2 DEF ChatsOK
<1>9. ChatsOK'
    BY <1>1, <1>4, <1>6, <1>7, <1>8, ChatsStep
<1>10. PageOK'
    BY <1>1 DEF PageOK
<1> QED
    BY <1>1, <1>4, <1>6, <1>9, <1>10, TypesFrame

LEMMA EndTypes ==
    ASSUME Types, NEW n \in Sends, Counted(n) \/ ChatFails(n)
    PROVE  /\ Types' /\ chats'[n].state = "idle"
           /\ \A m \in Sends : m # n => chats'[m] = chats[m]
<1> USE DEF Types
<1>1. UNCHANGED <<turns, pending, confirmed, status, members, actions, memberships, error,
                  workspaceRequest, ops>>
    BY DEF Counted, ChatFails, portal
<1>2. chats[n].state \in {"failed", "counting"} /\ EndSubmission(n)
    BY DEF Counted, ChatFails
<1>3. ChatsOK' /\ chats'[n].state = "idle" /\ \A m \in Sends : m # n => chats'[m] = chats[m]
    BY <1>1, <1>2, ChatsEnded
<1>4. chats[n].overview \in Overviews \cup {None} /\ chats[n].text \in Text
    BY <1>2 DEF ChatsOK, ChatType
<1>5. submitting' = FALSE
    BY <1>2 DEF EndSubmission
<1>6. /\ overview' \in Overviews \cup {None}
      /\ events' \in 0..MaxEvents /\ unsure' \in BOOLEAN
    BY <1>4, EventType DEF Counted, ChatFails, PageOK
<1>7. messages' \in Seq(Int) /\ ToSet(messages') \subseteq ToSet(messages)
    BY WithoutType DEF Counted, ChatFails, PageOK
<1>8. agentCommand' \in Text \cup {Empty}
    BY <1>4 DEF Counted, ChatFails, PageOK
<1>9. ToSet(messages) \subseteq 1..turns \cup {Placeholder(m) : m \in Sends}
    BY DEF PageOK
<1>10. PageOK'
    BY <1>1, <1>5, <1>6, <1>7, <1>8, <1>9 DEF PageOK
<1> QED
    BY <1>1, <1>3, <1>10, TypesFrame

LEMMA ElsewhereTypes ==
    ASSUME Types, (\E m \in Member : Join(m)) \/ (\E a \in 1..MaxSends : DecideElsewhere(a))
    PROVE  Types' /\ unsure' = TRUE /\ UNCHANGED <<chats, ops, submitting>>
<1> USE DEF Types
<1>1. UNCHANGED <<turns, confirmed, status, overview, messages, actions, memberships, error,
                  agentCommand, submitting, workspaceRequest, chats, ops>>
      /\ unsure' = TRUE
    BY DEF Join, DecideElsewhere, Elsewhere, page
<1>2. PageOK'
    <2>1. Event
        BY DEF Join, DecideElsewhere, Elsewhere
    <2> QED
        BY <1>1, <2>1, EventType DEF PageOK
<1>3. PortalOK'
    <2>1. ASSUME NEW m \in Member, Join(m)
          PROVE  PortalOK'
        <3>1. pending' = pending
            BY <2>1 DEF Join
        <3>2. members' \in [Member -> {"none", "request", "invitation", "approved", "rejected",
                              "accepted", "declined"}]
            <4>1. PICK s \in {"request", "invitation", "accepted", "declined"} :
                    members' = [members EXCEPT ![m] = s]
                BY <2>1 DEF Join
            <4> QED
                BY <4>1 DEF PortalOK
        <3> QED
            BY <1>1, <3>1, <3>2 DEF PortalOK
    <2>2. ASSUME NEW a \in 1..MaxSends, DecideElsewhere(a)
          PROVE  PortalOK'
        BY <1>1, <2>2 DEF DecideElsewhere, PortalOK
    <2> QED
        BY <2>1, <2>2
<1> QED
    BY <1>1, <1>2, <1>3, TypesFrame

-----------------------------------------------------------------------------
(* The page is kept *)

Safe == OneAtATime /\ LoadsMeetNoChat /\ ReadsAreCurrent /\ CalmPage

LEMMA SameReads ==
    ASSUME UNCHANGED <<turns, pending, confirmed, status, members>>
    PROVE  /\ \A part \in Parts : ReadPart(part)' = ReadPart(part)
           /\ Overview' = Overview /\ Chat' = Chat /\ Pending' = Pending
<1>1. Overview' = Overview /\ Pending' = Pending
    BY DEF Overview, Engineers, Pending
<1>2. Chat' = Chat
    BY DEF Chat, Ascending, Rank
<1> QED
    BY <1>1, <1>2 DEF ReadPart

\* While the portal, the page and the messages stay, so do their relations.
LEMMA SamePage ==
    ASSUME Safe,
           UNCHANGED <<turns, pending, confirmed, status, members, overview, messages, actions,
                       memberships, submitting, chats>>
    PROVE  /\ OneAtATime'
           /\ Chatting' = Chatting
           /\ \A n \in Sends : ExactBut(n)' = ExactBut(n)
           /\ Exact' = Exact
           /\ memberships' = Pending' <=> memberships = Pending
<1>1. Overview' = Overview /\ Chat' = Chat /\ Pending' = Pending
    BY SameReads
<1>2. Chatting' = Chatting
    BY DEF Chatting
<1>3. OneAtATime'
    BY <1>2 DEF Safe, OneAtATime
<1>4. Exact' = Exact
    BY <1>1 DEF Exact
<1>5. ASSUME NEW n \in Sends
      PROVE  ExactBut(n)' = ExactBut(n)
    <2>1. Ascending(pending \ {turns})' = Ascending(pending \ {turns})
        BY DEF Ascending, Rank
    <2> QED
        BY <1>1, <2>1 DEF ExactBut, Placeholder
<1> QED
    BY <1>1, <1>2, <1>3, <1>4, <1>5

\* A fresh load: it has read nothing, and it says whether it met a message.
LEMMA IssueSafe ==
    ASSUME Types, Safe, NEW o \in Slot, NEW key \in Key \cup {None}, Issue(o, key),
           UNCHANGED <<turns, pending, confirmed, status, members, overview, messages, actions,
                       memberships, submitting, chats>>
    PROVE  Safe'
<1>1. OneAtATime' /\ Chatting' = Chatting
    BY SamePage
<1>2. /\ ops'[o] = [NoOp EXCEPT !.state = "loading", !.key = key, !.id = workspaceRequest']
      /\ \A q \in Slot : q # o => ops'[q] = ops[q]
    BY OpsIssued
<1>3. unsure' = Chatting /\ workspaceRequest' = workspaceRequest + 1 /\ workspaceRequest \in Nat
    BY DEF Issue, Types, PageOK
<1>4. LoadsMeetNoChat'
    BY <1>1, <1>3 DEF LoadsMeetNoChat
<1>5. ops'[o].state = "loading" /\ ops'[o].id = workspaceRequest' /\ ops'[o].read = NoOp.read
    BY <1>2 DEF NoOp
<1>6. ReadsAreCurrent'
    <2>1. ASSUME NEW q \in Slot, Newest(q)'
          PROVE  q = o
        <3>1. CASE q # o
            <4>1. ops'[q] = ops[q] /\ ops[q].id <= workspaceRequest /\ ops[q].id \in Nat
                BY <1>2, <3>1 DEF Types, OpsOK, OpType
            <4> QED
                BY <1>3, <2>1, <4>1 DEF Newest
        <3> QED
            BY <3>1
    <2>2. \A part \in Parts : ops'[o].read[part] = None
        BY <1>5 DEF NoOp
    <2> QED
        BY <2>1, <2>2 DEF ReadsAreCurrent
<1>7. CalmPage'
    <2>1. Newest(o)'
        BY <1>5 DEF Newest
    <2> QED
        BY <2>1 DEF CalmPage
<1> QED
    BY <1>1, <1>4, <1>6, <1>7 DEF Safe

\* An operation that begins or is under way: the page is not calm.
LEMMA UncalmSafe ==
    ASSUME Types, Safe, ~Calm', Loading' => Loading, ~unsure' => ~unsure,
           UNCHANGED <<turns, pending, confirmed, status, members, overview, messages, actions,
                       memberships, submitting, chats>>
    PROVE  Safe'
<1>1. OneAtATime' /\ Chatting' = Chatting
    BY SamePage
<1>2. LoadsMeetNoChat'
    BY <1>1 DEF Safe, LoadsMeetNoChat
<1>3. ReadsAreCurrent' /\ CalmPage'
    BY DEF ReadsAreCurrent, CalmPage
<1> QED
    BY <1>1, <1>2, <1>3 DEF Safe

\* One of the reads of a load is answered.
LEMMA ServeSafe ==
    ASSUME Types, Safe, NEW o \in Slot, NEW part \in Parts, Serve(o, part)
    PROVE  Safe'
<1>1. UNCHANGED <<turns, pending, confirmed, status, members, overview, messages, actions,
                  memberships, error, submitting, workspaceRequest, chats, unsure>>
    BY DEF Serve, portal, page
<1>2. /\ \A q \in Slot : q # o => ops'[q] = ops[q]
      /\ ops'[o].state = ops[o].state /\ ops'[o].id = ops[o].id
      /\ \A q \in Parts : ops'[o].read[q] = IF q = part THEN ReadPart(part) ELSE ops[o].read[q]
    BY ServeTypes
<1>3. \A q \in Slot : ops'[q].state = ops[q].state /\ ops'[q].id = ops[q].id
    BY <1>2
<1>4. Calm' = Calm /\ Loading' = Loading /\ \A q \in Slot : Newest(q)' = Newest(q)
    BY <1>1, <1>3 DEF Calm, Loading, Newest
<1>5. \A q \in Parts : ReadPart(q)' = ReadPart(q)
    BY <1>1, SameReads
<1>6. ReadsAreCurrent'
    <2> SUFFICES ASSUME Calm', NEW q \in Slot, Newest(q)', NEW r \in Parts
                 PROVE  ops'[q].read[r] \in {None, ReadPart(r)}
        BY <1>5 DEF ReadsAreCurrent
    <2>1. ops[q].read[r] \in {None, ReadPart(r)}
        BY <1>4 DEF Safe, ReadsAreCurrent
    <2> QED
        BY <1>2, <2>1
<1>7. /\ OneAtATime' /\ Chatting' = Chatting /\ \A n \in Sends : ExactBut(n)' = ExactBut(n)
      /\ Exact' = Exact /\ (memberships' = Pending' <=> memberships = Pending)
    BY <1>1, SamePage
<1>8. LoadsMeetNoChat'
    BY <1>1, <1>4, <1>7 DEF Safe, LoadsMeetNoChat
<1>9. CalmPage'
    BY <1>1, <1>4, <1>7 DEF Safe, CalmPage
<1> QED
    BY <1>6, <1>7, <1>8, <1>9 DEF Safe

\* A load ends.  What the page then shows is what it showed, or what the newest
\* load has read.
LEMMA ApplySafe ==
    ASSUME Types, Safe, NEW o \in Slot, Apply(o)
    PROVE  Safe'
<1>1. UNCHANGED <<turns, pending, confirmed, status, members, error, submitting,
                  workspaceRequest, chats, unsure>>
    BY DEF Apply, portal
<1>2. /\ \A q \in Slot : q # o => ops'[q] = ops[q]
      /\ ops'[o].state = "idle" /\ ops[o].state = "loading"
    <2>1. ops' = [ops EXCEPT ![o] = NoOp] /\ ops \in [Slot -> OpType]
        BY DEF Apply, Finish, Types, OpsOK
    <2> QED
        BY <2>1 DEF NoOp, Apply
<1>3. Calm' = Calm /\ (Loading' => Loading) /\ \A q \in Slot : Newest(q)' <=> (q # o /\ Newest(q))
    <2>1. \A q \in Slot : ops'[q].state = "loading" => q # o
        BY <1>2
    <2>2. \A q \in Slot : ops'[q].state \in {"sent", "done", "failed"} <=>
                          ops[q].state \in {"sent", "done", "failed"}
        BY <1>2
    <2>3. Calm' = Calm
        BY <1>1, <2>2 DEF Calm
    <2>4. Loading' => Loading
        BY <1>2 DEF Loading
    <2>5. \A q \in Slot : Newest(q)' <=> (q # o /\ Newest(q))
        BY <1>1, <1>2 DEF Newest
    <2> QED
        BY <2>3, <2>4, <2>5
<1>4. Chatting' = Chatting /\ OneAtATime'
    BY <1>1 DEF Safe, OneAtATime, Chatting
<1>5. LoadsMeetNoChat'
    BY <1>1, <1>3, <1>4 DEF Safe, LoadsMeetNoChat
<1>6. \A q \in Parts : ReadPart(q)' = ReadPart(q)
    BY <1>1, SameReads
<1>7. ReadsAreCurrent'
    <2> SUFFICES ASSUME Calm', NEW q \in Slot, Newest(q)', NEW r \in Parts
                 PROVE  ops'[q].read[r] \in {None, ReadPart(r)}
        BY <1>6 DEF ReadsAreCurrent
    <2>1. ops'[q] = ops[q] /\ Newest(q)
        BY <1>2, <1>3
    <2>2. ops[q].read[r] \in {None, ReadPart(r)}
        BY <1>3, <2>1 DEF Safe, ReadsAreCurrent
    <2> QED
        BY <2>1, <2>2
<1>8. CASE ops[o].id = workspaceRequest /\ Show(o)
    <2> SUFFICES ASSUME Calm' PROVE CalmPage'
        BY <1>4, <1>5, <1>7 DEF Safe, CalmPage
    <2>1. ~Chatting'
        <3>1. Loading /\ ~unsure
            BY <1>2, <1>3 DEF Loading, Calm
        <3> QED
            BY <1>4, <3>1 DEF Safe, LoadsMeetNoChat
    <2>2. \A part \in Parts : ops[o].read[part] = ReadPart(part)
        <3>1. Newest(o)
            BY <1>2, <1>8 DEF Newest
        <3> QED
            BY <1>3, <3>1 DEF Safe, ReadsAreCurrent, Apply
    <2>3. overview' = Overview /\ messages' = Chat.messages /\ actions' = Chat.actions
          /\ memberships' = Pending
        <3>1. "overview" \in Parts /\ "chat" \in Parts /\ "requests" \in Parts
            BY DEF Parts
        <3>2. /\ ReadPart("overview") = Overview /\ ReadPart("chat") = Chat
              /\ ReadPart("requests") = Pending
            BY DEF ReadPart
        <3> QED
            BY <1>8, <2>2, <3>1, <3>2 DEF Show
    <2>4. Exact' /\ memberships' = Pending'
        BY <1>1, <2>3, SameReads DEF Exact
    <2> QED
        BY <2>1, <2>4 DEF CalmPage, Chatting
<1>9. CASE ops[o].id # workspaceRequest /\ UNCHANGED page
    <2>1. ~Newest(o) /\ UNCHANGED <<overview, messages, actions, memberships>>
        BY <1>9 DEF Newest, page
    <2>2. \A q \in Slot : Newest(q)' <=> Newest(q)
        BY <1>3, <2>1
    <2>3. /\ \A n \in Sends : ExactBut(n)' = ExactBut(n)
          /\ Exact' = Exact /\ (memberships' = Pending' <=> memberships = Pending)
        BY <1>1, <2>1, SamePage
    <2>4. CalmPage'
        BY <1>1, <1>3, <1>4, <2>1, <2>2, <2>3 DEF Safe, CalmPage
    <2> QED
        BY <1>4, <1>5, <1>7, <2>4 DEF Safe
<1> QED
    BY <1>8, <1>9 DEF Apply

\* A load fails, or an operation is refused: the page says so, unless the load
\* was not the newest.
LEMMA LoadFailsSafe ==
    ASSUME Types, Safe, NEW o \in Slot, LoadFails(o)
    PROVE  Safe'
<1>1. UNCHANGED <<turns, pending, confirmed, status, members, overview, messages, actions,
                  memberships, submitting, workspaceRequest, chats, unsure>>
    BY DEF LoadFails, portal, page
<1>2. /\ \A q \in Slot : q # o => ops'[q] = ops[q]
      /\ ops'[o].state = "idle" /\ ops[o].state = "loading"
    <2>1. ops' = [ops EXCEPT ![o] = NoOp] /\ ops \in [Slot -> OpType]
        BY DEF LoadFails, Finish, Types, OpsOK
    <2> QED
        BY <2>1 DEF NoOp, LoadFails
<1>3. Loading' => Loading
    BY <1>2 DEF Loading
<1>4. CASE error'
    <2>1. ~Calm'
        BY <1>4 DEF Calm
    <2> QED
        BY <1>1, <1>3, <2>1, UncalmSafe
<1>5. CASE ~error'
    <2>1. ~Newest(o) /\ ~error
        BY <1>5 DEF LoadFails, Newest
    <2>2. \A q \in Slot : Newest(q)' <=> Newest(q)
        BY <1>1, <1>2, <2>1 DEF Newest
    <2>3. Calm' <=> Calm
        BY <1>1, <1>2, <1>5, <2>1 DEF Calm
    <2>4. \A q \in Parts : ReadPart(q)' = ReadPart(q)
        BY <1>1, SameReads
    <2>5. ReadsAreCurrent'
        <3> SUFFICES ASSUME Calm', NEW q \in Slot, Newest(q)', NEW r \in Parts
                     PROVE  ops'[q].read[r] \in {None, ReadPart(r)}
            BY <2>4 DEF ReadsAreCurrent
        <3>1. Newest(q) /\ q # o
            BY <2>1, <2>2
        <3>2. ops'[q] = ops[q] /\ ops[q].read[r] \in {None, ReadPart(r)}
            BY <1>2, <2>3, <3>1 DEF Safe, ReadsAreCurrent
        <3> QED
            BY <3>2
    <2>6. /\ OneAtATime' /\ Chatting' = Chatting /\ \A n \in Sends : ExactBut(n)' = ExactBut(n)
          /\ Exact' = Exact /\ (memberships' = Pending' <=> memberships = Pending)
        BY <1>1, SamePage
    <2>7. LoadsMeetNoChat'
        BY <1>1, <1>3, <2>6 DEF Safe, LoadsMeetNoChat
    <2>8. CalmPage'
        BY <1>1, <2>2, <2>3, <2>6 DEF Safe, CalmPage
    <2> QED
        BY <2>5, <2>6, <2>7, <2>8 DEF Safe
<1> QED
    BY <1>4, <1>5

LEMMA RefusedSafe ==
    ASSUME Types, Safe, NEW o \in Slot, Refused(o)
    PROVE  Safe'
<1>1. UNCHANGED <<turns, pending, confirmed, status, members, overview, messages, actions,
                  memberships, submitting, chats, unsure>> /\ error' = TRUE
    BY DEF Refused, portal, page
<1>2. ~Calm'
    BY <1>1 DEF Calm
<1>3. Loading' => Loading
    <2>1. ops' = [ops EXCEPT ![o] = NoOp] /\ ops \in [Slot -> OpType]
        BY DEF Refused, Finish, Types, OpsOK
    <2> QED
        BY <2>1 DEF Loading, NoOp
<1> QED
    BY <1>1, <1>2, <1>3, UncalmSafe

LEMMA OperationSafe ==
    ASSUME Types, Safe, NEW o \in Slot,
           (\E key \in Key : Start(o, key)) \/ LoseOp(o)
    PROVE  Safe'
<1>1. UNCHANGED <<turns, pending, confirmed, status, members, overview, messages, actions,
                  memberships, submitting, chats, unsure>>
    BY DEF Start, LoseOp, portal, page
<1>2. ops \in [Slot -> OpType] /\ ops[o] \in OpType
    BY DEF Types, OpsOK
<1>3. ops'[o].state \in {"sent", "failed"} /\ \A q \in Slot : q # o => ops'[q] = ops[q]
    <2>1. ASSUME NEW key \in Key, Start(o, key)
          PROVE  ops'[o].state = "sent" /\ \A q \in Slot : q # o => ops'[q] = ops[q]
        BY <1>2, <2>1 DEF Start, NoOp
    <2>2. CASE LoseOp(o)
        BY <1>2, <2>2 DEF LoseOp, OpType
    <2> QED
        BY <2>1, <2>2
<1>4. ~Calm'
    BY <1>3 DEF Calm
<1>5. Loading' => Loading
    BY <1>3 DEF Loading
<1> QED
    BY <1>1, <1>4, <1>5, UncalmSafe

\* The portal handles an operation: until the page has loaded the result, it is
\* not calm.
LEMMA HandleSafe ==
    ASSUME Types, Safe, NEW o \in Slot, Handle(o)
    PROVE  Safe'
<1>1. UNCHANGED <<overview, messages, actions, memberships, submitting, chats, unsure>>
    BY DEF Handle, page
<1>2. ops \in [Slot -> OpType] /\ ops[o] \in OpType
    BY DEF Types, OpsOK
<1>3. ops'[o].state \in {"done", "failed"} /\ \A q \in Slot : q # o => ops'[q] = ops[q]
    BY <1>2 DEF Handle, OpType
<1>4. ~Calm'
    BY <1>3 DEF Calm
<1>5. Loading' => Loading
    BY <1>3 DEF Loading
<1>6. OneAtATime' /\ Chatting' = Chatting
    BY <1>1 DEF Safe, OneAtATime, Chatting
<1>7. LoadsMeetNoChat'
    BY <1>1, <1>5, <1>6 DEF Safe, LoadsMeetNoChat
<1> QED
    BY <1>4, <1>6, <1>7 DEF Safe, ReadsAreCurrent, CalmPage

LEMMA ElsewhereSafe ==
    ASSUME Types, Safe, unsure' = TRUE, UNCHANGED <<chats, ops, submitting>>
    PROVE  Safe'
BY DEF Safe, OneAtATime, Chatting, LoadsMeetNoChat, ReadsAreCurrent, CalmPage, Calm

LEMMA TypingSafe ==
    ASSUME Types, Safe,
           UNCHANGED <<turns, pending, confirmed, status, members, overview, messages, actions,
                       memberships, error, submitting, workspaceRequest, chats, ops, unsure>>
    PROVE  Safe'
<1>1. /\ OneAtATime' /\ Chatting' = Chatting /\ \A n \in Sends : ExactBut(n)' = ExactBut(n)
      /\ Exact' = Exact /\ (memberships' = Pending' <=> memberships = Pending)
    BY SamePage
<1>2. (Calm' <=> Calm) /\ (Loading' <=> Loading) /\ \A q \in Slot : Newest(q)' <=> Newest(q)
    BY DEF Calm, Loading, Newest
<1>3. \A q \in Parts : ReadPart(q)' = ReadPart(q)
    BY SameReads
<1>4. LoadsMeetNoChat'
    BY <1>1, <1>2 DEF Safe, LoadsMeetNoChat
<1>5. ReadsAreCurrent'
    BY <1>2, <1>3 DEF Safe, ReadsAreCurrent
<1>6. CalmPage'
    BY <1>1, <1>2 DEF Safe, CalmPage
<1> QED
    BY <1>1, <1>4, <1>5, <1>6 DEF Safe

\* A calm page whose message is under way waits for no load.
LEMMA CalmChat ==
    ASSUME Safe, Calm, NEW n \in Sends, chats[n].state # "idle"
    PROVE  /\ ~Loading /\ \A o \in Slot : ~Newest(o)
           /\ overview # None => ExactBut(n) /\ memberships = Pending
<1>1. Chatting /\ ~unsure
    BY DEF Chatting, Calm
<1>2. ~Loading
    BY <1>1 DEF Safe, LoadsMeetNoChat
<1>3. \A o \in Slot : ~Newest(o)
    BY <1>2 DEF Newest, Loading
<1> QED
    BY <1>2, <1>3 DEF Safe, CalmPage

LEMMA ChatStep ==
    ASSUME Types, Safe, NEW n \in Sends, chats[n].state # "idle", chats'[n].state # "idle",
           \A m \in Sends : m # n => chats'[m] = chats[m],
           UNCHANGED <<ops, submitting, error, workspaceRequest>>, unsure => unsure',
           Calm /\ Calm' /\ overview' # None => ExactBut(n)' /\ memberships' = Pending'
    PROVE  Safe'
<1>1. \A m \in Sends : chats[m].state # "idle" => m = n
    BY DEF Safe, OneAtATime
<1>2. Chatting /\ Chatting'
    BY DEF Chatting
<1>3. OneAtATime'
    BY <1>1, <1>2 DEF Safe, OneAtATime
<1>4. LoadsMeetNoChat'
    BY <1>2 DEF Safe, LoadsMeetNoChat, Loading
<1>5. Calm' => Calm
    BY DEF Calm
<1>6. Calm' => \A o \in Slot : ~Newest(o)'
    BY <1>5, CalmChat DEF Newest
<1>7. ReadsAreCurrent'
    BY <1>6 DEF ReadsAreCurrent
<1>8. CalmPage'
    <2> SUFFICES ASSUME Calm', overview' # None
                 PROVE  /\ \A m \in Sends : chats'[m].state # "idle" => ExactBut(m)'
                        /\ memberships' = Pending'
        BY <1>2 DEF CalmPage
    <2> QED
        BY <1>1, <1>5
<1> QED
    BY <1>3, <1>4, <1>7, <1>8 DEF Safe

\* A message that ends leaves the page exact.
LEMMA ChatEnd ==
    ASSUME Types, Safe, NEW n \in Sends, chats[n].state # "idle", chats'[n].state = "idle",
           \A m \in Sends : m # n => chats'[m] = chats[m],
           UNCHANGED <<ops, error, workspaceRequest>>, ~submitting', unsure => unsure',
           Calm /\ Calm' /\ overview' # None => Exact' /\ memberships' = Pending'
    PROVE  Safe'
<1>1. \A m \in Sends : chats[m].state # "idle" => m = n
    BY DEF Safe, OneAtATime
<1>2. \A m \in Sends : chats'[m].state = "idle"
    BY <1>1
<1>3. ~Chatting'
    BY <1>2 DEF Chatting
<1>4. OneAtATime'
    BY <1>2, <1>3 DEF OneAtATime
<1>5. LoadsMeetNoChat'
    BY <1>3 DEF LoadsMeetNoChat
<1>6. Calm' => Calm
    BY DEF Calm
<1>7. Calm' => \A o \in Slot : ~Newest(o)'
    BY <1>6, CalmChat DEF Newest
<1>8. ReadsAreCurrent'
    BY <1>7 DEF ReadsAreCurrent
<1>9. CalmPage'
    BY <1>2, <1>6 DEF CalmPage
<1> QED
    BY <1>4, <1>5, <1>8, <1>9 DEF Safe

LEMMA SendSafe ==
    ASSUME Types, Safe, NEW n \in Sends, SendCommand(n)
    PROVE  Safe'
<1>1. UNCHANGED <<turns, pending, confirmed, status, members, overview, actions, memberships,
                  error, workspaceRequest, ops>>
      /\ overview # None /\ ~submitting /\ submitting' = TRUE
      /\ messages' = Append(messages, Placeholder(n)) /\ (unsure' <=> unsure \/ Loading)
    BY DEF SendCommand, Submit, portal, Loading, Types, PageOK
<1>2. chats'[n].state = "sent" /\ \A m \in Sends : m # n => chats'[m] = chats[m]
    BY SendTypes
<1>3. \A m \in Sends : chats[m].state = "idle"
    BY <1>1 DEF Safe, OneAtATime, Chatting
<1>4. OneAtATime'
    BY <1>1, <1>2, <1>3 DEF OneAtATime, Chatting
<1>5. Loading' <=> Loading
    BY <1>1 DEF Loading
<1>6. LoadsMeetNoChat'
    BY <1>1, <1>5 DEF LoadsMeetNoChat
<1>7. Calm' => /\ Calm
               /\ \A o \in Slot : ~Newest(o) /\ ~Newest(o)'
    BY <1>1 DEF Calm, Loading, Newest
<1>8. ReadsAreCurrent'
    BY <1>7 DEF ReadsAreCurrent
<1>9. CalmPage'
    <2> SUFFICES ASSUME Calm'
                 PROVE  ExactBut(n)' /\ memberships' = Pending' /\ Chatting'
        BY <1>2, <1>3 DEF CalmPage
    <2>1. ~Chatting
        BY <1>3 DEF Chatting
    <2>2. Exact /\ memberships = Pending
        BY <1>1, <1>7, <2>1 DEF Safe, CalmPage
    <2>3. Overview' = Overview /\ Chat' = Chat /\ Pending' = Pending
        BY <1>1, SameReads
    <2>4. ExactBut(n)'
        BY <1>1, <1>2, <2>2, <2>3 DEF Exact, ExactBut, Placeholder
    <2> QED
        BY <1>1, <1>2, <2>2, <2>3, <2>4 DEF Chatting
<1> QED
    BY <1>4, <1>6, <1>8, <1>9 DEF Safe

LEMMA StoreSafe ==
    ASSUME Types, Safe, NEW n \in Sends, StoreTurn(n)
    PROVE  Safe'
<1>1. UNCHANGED <<status, members, overview, messages, actions, memberships, error, submitting,
                  workspaceRequest, ops, unsure>>
    BY DEF StoreTurn, page
<1>2. /\ turns' = turns + 1 /\ chats'[n].state = "stored" /\ chats'[n].turn = turns'
      /\ (chats'[n].proposes <=> turns' \in pending') /\ pending' \ {turns'} = pending
      /\ \A m \in Sends : m # n => chats'[m] = chats[m]
    BY StoreTypes
<1>3. chats[n].state = "sent" /\ turns \in Nat
    BY DEF StoreTurn, Types, PortalOK
<1>4. ASSUME Calm, overview # None
      PROVE  ExactBut(n)' /\ memberships' = Pending'
    <2>1. ExactBut(n) /\ memberships = Pending
        BY <1>3, <1>4, CalmChat
    <2>2. /\ messages = Append([i \in 1..turns |-> i], Placeholder(n))
          /\ actions = Ascending(pending)
        BY <1>3, <2>1 DEF ExactBut, Chat
    <2>3. turns' - 1 = turns /\ turns' > 0
        BY <1>2, <1>3
    <2>4. messages' = Append([i \in 1..(turns' - 1) |-> i], Placeholder(n))
        BY <1>1, <2>2, <2>3
    <2>5. Ascending(pending' \ {turns'}) = Ascending(pending)
        BY <1>2
    <2>6. (Ascending(pending \ {turns}))' = Ascending(pending' \ {turns'})
        BY DEF Ascending, Rank
    <2>7. ExactBut(n)'
        BY <1>1, <1>2, <2>2, <2>3, <2>4, <2>5, <2>6 DEF ExactBut, Placeholder
    <2> QED
        BY <1>1, <2>1, <2>7 DEF Pending
<1> QED
    BY <1>1, <1>2, <1>3, <1>4, ChatStep

LEMMA LoseChatSafe ==
    ASSUME Types, Safe, NEW n \in Sends, LoseChat(n)
    PROVE  Safe'
<1>1. UNCHANGED <<turns, pending, confirmed, status, members, overview, messages, actions,
                  memberships, error, submitting, workspaceRequest, ops>>
      /\ (unsure' <=> unsure \/ chats[n].state = "stored")
    BY DEF LoseChat, portal, page, Types, PageOK
<1>2. chats'[n].state = "failed" /\ \A m \in Sends : m # n => chats'[m] = chats[m]
    BY LoseChatTypes
<1>3. chats[n].state \in {"sent", "stored"}
    BY DEF LoseChat
<1>4. ASSUME Calm, Calm', overview # None
      PROVE  ExactBut(n)' /\ memberships' = Pending'
    <2>1. chats[n].state = "sent"
        BY <1>1, <1>3, <1>4 DEF Calm
    <2>2. ExactBut(n) /\ memberships = Pending
        BY <2>1, <1>4, CalmChat
    <2>3. Overview' = Overview /\ Chat' = Chat /\ Pending' = Pending
        BY <1>1, SameReads
    <2>4. ExactBut(n)'
        BY <1>1, <1>2, <2>1, <2>2, <2>3 DEF ExactBut, Placeholder
    <2> QED
        BY <1>1, <2>2, <2>3, <2>4
<1> QED
    BY <1>1, <1>2, <1>3, <1>4, ChatStep

\* The answer replaces the placeholder, and its change comes last.
LEMMA ReplySafe ==
    ASSUME Types, Safe, NEW n \in Sends, Reply(n)
    PROVE  Safe'
<1>1. UNCHANGED <<turns, pending, confirmed, status, members, overview, memberships, error,
                  submitting, workspaceRequest, ops, unsure>>
    BY DEF Reply, portal
<1>2. /\ chats'[n].state = "counting" /\ chats'[n].overview = chats[n].overview
      /\ \A m \in Sends : m # n => chats'[m] = chats[m]
    BY ReplyTypes
<1>3. chats[n].state = "stored" /\ turns \in Nat /\ chats[n].overview = None
    BY DEF Reply, Types, PortalOK, ChatsOK
<1>4. ASSUME Calm, overview # None
      PROVE  ExactBut(n)' /\ memberships' = Pending'
    <2>1. ExactBut(n) /\ memberships = Pending
        BY <1>3, <1>4, CalmChat
    <2>2. /\ turns > 0 /\ chats[n].turn = turns
          /\ messages = Append([i \in 1..(turns - 1) |-> i], Placeholder(n))
          /\ actions = Ascending(pending \ {turns})
          /\ chats[n].proposes <=> turns \in pending
        BY <1>3, <2>1 DEF ExactBut
    <2>3. messages' = Append([i \in 1..(turns - 1) |-> i], turns)
        <3>1. turns - 1 \in Nat
            BY <1>3, <2>2
        <3>2. WithoutPlaceholder(n) = [i \in 1..(turns - 1) |-> i]
            BY <2>2, <3>1, WithoutLast
        <3> QED
            BY <2>2, <3>2 DEF Reply
    <2>4. Append([i \in 1..(turns - 1) |-> i], turns) = [i \in 1..turns |-> i]
        <3>1. turns - 1 \in Nat /\ (1..(turns - 1)) \cup {turns} = 1..turns
            BY <1>3, <2>2
        <3>2. Ascending(1..(turns - 1)) = [i \in 1..(turns - 1) |-> i]
            BY <3>1, AscendingInterval
        <3>3. Ascending(1..turns) = [i \in 1..turns |-> i]
            BY <1>3, AscendingInterval
        <3>4. Ascending((1..(turns - 1)) \cup {turns}) = Append(Ascending(1..(turns - 1)), turns)
            <4>1. 1..(turns - 1) \in SUBSET Int /\ IsFiniteSet(1..(turns - 1))
                BY <3>1, FS_Interval
            <4>2. \A a \in 1..(turns - 1) : a < turns
                BY <1>3
            <4> QED
                BY <1>3, <4>1, <4>2, AscendingAppend
        <3> QED
            BY <3>1, <3>2, <3>3, <3>4
    <2>5. actions' = Ascending(pending)
        <3>1. pending \in SUBSET Int /\ IsFiniteSet(pending) /\ pending \subseteq 1..turns
            BY PendingFinite DEF Types, PortalOK
        <3>2. CASE turns \in pending
            <4> DEFINE P == pending \ {turns}
            <4>1. P \in SUBSET Int /\ IsFiniteSet(P) /\ P \cup {turns} = pending
                BY <3>1, <3>2, FS_Subset
            <4>2. \A a \in P : a < turns
                BY <1>3, <3>1
            <4>3. Ascending(P \cup {turns}) = Append(Ascending(P), turns)
                <5> HIDE DEF P
                <5> QED
                    BY <1>3, <4>1, <4>2, AscendingAppend
            <4>4. actions' = Append(actions, turns)
                BY <2>2, <3>2 DEF Reply
            <4> QED
                BY <2>2, <4>1, <4>3, <4>4
        <3>3. CASE turns \notin pending
            <4>1. actions' = actions /\ pending \ {turns} = pending
                BY <2>2, <3>3 DEF Reply
            <4> QED
                BY <2>2, <4>1
        <3> QED
            BY <3>2, <3>3
    <2>6. Overview' = Overview /\ Chat' = Chat /\ Pending' = Pending
        BY <1>1, SameReads
    <2>7. messages' = Chat.messages /\ actions' = Chat.actions
        BY <2>3, <2>4, <2>5 DEF Chat
    <2>8. ExactBut(n)'
        BY <1>2, <1>3, <2>6, <2>7 DEF ExactBut
    <2> QED
        BY <1>1, <2>1, <2>6, <2>8
<1> QED
    BY <1>1, <1>2, <1>3, <1>4, ChatStep

LEMMA ServeOverviewSafe ==
    ASSUME Types, Safe, NEW n \in Sends, ServeOverview(n)
    PROVE  Safe'
<1>1. UNCHANGED <<turns, pending, confirmed, status, members, overview, messages, actions,
                  memberships, error, submitting, workspaceRequest, ops, unsure>>
    BY DEF ServeOverview, portal, page
<1>2. /\ chats'[n].state = "counting" /\ chats'[n].overview = Overview
      /\ \A m \in Sends : m # n => chats'[m] = chats[m]
    BY ServeOverviewTypes
<1>3. chats[n].state = "counting"
    BY DEF ServeOverview
<1>4. ASSUME Calm, overview # None
      PROVE  ExactBut(n)' /\ memberships' = Pending'
    <2>1. ExactBut(n) /\ memberships = Pending
        BY <1>3, <1>4, CalmChat
    <2>2. Overview' = Overview /\ Chat' = Chat /\ Pending' = Pending
        BY <1>1, SameReads
    <2>3. ExactBut(n)'
        BY <1>1, <1>2, <1>3, <2>1, <2>2 DEF ExactBut
    <2> QED
        BY <1>1, <2>1, <2>2, <2>3
<1> QED
    BY <1>1, <1>2, <1>3, <1>4, ChatStep

LEMMA EndSafe ==
    ASSUME Types, Safe, Shown, NEW n \in Sends, Counted(n) \/ ChatFails(n)
    PROVE  Safe'
<1>1. UNCHANGED <<turns, pending, confirmed, status, members, actions, memberships, error,
                  workspaceRequest, ops>>
      /\ ~submitting' /\ (unsure => unsure')
    BY DEF Counted, ChatFails, EndSubmission, portal
<1>2. chats'[n].state = "idle" /\ \A m \in Sends : m # n => chats'[m] = chats[m]
    BY EndTypes
<1>3. chats[n].state \in {"failed", "counting"} /\ turns \in Nat
    BY DEF Counted, ChatFails, Types, PortalOK
<1>4. ASSUME Calm, Calm', overview' # None
      PROVE  Exact' /\ memberships' = Pending'
    <2>1. Overview' = Overview /\ Chat' = Chat /\ Pending' = Pending
        BY <1>1, SameReads
    <2>2. CASE Counted(n)
        <3>1. /\ chats[n].state = "counting" /\ messages' = messages
              /\ overview' = chats[n].overview
            BY <1>4, <2>2 DEF Counted, Calm
        <3>2. ExactBut(n) /\ memberships = Pending
            <4>1. overview # None
                BY <1>3 DEF Shown, Chatting
            <4> QED
                BY <1>3, <1>4, <4>1, CalmChat
        <3>3. Exact'
            BY <1>1, <1>4, <2>1, <3>1, <3>2 DEF ExactBut, Exact
        <3> QED
            BY <1>1, <2>1, <3>2, <3>3
    <2>3. CASE ChatFails(n)
        <3>1. /\ chats[n].state = "failed" /\ messages' = WithoutPlaceholder(n)
              /\ overview' = overview
            BY <2>3 DEF ChatFails
        <3>2. ExactBut(n) /\ memberships = Pending
            BY <1>3, <1>4, <3>1, CalmChat
        <3>3. messages = Append([i \in 1..turns |-> i], Placeholder(n)) /\ overview = Overview
              /\ actions = Chat.actions
            BY <3>1, <3>2 DEF ExactBut, Chat
        <3>4. messages' = Chat.messages
            BY <1>3, <3>1, <3>3, WithoutLast DEF Chat
        <3>5. Exact'
            BY <1>1, <2>1, <3>1, <3>3, <3>4 DEF Exact
        <3> QED
            BY <1>1, <2>1, <3>2, <3>5
    <2> QED
        BY <2>2, <2>3
<1> QED
    BY <1>1, <1>2, <1>3, <1>4, ChatEnd

-----------------------------------------------------------------------------
(* The invariant holds *)

\* Nothing takes an overview the page has shown away again.
LEMMA ShownStep ==
    ASSUME Types, Shown, [Next]_vars
    PROVE  Shown'
<1>1. overview # None => overview' # None
    <2>1. ASSUME NEW o \in Slot, Apply(o) PROVE overview # None => overview' # None
        BY <2>1 DEF Apply, Show, page, Parts
    <2>2. ASSUME NEW n \in Sends, Counted(n) PROVE overview # None => overview' # None
        BY <2>2 DEF Counted
    <2>3. CASE UNCHANGED overview
        BY <2>3
    <2>4. ASSUME NEW o \in Slot,
                 \/ Open(o) \/ LoadFails(o) \/ Handle(o) \/ LoseOp(o) \/ Answered(o) \/ Refused(o)
                 \/ \E part \in Parts : Serve(o, part)
                 \/ \E key \in Offered : Start(o, key)
          PROVE  UNCHANGED overview
        BY <2>4 DEF Open, LoadFails, Handle, LoseOp, Answered, Refused, Serve, Start, page
    <2>5. ASSUME NEW n \in Sends,
                 \/ SendCommand(n) \/ StoreTurn(n) \/ LoseChat(n) \/ Reply(n)
                 \/ ServeOverview(n) \/ ChatFails(n)
          PROVE  UNCHANGED overview
        BY <2>5 DEF SendCommand, Submit, StoreTurn, LoseChat, Reply, ServeOverview, ChatFails, page
    <2>6. ASSUME (\E t \in Text \cup {Empty} : Typing(t)) \/ (\E m \in Member : Join(m))
                 \/ (\E a \in 1..MaxSends : DecideElsewhere(a))
          PROVE  UNCHANGED overview
        BY <2>6 DEF Typing, Join, DecideElsewhere, Elsewhere, page
    <2>7. CASE UNCHANGED vars
        BY <2>7 DEF vars, page
    <2> QED
        BY <2>1, <2>2, <2>4, <2>5, <2>6, <2>7 DEF Next
<1>2. Chatting' => Chatting \/ overview # None
    <2>1. ASSUME NEW n \in Sends, SendCommand(n) PROVE overview # None
        BY <2>1 DEF SendCommand
    <2>2. ASSUME NEW n \in Sends,
                 StoreTurn(n) \/ LoseChat(n) \/ Reply(n) \/ ServeOverview(n)
          PROVE  Chatting
        BY <2>2 DEF StoreTurn, LoseChat, Reply, ServeOverview, Chatting
    <2>3. ASSUME NEW n \in Sends, Counted(n) \/ ChatFails(n)
          PROVE  Chatting
        BY <2>3 DEF Counted, ChatFails, Chatting
    <2>4. CASE UNCHANGED chats
        BY <2>4 DEF Chatting
    <2>5. ASSUME NEW o \in Slot,
                 \/ Open(o) \/ Apply(o) \/ LoadFails(o) \/ Handle(o) \/ LoseOp(o) \/ Answered(o)
                 \/ Refused(o)
                 \/ \E part \in Parts : Serve(o, part)
                 \/ \E key \in Offered : Start(o, key)
          PROVE  UNCHANGED chats
        BY <2>5 DEF Open, Apply, LoadFails, Handle, LoseOp, Answered, Refused, Serve, Start
    <2>6. ASSUME (\E t \in Text \cup {Empty} : Typing(t)) \/ (\E m \in Member : Join(m))
                 \/ (\E a \in 1..MaxSends : DecideElsewhere(a))
          PROVE  UNCHANGED chats
        BY <2>6 DEF Typing, Join, DecideElsewhere, Elsewhere
    <2>7. ASSUME UNCHANGED vars PROVE UNCHANGED chats
        BY <2>7 DEF vars
    <2> QED
        BY <2>1, <2>2, <2>3, <2>4, <2>5, <2>6, <2>7 DEF Next
<1> QED
    BY <1>1, <1>2 DEF Shown

LEMMA InitIInv == Init => IInv
<1> SUFFICES ASSUME Init PROVE IInv
    OBVIOUS
<1>1. Types
    BY InitTypes
<1>2. \A n \in Sends : chats[n].state = "idle"
    BY DEF Init, NoChat
<1>3. \A o \in Slot : ops[o].state = "idle"
    BY DEF Init, NoOp
<1>4. overview = None /\ ~submitting /\ ~Chatting
    BY <1>2 DEF Init, Chatting
<1>5. Shown /\ OneAtATime /\ LoadsMeetNoChat
    BY <1>2, <1>4 DEF Shown, OneAtATime, LoadsMeetNoChat, Chatting
<1>6. ReadsAreCurrent
    BY <1>3 DEF ReadsAreCurrent, Newest
<1>7. CalmPage
    BY <1>4 DEF CalmPage
<1> QED
    BY <1>1, <1>5, <1>6, <1>7 DEF IInv

LEMMA IInvStep ==
    ASSUME IInv, [Next]_vars
    PROVE  IInv'
<1>1. Types /\ Safe /\ Shown
    BY DEF IInv, Safe
<1>2. ASSUME NEW o \in Slot, Open(o)
      PROVE  Types' /\ Safe'
    <2>1. Issue(o, None)
          /\ UNCHANGED <<turns, pending, confirmed, status, members, overview, messages, actions,
                         memberships, submitting, chats>>
        BY <1>2 DEF Open, portal, page
    <2>2. Safe'
        BY <1>1, <2>1, IssueSafe
    <2> QED
        BY <1>1, <1>2, <2>2, LoadTypes
<1>3. ASSUME NEW o \in Slot, Answered(o)
      PROVE  Types' /\ Safe'
    <2>1. Issue(o, ops[o].key)
          /\ UNCHANGED <<turns, pending, confirmed, status, members, overview, messages, actions,
                         memberships, submitting, chats>>
        BY <1>3 DEF Answered, portal, page
    <2>2. ops[o].key \in Key \cup {None}
        BY <1>1 DEF Types, OpsOK, OpType
    <2>3. Safe'
        BY <1>1, <2>1, <2>2, IssueSafe
    <2> QED
        BY <1>1, <1>3, <2>3, LoadTypes
<1>4. ASSUME NEW o \in Slot, Apply(o) PROVE Types' /\ Safe'
    BY <1>1, <1>4, ApplyTypes, ApplySafe
<1>5. ASSUME NEW o \in Slot, LoadFails(o) \/ Refused(o) PROVE Types' /\ Safe'
    BY <1>1, <1>5, LoadTypes, LoadFailsSafe, RefusedSafe
<1>6. ASSUME NEW o \in Slot, NEW part \in Parts, Serve(o, part) PROVE Types' /\ Safe'
    BY <1>1, <1>6, ServeTypes, ServeSafe
<1>7. ASSUME NEW o \in Slot, overview # None /\ \E key \in Offered : Start(o, key)
      PROVE  Types' /\ Safe'
    <2>1. \E key \in Key : Start(o, key)
        BY <1>1, <1>7, OfferedType
    <2> QED
        BY <1>1, <2>1, OperationTypes, OperationSafe
<1>8. ASSUME NEW o \in Slot, Handle(o) PROVE Types' /\ Safe'
    BY <1>1, <1>8, OperationTypes, HandleSafe
<1>9. ASSUME NEW o \in Slot, LoseOp(o) PROVE Types' /\ Safe'
    BY <1>1, <1>9, OperationTypes, OperationSafe
<1>10. ASSUME NEW t \in Text \cup {Empty}, Typing(t) PROVE Types' /\ Safe'
    <2>1. UNCHANGED <<turns, pending, confirmed, status, members, overview, messages, actions,
                      memberships, error, submitting, workspaceRequest, chats, ops, unsure>>
        BY <1>10 DEF Typing, portal, page
    <2> QED
        BY <1>1, <1>10, <2>1, TypingTypes, TypingSafe
<1>11. ASSUME NEW n \in Sends, SendCommand(n) PROVE Types' /\ Safe'
    BY <1>1, <1>11, SendTypes, SendSafe
<1>12. ASSUME NEW n \in Sends, StoreTurn(n) PROVE Types' /\ Safe'
    BY <1>1, <1>12, StoreTypes, StoreSafe
<1>13. ASSUME NEW n \in Sends, LoseChat(n) PROVE Types' /\ Safe'
    BY <1>1, <1>13, LoseChatTypes, LoseChatSafe
<1>14. ASSUME NEW n \in Sends, Reply(n) PROVE Types' /\ Safe'
    BY <1>1, <1>14, ReplyTypes, ReplySafe
<1>15. ASSUME NEW n \in Sends, ServeOverview(n) PROVE Types' /\ Safe'
    BY <1>1, <1>15, ServeOverviewTypes, ServeOverviewSafe
<1>16. ASSUME NEW n \in Sends, Counted(n) \/ ChatFails(n) PROVE Types' /\ Safe'
    BY <1>1, <1>16, EndTypes, EndSafe
<1>17. ASSUME (\E m \in Member : Join(m)) \/ (\E a \in 1..MaxSends : DecideElsewhere(a))
       PROVE  Types' /\ Safe'
    BY <1>1, <1>17, ElsewhereTypes, ElsewhereSafe
<1>18. ASSUME UNCHANGED vars
       PROVE  Types' /\ Safe'
    <2>1. UNCHANGED <<turns, pending, confirmed, status, members, overview, messages, actions,
                      memberships, error, submitting, workspaceRequest, chats, ops, unsure>>
          /\ UNCHANGED <<agentCommand, events>>
        BY <1>18 DEF vars, portal, page
    <2>2. PageOK'
        BY <1>1, <2>1 DEF Types, PageOK, Placeholder
    <2>3. Types'
        BY <1>1, <2>1, <2>2, TypesFrame DEF Types
    <2>4. Safe'
        BY <1>1, <2>1, TypingSafe
    <2> QED
        BY <2>3, <2>4
<1>19. ASSUME NEW o \in Slot,
              \/ Open(o) \/ Apply(o) \/ LoadFails(o)
              \/ \E part \in Parts : Serve(o, part)
              \/ overview # None /\ \E key \in Offered : Start(o, key)
              \/ Handle(o) \/ LoseOp(o) \/ Answered(o) \/ Refused(o)
       PROVE  Types' /\ Safe'
    BY <1>2, <1>3, <1>4, <1>5, <1>6, <1>7, <1>8, <1>9, <1>19, Zenon
<1>20. ASSUME NEW n \in Sends,
              \/ SendCommand(n) \/ StoreTurn(n) \/ LoseChat(n) \/ Reply(n)
              \/ ServeOverview(n) \/ Counted(n) \/ ChatFails(n)
       PROVE  Types' /\ Safe'
    BY <1>11, <1>12, <1>13, <1>14, <1>15, <1>16, <1>20, Zenon
<1>21. Types' /\ Safe'
    BY <1>10, <1>17, <1>18, <1>19, <1>20, Zenon DEF Next
<1> QED
    BY <1>1, <1>21, ShownStep DEF IInv, Safe

\* However the page's requests, answers and losses interleave, the invariant the
\* other theorems rest on holds.
THEOREM PageInvariant == Spec => []IInv
<1>1. IInv /\ [Next]_vars => IInv'
    BY IInvStep
<1> QED
    BY InitIInv, <1>1, PTL DEF Spec

\* Every list, request and number of the page and the portal has its type.
THEOREM PageTypes == Spec => []TypeOK
<1>1. IInv => TypeOK
    BY TypesGiveTypeOK DEF IInv
<1> QED
    BY PageInvariant, <1>1, PTL

\* The page never has two messages in flight: submissionPendingRef is set exactly
\* while one is, whatever other operations do to the disabled controls.
THEOREM SubmissionsAreSingle == Spec => []OneSubmission
<1>1. IInv => OneSubmission
    <2> SUFFICES ASSUME IInv
                 PROVE  OneSubmission
        OBVIOUS
    <2> DEFINE Flying == {n \in Sends : chats[n].state # "idle"}
    <2>1. \A m, n \in Flying : m = n
        BY DEF IInv, OneAtATime
    <2>2. ASSUME Flying = {} PROVE Cardinality(Flying) = 0
        BY <2>2, FS_EmptySet
    <2>3. ASSUME NEW n \in Flying PROVE Cardinality(Flying) = 1
        <3>1. Flying = {n}
            BY <2>1, <2>3
        <3> QED
            BY <3>1, FS_Singleton
    <2>4. Cardinality(Flying) <= 1
        <3> HIDE DEF Flying
        <3> QED
            BY <2>2, <2>3
    <2> QED
        BY <2>4, TypesGiveTypeOK DEF OneSubmission, IInv
<1> QED
    BY PageInvariant, <1>1, PTL

\* A page on which nothing is under way, and which was told of everything, shows
\* what the portal holds: every turn once and in order, the changes that wait,
\* the pending requests and the counts.
THEOREM QuietPageShowsThePortal == Spec => []QuietPageIsExact
<1>1. IInv => QuietPageIsExact
    <2> SUFFICES ASSUME IInv, ~Chatting, \A o \in Slot : ops[o] = NoOp,
                        overview # None, ~error, ~unsure
                 PROVE  Exact /\ memberships = Pending
        BY DEF QuietPageIsExact, Exact
    <2>1. \A o \in Slot : ops[o].state = "idle"
        BY DEF NoOp
    <2>2. Calm /\ \A o \in Slot : ~Newest(o)
        BY <2>1 DEF Calm, Newest
    <2> QED
        BY <2>2 DEF IInv, CalmPage
<1> QED
    BY PageInvariant, <1>1, PTL

\* Also while a message is under way the page is off by that message alone: its
\* placeholder stands where its turn will.
THEOREM PageIsOffByTheMessageUnderWay == Spec => []CalmPage
<1>1. IInv => CalmPage
    BY DEF IInv
<1> QED
    BY PageInvariant, <1>1, PTL

\* The answer or the failure of a message never takes what the client typed
\* meanwhile.
THEOREM DraftIsKept == Spec => AnswersKeepTheDraft
<1> DEFINE Kept == agentCommand # Empty /\ agentCommand' # agentCommand =>
                       \/ \E t \in Text \cup {Empty} : Typing(t)
                       \/ ~submitting /\ submitting'
<1>1. [Next]_vars => [Kept]_vars
    <2> SUFFICES ASSUME Next PROVE Kept
        OBVIOUS
    <2>1. ASSUME NEW o \in Slot,
                 \/ Open(o) \/ Apply(o) \/ LoadFails(o) \/ Handle(o) \/ LoseOp(o) \/ Answered(o)
                 \/ Refused(o)
                 \/ \E part \in Parts : Serve(o, part)
                 \/ \E key \in Offered : Start(o, key)
          PROVE  UNCHANGED agentCommand
        BY <2>1 DEF Open, Apply, LoadFails, Handle, LoseOp, Answered, Refused, Serve, Start
    <2>2. ASSUME (\E m \in Member : Join(m)) \/ (\E a \in 1..MaxSends : DecideElsewhere(a))
          PROVE  UNCHANGED agentCommand
        BY <2>2 DEF Join, DecideElsewhere, Elsewhere
    <2>3. ASSUME NEW n \in Sends, SendCommand(n) PROVE ~submitting /\ submitting'
        BY <2>3 DEF SendCommand, Submit
    <2>4. ASSUME NEW n \in Sends,
                 StoreTurn(n) \/ LoseChat(n) \/ Reply(n) \/ ServeOverview(n) \/ Counted(n)
          PROVE  UNCHANGED agentCommand
        BY <2>4 DEF StoreTurn, LoseChat, Reply, ServeOverview, Counted
    <2>5. ASSUME NEW n \in Sends, ChatFails(n), agentCommand # Empty
          PROVE  UNCHANGED agentCommand
        BY <2>5 DEF ChatFails
    <2> QED
        BY <2>1, <2>2, <2>3, <2>4, <2>5 DEF Next
<1>2. Spec => [][Kept]_vars
    BY <1>1, PTL DEF Spec
<1> QED
    BY <1>2 DEF AnswersKeepTheDraft

=============================================================================
