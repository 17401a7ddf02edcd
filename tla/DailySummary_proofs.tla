------------------------ MODULE DailySummary_proofs ------------------------
(***************************************************************************)
(* Theorems about DailySummary, for any companies, any number of cron      *)
(* requests and any size of a page, and for any length of the day and      *)
(* offset of the zone.                                                     *)
(*                                                                         *)
(* WalkOK says where a cron request stands in its walk over the companies: *)
(* those up to its cursor are behind it, and those beyond are on its page  *)
(* or beyond all of a page that was full.  The calendar: a transaction     *)
(* began no later than now, and days do not overlap.  The sums: a total is *)
(* a number of units, so that to group rows is to part a finite set, and   *)
(* groups add up because their units do (UnionOfParts).  The list of the   *)
(* top projects is a numbering of the labels by their places, whose counts *)
(* are fixed by how many labels reach each (HeightIsReached).              *)
(***************************************************************************)
EXTENDS DailySummary, FiniteSetTheorems, FunctionTheorems, TLAPS

\* The types the proofs need.
Types ==
    /\ clock \in Nat
    /\ companies \subseteq Company
    /\ phase \in [Cron -> {"idle", "page", "each", "deliver", "done", "cut"}]
    /\ cursor \in [Cron -> Nat]
    /\ rest \in [Cron -> SUBSET companies]
    /\ short \in [Cron -> BOOLEAN]
    /\ began \in [Cron -> Nat]
    /\ delivered \in [Cron -> Nat] /\ failed \in [Cron -> Nat]
    /\ existing \in [Cron -> SUBSET companies]
    /\ attempted \in [Cron -> SUBSET companies]

\* Before it starts a request has done nothing.
Fresh(k) ==
    phase[k] = "idle" => cursor[k] = 0 /\ attempted[k] = {} /\ delivered[k] = 0 /\ failed[k] = 0

\* What is up to the cursor is behind the request, and nothing else is.
Behind(k) ==
    /\ \A c \in attempted[k] : c <= cursor[k]
    /\ \A c \in existing[k] : c <= cursor[k] => phase[k] = "idle" \/ c \in attempted[k]

\* What is beyond the cursor is on the page, or beyond all of a full one.
Ahead(k) ==
    phase[k] \in {"each", "deliver"} =>
        /\ \A c \in rest[k] : c > cursor[k]
        /\ \A c \in existing[k] :
              c > cursor[k] => c \in rest[k] \/ (~short[k] /\ \A b \in rest[k] : b < c)

Finished(k) == phase[k] = "done" => existing[k] \subseteq attempted[k]

\* The counters: the company whose transaction is under way is not counted yet.
Counted(k) ==
    LET Turned == Cardinality(attempted[k])
    IN  /\ phase[k] \in {"idle", "page", "each", "done"} => delivered[k] + failed[k] = Turned
        /\ phase[k] = "deliver" => delivered[k] + failed[k] = Turned - 1

WalkOK(k) == Fresh(k) /\ Behind(k) /\ Ahead(k) /\ Finished(k) /\ Counted(k)

IInv ==
    /\ Types
    /\ \A k \in Cron : WalkOK(k) /\ began[k] <= clock

-----------------------------------------------------------------------------

LEMMA CompaniesAreFinite ==
  ASSUME Types, NEW S, S \subseteq companies
  PROVE  /\ IsFiniteSet(S) /\ Cardinality(S) \in Nat
         /\ \A c \in S : c \in Nat /\ c > 0
  <1>1. S \subseteq Company BY DEF Types
  <1>2. IsFiniteSet(S) BY <1>1, DailySummaryAssumption, FS_Subset
  <1> QED BY <1>1, <1>2, FS_CardinalityType, DailySummaryAssumption

\* A step of one request leaves the others where they are.
LEMMA Elsewhere ==
  ASSUME IInv, NEW k \in Cron, NEW q \in Cron, q # k,
         phase'[q] = phase[q], cursor'[q] = cursor[q], rest'[q] = rest[q], short'[q] = short[q],
         delivered'[q] = delivered[q], failed'[q] = failed[q],
         existing'[q] = existing[q], attempted'[q] = attempted[q]
  PROVE  WalkOK(q)'
  BY DEF IInv, WalkOK, Fresh, Behind, Ahead, Finished, Counted

LEMMA InitInv == Init => IInv
  <1> SUFFICES ASSUME Init PROVE IInv OBVIOUS
  <1>1. companies \subseteq Company /\ FirstInstant \in Nat
    BY DailySummaryAssumption DEF Init
  <1>2. Types BY <1>1 DEF Init, Types
  <1>3. ASSUME NEW k \in Cron PROVE WalkOK(k) /\ began[k] <= clock
    BY <1>1, FS_EmptySet DEF Init, WalkOK, Fresh, Behind, Ahead, Finished, Counted
  <1> QED BY <1>2, <1>3 DEF IInv

\* The world around the cron: time passes, and companies only get more.
LEMMA WorldInv ==
  ASSUME IInv, UNCHANGED <<walk, history>>,
         clock' \in Nat, clock <= clock', companies \subseteq companies', companies' \subseteq Company
  PROVE  IInv'
  <1>1. Types' BY DEF IInv, Types, walk, history
  <1>2. ASSUME NEW k \in Cron PROVE WalkOK(k)' /\ (began[k] <= clock)'
    <2>1. WalkOK(k)'
      BY DEF IInv, walk, history, WalkOK, Fresh, Behind, Ahead, Finished, Counted
    <2>2. began[k] \in Nat /\ clock \in Nat /\ began[k] <= clock /\ began'[k] = began[k]
      BY DEF IInv, Types, walk
    <2> QED BY <2>1, <2>2
  <1> QED BY <1>1, <1>2 DEF IInv

LEMMA StartInv ==
  ASSUME IInv, NEW k \in Cron, NEW d, StartCron(k, d)
  PROVE  IInv'
  <1>1. Types' /\ \A q \in Cron : (began[q] <= clock)' BY DEF IInv, Types, StartCron, data
  <1>2. WalkOK(k)'
    <2>1. cursor[k] = 0 /\ attempted[k] = {} /\ delivered[k] = 0 /\ failed[k] = 0
      BY DEF IInv, WalkOK, Fresh, StartCron
    <2>2. phase'[k] = "page" /\ existing'[k] = companies /\ \A c \in companies : c \in Nat /\ c > 0
      BY CompaniesAreFinite DEF IInv, Types, StartCron
    <2> QED
      BY <2>1, <2>2, FS_EmptySet DEF StartCron, WalkOK, Fresh, Behind, Ahead, Finished, Counted
  <1>3. ASSUME NEW q \in Cron, q # k PROVE WalkOK(q)'
    BY <1>3, Elsewhere DEF IInv, Types, StartCron
  <1> QED BY <1>1, <1>2, <1>3 DEF IInv

LEMMA FetchInv ==
  ASSUME IInv, NEW k \in Cron, FetchPage(k)
  PROVE  IInv'
  <1>1. PICK P \in SUBSET Beyond(k) :
          /\ IsPage(P, Beyond(k))
          /\ rest' = [rest EXCEPT ![k] = P]
          /\ short' = [short EXCEPT ![k] = Cardinality(P) < PageSize]
          /\ phase' = [phase EXCEPT ![k] = IF P = {} THEN "done" ELSE "each"]
    BY DEF FetchPage
  <1>2. /\ IsFiniteSet(P) /\ Cardinality(P) \in Nat /\ P \subseteq companies
        /\ \A c \in companies : c \in Nat
    <2>1. P \subseteq companies BY DEF Beyond
    <2> QED BY <2>1, CompaniesAreFinite DEF IInv
  <1>3. Types' /\ \A q \in Cron : (began[q] <= clock)'
    BY <1>1, <1>2 DEF IInv, Types, FetchPage, data, history
  <1>4. PageSize \in Nat /\ PageSize > 0 BY DailySummaryAssumption
  <1>5. phase[k] = "page" /\ WalkOK(k) /\ phase \in [Cron -> {"idle", "page", "each", "deliver", "done", "cut"}]
        /\ rest \in [Cron -> SUBSET companies] /\ short \in [Cron -> BOOLEAN]
    BY DEF FetchPage, IInv, Types
  <1>6. ASSUME NEW c \in existing[k], c > cursor[k]
        PROVE  c \in P \/ (Cardinality(P) = PageSize /\ \A b \in P : b < c)
    <2>1. c \in Beyond(k) BY <1>6 DEF IInv, Types, Beyond
    <2> QED BY <2>1, <1>1 DEF IsPage
  <1>7. WalkOK(k)'
    <2>1. CASE P = {}
      <3>1. Cardinality(P) = 0 BY <2>1, FS_EmptySet
      <3>2. \A c \in existing[k] : ~(c > cursor[k]) BY <3>1, <2>1, <1>6, <1>4
      <3>3. \A c \in existing[k] : c <= cursor[k]
        BY <3>2, <1>2 DEF IInv, Types
      <3>4. existing[k] \subseteq attempted[k] BY <3>3, <1>5 DEF WalkOK, Behind
      <3>5. phase'[k] = "done" /\ UNCHANGED <<cursor, delivered, failed, existing, attempted>>
        BY <1>1, <1>5, <2>1 DEF FetchPage, history
      <3> QED
        BY <3>4, <3>5, <1>5 DEF WalkOK, Fresh, Behind, Ahead, Finished, Counted
    <2>2. CASE P # {}
      <3>1. /\ phase'[k] = "each" /\ rest'[k] = P /\ short'[k] = (Cardinality(P) < PageSize)
            /\ UNCHANGED <<cursor, delivered, failed, existing, attempted>>
        BY <1>1, <1>5, <2>2 DEF FetchPage, history
      <3>2. Ahead(k)'
        <4>1. \A c \in P : c > cursor[k] BY DEF Beyond
        <4>2. Cardinality(P) = PageSize => ~(Cardinality(P) < PageSize) BY <1>4
        <4> QED BY <3>1, <4>1, <4>2, <1>6 DEF Ahead
      <3>3. Fresh(k)' /\ Behind(k)' /\ Finished(k)' /\ Counted(k)'
        BY <3>1, <1>5 DEF WalkOK, Fresh, Behind, Finished, Counted
      <3> QED BY <3>2, <3>3 DEF WalkOK
    <2> QED BY <2>1, <2>2
  <1>8. ASSUME NEW q \in Cron, q # k PROVE WalkOK(q)'
    BY <1>8, <1>1, <1>5, Elsewhere DEF FetchPage, history
  <1> QED BY <1>3, <1>7, <1>8 DEF IInv

LEMMA NextTenantInv ==
  ASSUME IInv, NEW k \in Cron, NextTenant(k)
  PROVE  IInv'
  <1>1. PICK c \in rest[k] :
          /\ \A b \in rest[k] : c <= b
          /\ cursor' = [cursor EXCEPT ![k] = c]
          /\ rest' = [rest EXCEPT ![k] = @ \ {c}]
          /\ attempted' = [attempted EXCEPT ![k] = @ \cup {c}]
    BY DEF NextTenant
  <1>2. /\ c \in companies /\ c \in Nat /\ cursor[k] \in Nat
        /\ \A b \in rest[k] : b \in Nat
        /\ \A b \in existing[k] : b \in Nat
        /\ \A b \in attempted[k] : b \in Nat
    BY CompaniesAreFinite DEF IInv, Types
  <1>3. Types' /\ \A q \in Cron : (began[q] <= clock)'
    BY <1>1, <1>2 DEF IInv, Types, NextTenant, data
  <1>4. /\ phase[k] = "each" /\ WalkOK(k) /\ phase'[k] = "deliver" /\ cursor[k] \in Nat
        /\ cursor'[k] = c /\ rest'[k] = rest[k] \ {c} /\ attempted'[k] = attempted[k] \cup {c}
        /\ UNCHANGED <<short, delivered, failed, existing>>
        /\ rest[k] \subseteq companies /\ existing[k] \subseteq companies /\ attempted[k] \subseteq companies
    BY <1>1 DEF IInv, Types, NextTenant
  <1>5. c > cursor[k] BY <1>4 DEF WalkOK, Ahead
  <1>6. Behind(k)'
    <2>1. \A b \in attempted[k] \cup {c} : b <= c
      <3>1. \A b \in attempted[k] : b <= cursor[k] BY <1>4 DEF WalkOK, Behind
      <3> QED BY <3>1, <1>2, <1>5
    <2>2. ASSUME NEW e \in existing[k], e <= c PROVE e \in attempted[k] \cup {c}
      <3>1. CASE e <= cursor[k] BY <3>1, <1>4 DEF WalkOK, Behind
      <3>2. CASE e > cursor[k]
        <4>1. e \in rest[k] \/ \A b \in rest[k] : b < e BY <3>2, <1>4 DEF WalkOK, Ahead
        <4>2. e \in rest[k] => e = c BY <2>2, <1>1, <1>2
        <4>3. ~(c < e) BY <2>2, <1>2
        <4> QED BY <4>1, <4>2, <4>3
      <3> QED BY <3>1, <3>2, <1>2
    <2> QED BY <2>1, <2>2, <1>4 DEF Behind
  <1>7. Ahead(k)'
    <2>1. \A b \in rest[k] \ {c} : b > c BY <1>1, <1>2
    <2>2. ASSUME NEW e \in existing[k], e > c
          PROVE  e \in rest[k] \ {c} \/ (~short[k] /\ \A b \in rest[k] \ {c} : b < e)
      <3>1. e > cursor[k] BY <2>2, <1>2, <1>5
      <3>2. e \in rest[k] \/ (~short[k] /\ \A b \in rest[k] : b < e)
        BY <3>1, <1>4 DEF WalkOK, Ahead
      <3>3. e # c BY <2>2, <1>2
      <3> QED BY <3>2, <3>3
    <2> QED BY <2>1, <2>2, <1>4 DEF Ahead
  <1>8. Counted(k)'
    <2>1. c \notin attempted[k] BY <1>2, <1>4, <1>5 DEF WalkOK, Behind
    <2>2. /\ Cardinality(attempted[k] \cup {c}) = Cardinality(attempted[k]) + 1
          /\ Cardinality(attempted[k]) \in Nat
      BY <2>1, <1>4, CompaniesAreFinite, FS_AddElement DEF IInv
    <2>3. delivered[k] + failed[k] = Cardinality(attempted[k]) BY <1>4 DEF WalkOK, Counted
    <2> QED BY <2>2, <2>3, <1>4 DEF Counted
  <1>9. Fresh(k)' /\ Finished(k)' BY <1>4 DEF Fresh, Finished
  <1>10. ASSUME NEW q \in Cron, q # k PROVE WalkOK(q)'
    BY <1>10, <1>1, Elsewhere DEF NextTenant, IInv, Types
  <1> QED BY <1>3, <1>6, <1>7, <1>8, <1>9, <1>10 DEF IInv, WalkOK

\* A delivery ends, well or not: one more is counted, and the walk goes on.
LEMMA TenantEnds ==
  ASSUME IInv, NEW k \in Cron, phase[k] = "deliver",
         phase' = [phase EXCEPT ![k] = AfterTenant(k)],
         \/ delivered' = [delivered EXCEPT ![k] = @ + 1] /\ UNCHANGED failed
         \/ failed' = [failed EXCEPT ![k] = @ + 1] /\ UNCHANGED delivered,
         UNCHANGED <<clock, companies, cursor, rest, short, began, existing, attempted>>
  PROVE  IInv'
  <1>1. AfterTenant(k) \in {"each", "page", "done"} BY DEF AfterTenant
  <1>2. Types' /\ \A q \in Cron : (began[q] <= clock)' BY <1>1 DEF IInv, Types
  <1>3. WalkOK(k) /\ phase'[k] = AfterTenant(k) /\ cursor[k] \in Nat
        /\ existing[k] \subseteq companies /\ \A c \in companies : c \in Nat
    BY CompaniesAreFinite DEF IInv, Types
  <1>4. Fresh(k)' /\ Behind(k)' /\ Ahead(k)' BY <1>1, <1>3 DEF WalkOK, Fresh, Behind, Ahead
  <1>5. Finished(k)'
    <2>1. CASE AfterTenant(k) = "done"
      <3>1. rest[k] = {} /\ short[k] BY <2>1 DEF AfterTenant
      <3>2. \A c \in existing[k] : c <= cursor[k] BY <3>1, <1>3 DEF WalkOK, Ahead
      <3> QED BY <3>2, <1>3 DEF WalkOK, Behind, Finished
    <2> QED BY <2>1, <1>3 DEF Finished
  <1>6. Counted(k)'
    <2>1. /\ delivered[k] + failed[k] = Cardinality(attempted[k]) - 1
          /\ delivered[k] \in Nat /\ failed[k] \in Nat /\ Cardinality(attempted[k]) \in Nat
      BY <1>3, CompaniesAreFinite DEF IInv, Types, WalkOK, Counted
    <2>2. delivered'[k] + failed'[k] = delivered[k] + failed[k] + 1 BY <2>1 DEF IInv, Types
    <2> QED BY <2>1, <2>2, <1>1, <1>3 DEF Counted
  <1>7. ASSUME NEW q \in Cron, q # k PROVE WalkOK(q)'
    BY <1>7, Elsewhere DEF IInv, Types
  <1> QED BY <1>2, <1>4, <1>5, <1>6, <1>7 DEF IInv, WalkOK

LEMMA CutInv ==
  ASSUME IInv, NEW k \in Cron, Cut(k)
  PROVE  IInv'
  <1>1. Types' /\ \A q \in Cron : (began[q] <= clock)' BY DEF IInv, Types, Cut, data, history
  <1>2. WalkOK(k)'
    BY DEF IInv, Types, Cut, history, WalkOK, Fresh, Behind, Ahead, Finished, Counted
  <1>3. ASSUME NEW q \in Cron, q # k PROVE WalkOK(q)'
    BY <1>3, Elsewhere DEF IInv, Types, Cut, history
  <1> QED BY <1>1, <1>2, <1>3 DEF IInv

LEMMA NextInv == IInv /\ [Next]_vars => IInv'
  <1> SUFFICES ASSUME IInv, [Next]_vars PROVE IInv' OBVIOUS
  <1>0. clock \in Nat /\ companies \subseteq Company BY DEF IInv, Types
  <1>1. CASE Tick BY <1>0, <1>1, WorldInv DEF Tick
  <1>2. ASSUME NEW c \in Company, RegisterCompany(c) PROVE IInv'
    BY <1>0, <1>2, WorldInv DEF RegisterCompany
  <1>3. ASSUME NEW e \in Event, Ingest(e) PROVE IInv'
    BY <1>0, <1>3, WorldInv DEF Ingest
  <1>4. ASSUME NEW k \in Cron, NEW d \in {Default} \cup 0..CurrentDate(clock), StartCron(k, d)
        PROVE  IInv'
    BY <1>4, StartInv
  <1>5. ASSUME NEW k \in Cron, FetchPage(k) PROVE IInv' BY <1>5, FetchInv
  <1>6. ASSUME NEW k \in Cron, NextTenant(k) PROVE IInv' BY <1>6, NextTenantInv
  <1>7. ASSUME NEW k \in Cron, Deliver(k) PROVE IInv' BY <1>7, TenantEnds DEF Deliver, history
  <1>8. ASSUME NEW k \in Cron, Fail(k) PROVE IInv' BY <1>8, TenantEnds DEF Fail, data, history
  <1>9. ASSUME NEW k \in Cron, Cut(k) PROVE IInv' BY <1>9, CutInv
  <1>10. CASE UNCHANGED vars BY <1>0, <1>10, WorldInv DEF vars, data
  <1> QED
    BY <1>1, <1>2, <1>3, <1>4, <1>5, <1>6, <1>7, <1>8, <1>9, <1>10, Zenon DEF Next

\* The inductive invariant of the walk of a cron over the companies.
THEOREM Walks == Spec => []IInv
  BY InitInv, NextInv, PTL DEF Spec

\* A cron that ends has turned once to every company there was when it started,
\* whatever registers meanwhile and however many companies fill its pages.
THEOREM Tenants == Spec => []EveryTenantOnce
  <1>1. IInv => EveryTenantOnce
    BY DEF IInv, WalkOK, Finished, Counted, EveryTenantOnce
  <1> QED BY <1>1, Walks, PTL

-----------------------------------------------------------------------------
(* The two calendars *)

\* Division by the length of a day.
LEMMA Divides ==
  ASSUME NEW x \in Int
  PROVE  /\ x \div DayLength \in Int
         /\ (x \div DayLength) * DayLength \in Int
         /\ (x \div DayLength) * DayLength <= x
         /\ x < (x \div DayLength) * DayLength + DayLength
  BY DailySummaryAssumption, SMT

\* Less is divided into less.
LEMMA DividesInOrder ==
  ASSUME NEW x \in Int, NEW y \in Int, x <= y
  PROVE  x \div DayLength <= y \div DayLength
  BY DailySummaryAssumption, SMTT(30)

\* A day earlier is one date less.
LEMMA DayBefore ==
  ASSUME NEW x \in Int
  PROVE  (x - DayLength) \div DayLength = x \div DayLength - 1
  BY DailySummaryAssumption, SMTT(30)

\* A counter of deliveries only changes when its request delivers.
LEMMA DeliveredBy ==
  ASSUME IInv, [Next]_vars, NEW k \in Cron, delivered'[k] # delivered[k]
  PROVE  Deliver(k)
  <1>1. delivered \in [Cron -> Nat] BY DEF IInv, Types
  <1>2. ASSUME NEW q \in Cron, q # k, Deliver(q) PROVE FALSE BY <1>1, <1>2 DEF Deliver
  <1>3. delivered' # delivered OBVIOUS
  <1>4. \E q \in Cron : Deliver(q)
    BY <1>3 DEF Next, vars, walk, Tick, RegisterCompany, Ingest, StartCron, FetchPage, NextTenant, Fail, Cut
  <1> QED BY <1>2, <1>4

\* A delivery without a date stores the latest day of Karachi that has ended,
\* and keeps it, whatever the length of the day and the offset of the zone,
\* and however long its transaction waited.
THEOREM Days == Spec => DefaultDelivery
  <1> DEFINE A == \A k \in Cron : delivered'[k] # delivered[k] /\ date[k] = Default =>
                      /\ End(StoredRow(k)[2]) <= clock
                      /\ clock < End(StoredRow(k)[2]) + DayLength
                      /\ StoredRow(k) \in DOMAIN rows'
  <1>1. ASSUME IInv, [Next]_vars PROVE A
    <2> SUFFICES ASSUME NEW k \in Cron, delivered'[k] # delivered[k], date[k] = Default
                 PROVE  /\ End(StoredRow(k)[2]) <= clock
                        /\ clock < End(StoredRow(k)[2]) + DayLength
                        /\ StoredRow(k) \in DOMAIN rows'
      OBVIOUS
    <2>1. Deliver(k) BY <1>1, DeliveredBy
    <2> DEFINE q == (clock - DayLength + Offset) \div DayLength
               now == clock \div DayLength
               then == began[k] \div DayLength
    <2>2. /\ DayLength \in Nat /\ Offset \in Nat /\ KeepDays \in Nat /\ KeepDays >= 1
          /\ clock \in Nat /\ began[k] \in Nat /\ began[k] <= clock
      BY <1>1, DailySummaryAssumption DEF IInv, Types
    <2>3. /\ q \in Int /\ q * DayLength \in Int
          /\ q * DayLength <= clock - DayLength + Offset
          /\ clock - DayLength + Offset < q * DayLength + DayLength
      <3>1. clock - DayLength + Offset \in Int BY <2>2
      <3> QED BY <3>1, Divides
    <2>4. /\ StoredRow(k) = <<cursor[k], q>>
          /\ End(q) = q * DayLength - Offset + DayLength
      BY DEF StoredRow, SelectedDate, LocalDateInKarachi, End, Start
    <2>5. now \in Int /\ then \in Int /\ then <= now /\ now - 1 <= q
      <3>1. now \in Int /\ then \in Int /\ then <= now BY <2>2, Divides, DividesInOrder
      <3>2. (clock - DayLength) \div DayLength = now - 1 BY <2>2, DayBefore
      <3>3. (clock - DayLength) \div DayLength <= q BY <2>2, DividesInOrder
      <3> QED BY <3>1, <3>2, <3>3
    <2>6. ~Expired(StoredRow(k), k)
      <3> HIDE DEF q, now, then
      <3>1. ~(q < then - KeepDays) BY <2>2, <2>3, <2>5
      <3>2. CurrentDate(began[k]) = then BY DEF CurrentDate, then
      <3> QED BY <3>1, <3>2, <2>4 DEF Expired
    <2>7. StoredRow(k) \in DOMAIN rows' BY <2>1, <2>6 DEF Deliver
    <2>8. End(q) <= clock /\ clock < End(q) + DayLength
      <3> HIDE DEF q, now, then
      <3> QED BY <2>2, <2>3, <2>4
    <2> QED BY <2>4, <2>7, <2>8
  <1> QED BY <1>1, Walks, PTL DEF Spec, DefaultDelivery

-----------------------------------------------------------------------------
(* The rows and the days of events *)

\* What a delivery stores is a row of a company and a date; events were captured
\* before they arrive.
SInv ==
    /\ TypeOK
    /\ date \in [Cron -> Int \cup {Default}]
    /\ \A k \in Cron : phase[k] = "deliver" => cursor[k] \in Company
    /\ \A e \in events : e.at <= clock

LEMMA InitSInv == Init => SInv
  <1> SUFFICES ASSUME Init PROVE SInv OBVIOUS
  <1>1. FirstInstant \in FirstInstant..MaxClock BY DailySummaryAssumption
  <1>2. DOMAIN rows = {} BY DEF Init
  <1> QED BY <1>1, <1>2 DEF Init, SInv, TypeOK

LEMMA DeliverStores ==
  ASSUME SInv, NEW k \in Cron, Deliver(k)
  PROVE  DOMAIN rows' \subseteq Company \X Int
  <1>1. /\ DayLength \in Int /\ Offset \in Int /\ clock \in Int
    BY DailySummaryAssumption DEF SInv, TypeOK
  <1>2. LocalDateInKarachi(clock - DayLength) \in Int
    <2>1. clock - DayLength + Offset \in Int BY <1>1
    <2> QED BY <2>1, Divides DEF LocalDateInKarachi
  <1>3. cursor[k] \in Company /\ date[k] \in Int \cup {Default} BY DEF SInv, Deliver
  <1>4. StoredRow(k) \in Company \X Int BY <1>2, <1>3 DEF StoredRow, SelectedDate
  <1>5. DOMAIN rows' \subseteq DOMAIN rows \cup {StoredRow(k)} BY DEF Deliver
  <1> QED BY <1>4, <1>5 DEF SInv, TypeOK

LEMMA NextSInv == IInv /\ IInv' /\ SInv /\ [Next]_vars => SInv'
  <1> SUFFICES ASSUME IInv, IInv', SInv, [Next]_vars PROVE SInv' OBVIOUS
  <1>1. rest' \in [Cron -> SUBSET companies'] BY DEF IInv, Types
  <1>2. delivered' \in [Cron -> Nat] /\ failed' \in [Cron -> Nat] BY DEF IInv, Types
  <1>3. companies' \subseteq Company
        /\ phase' \in [Cron -> {"idle", "page", "each", "deliver", "done", "cut"}]
    BY DEF IInv, Types
  <1>4. /\ FirstInstant \in Nat /\ MaxClock \in Nat /\ clock \in Nat
        /\ clock \in FirstInstant..MaxClock /\ \A e \in Event : e.at \in Nat
    BY DailySummaryAssumption DEF SInv, TypeOK
  <1>5. clock' \in FirstInstant..MaxClock /\ clock <= clock'
    <2>1. CASE Tick BY <1>4, <2>1 DEF Tick
    <2>2. CASE clock' = clock BY <1>4, <2>2
    <2> QED
      BY <2>1, <2>2 DEF Next, vars, data, RegisterCompany, Ingest, StartCron, FetchPage, NextTenant,
                        Deliver, Fail, Cut
  <1>6. events' \subseteq Event /\ \A e \in events' : e.at <= clock'
    <2>1. ASSUME NEW e \in Event, Ingest(e) PROVE events' \subseteq Event /\ \A f \in events' : f.at <= clock'
      BY <1>4, <2>1 DEF Ingest, SInv, TypeOK
    <2>2. CASE events' = events
      <3>1. events \subseteq Event /\ \A e \in events : e.at \in Nat /\ e.at <= clock
        BY <1>4 DEF SInv, TypeOK
      <3>2. clock' \in Nat BY <1>4, <1>5
      <3> QED BY <1>4, <1>5, <2>2, <3>1, <3>2
    <2> QED
      BY <2>1, <2>2 DEF Next, vars, data, Tick, RegisterCompany, StartCron, FetchPage, NextTenant,
                        Deliver, Fail, Cut
  <1>7. DOMAIN rows' \subseteq Company \X Int
    <2>1. CASE rows' = rows BY <2>1 DEF SInv, TypeOK
    <2>2. ASSUME NEW k \in Cron, Deliver(k) PROVE DOMAIN rows' \subseteq Company \X Int
      BY <2>2, DeliverStores
    <2> QED
      BY <2>1, <2>2 DEF Next, vars, data, Tick, RegisterCompany, Ingest, StartCron, FetchPage,
                        NextTenant, Fail, Cut
  <1>8. date' \in [Cron -> Int \cup {Default}]
    <2>1. CASE date' = date BY <2>1 DEF SInv
    <2>2. ASSUME NEW k \in Cron, NEW d \in {Default} \cup 0..CurrentDate(clock), StartCron(k, d)
          PROVE  date' \in [Cron -> Int \cup {Default}]
      BY <2>2 DEF StartCron, SInv
    <2> QED
      BY <2>1, <2>2 DEF Next, vars, walk, Tick, RegisterCompany, Ingest, FetchPage, NextTenant,
                        Deliver, Fail, Cut
  <1>9. /\ cursor' \in [Cron -> Company \cup {0}]
        /\ \A k \in Cron : phase'[k] = "deliver" => cursor'[k] \in Company
    <2>1. cursor \in [Cron -> Company \cup {0}] /\ \A k \in Cron : phase[k] = "deliver" => cursor[k] \in Company
      BY DEF SInv, TypeOK
    <2>2. ASSUME NEW k \in Cron, NextTenant(k) PROVE <1>9!1 /\ <1>9!2
      <3>1. PICK c \in rest[k] : cursor' = [cursor EXCEPT ![k] = c] BY <2>2 DEF NextTenant
      <3>2. c \in Company BY <3>1 DEF IInv, Types
      <3>3. phase' = [phase EXCEPT ![k] = "deliver"] BY <2>2 DEF NextTenant
      <3>4. phase \in [Cron -> {"idle", "page", "each", "deliver", "done", "cut"}] BY DEF IInv, Types
      <3> QED BY <2>1, <3>1, <3>2, <3>3, <3>4
    <2>3. CASE cursor' = cursor /\ \A k \in Cron : phase'[k] = "deliver" => phase[k] = "deliver"
      BY <2>1, <2>3
    <2>4. phase \in [Cron -> {"idle", "page", "each", "deliver", "done", "cut"}] BY DEF IInv, Types
    <2>5. ASSUME NEW k \in Cron, NEW v, v # "deliver", phase' = [phase EXCEPT ![k] = v], cursor' = cursor
          PROVE  <1>9!1 /\ <1>9!2
      BY <2>3, <2>4, <2>5
    <2>6. \A k \in Cron : AfterTenant(k) # "deliver" BY DEF AfterTenant
    <2>7. ASSUME NEW k \in Cron, NEW d, StartCron(k, d) PROVE <1>9!1 /\ <1>9!2
      BY <2>5, <2>7 DEF StartCron
    <2>8. ASSUME NEW k \in Cron, FetchPage(k) PROVE <1>9!1 /\ <1>9!2
      BY <2>5, <2>8 DEF FetchPage
    <2>9. ASSUME NEW k \in Cron, Deliver(k) \/ Fail(k) PROVE <1>9!1 /\ <1>9!2
      BY <2>5, <2>6, <2>9 DEF Deliver, Fail
    <2>10. ASSUME NEW k \in Cron, Cut(k) PROVE <1>9!1 /\ <1>9!2
      BY <2>5, <2>10 DEF Cut
    <2>11. CASE UNCHANGED walk BY <2>3, <2>11 DEF walk
    <2> QED
      BY <2>2, <2>7, <2>8, <2>9, <2>10, <2>11 DEF Next, vars, Tick, RegisterCompany, Ingest
  <1> QED BY <1>1, <1>2, <1>3, <1>5, <1>6, <1>7, <1>8, <1>9 DEF SInv, TypeOK

\* Two days with an instant in common are one.
LEMMA DaysDoNotOverlap ==
  ASSUME NEW t \in Int, NEW c \in Int, NEW d \in Int,
         c * DayLength <= t, t < c * DayLength + DayLength,
         d * DayLength <= t, t < d * DayLength + DayLength
  PROVE  c <= d
  <1>1. DayLength \in Nat BY DailySummaryAssumption
  <1>2. SUFFICES ASSUME c >= d + 1 PROVE FALSE BY SMT
  <1>3. c * DayLength >= (d + 1) * DayLength BY <1>1, <1>2, SMTT(30)
  <1>4. (d + 1) * DayLength = d * DayLength + DayLength BY <1>1, SMTT(30)
  <1>5. /\ c * DayLength \in Int /\ d * DayLength \in Int /\ (d + 1) * DayLength \in Int BY <1>1
  <1> QED BY <1>1, <1>3, <1>4, <1>5

\* Every variable of DailySummary keeps its type.
THEOREM TypeCorrect == Spec => []TypeOK
  <1>1. SInv => TypeOK BY DEF SInv
  <1> QED BY <1>1, InitSInv, NextSInv, Walks, PTL DEF Spec

\* Every event is of exactly one day up to today's, whatever the length of the
\* day and the offset of the zone: the summaries of all days count it once
\* (karachiDayBounds).
THEOREM OneDay == Spec => []EveryEventHasOneDay
  <1>1. ASSUME SInv PROVE EveryEventHasOneDay
    <2> SUFFICES ASSUME NEW e \in events
                 PROVE  {d \in 0..LocalDateInKarachi(MaxClock) : InDay(e, d)} = {LocalDateInKarachi(e.at)}
      BY DEF EveryEventHasOneDay
    <2>1. /\ DayLength \in Nat /\ Offset \in Nat /\ Offset < DayLength /\ MaxClock \in Nat
          /\ clock \in Nat /\ clock <= MaxClock
      BY <1>1, DailySummaryAssumption DEF SInv, TypeOK
    <2>2. e.at \in Nat /\ e.at <= MaxClock
      <3>1. e.at \in Nat /\ e.at <= clock BY <1>1, DailySummaryAssumption DEF SInv, TypeOK
      <3> QED BY <2>1, <3>1
    <2> DEFINE t == e.at + Offset
               day == t \div DayLength
    <2>3. /\ t \in Nat /\ day \in Int /\ day * DayLength \in Int
          /\ day * DayLength <= t /\ t < day * DayLength + DayLength
      <3>1. t \in Int /\ t >= 0 BY <2>1, <2>2
      <3> HIDE DEF t
      <3> QED BY <3>1, Divides
    <2>4. day <= LocalDateInKarachi(MaxClock) /\ LocalDateInKarachi(MaxClock) \in Int
      <3> DEFINE last == MaxClock + Offset
      <3>1. t \in Int /\ last \in Int /\ t <= last BY <2>1, <2>2
      <3> HIDE DEF t, last
      <3>2. day <= last \div DayLength /\ last \div DayLength \in Int BY <3>1, Divides, DividesInOrder
      <3> QED BY <3>2 DEF LocalDateInKarachi, last
    <2>5. 0 <= day
      <3>1. 0 \div DayLength <= day BY <2>1, <2>3, DividesInOrder
      <3>2. 0 \div DayLength = 0 BY <2>1, DailySummaryAssumption, SMT
      <3> QED BY <3>1, <3>2
    <2>6. InDay(e, day) BY <2>1, <2>2, <2>3 DEF InDay, Start, End
    <2>7. ASSUME NEW d \in Int, InDay(e, d) PROVE d = day
      <3>1. d * DayLength <= t /\ t < d * DayLength + DayLength
        BY <2>1, <2>2, <2>7 DEF InDay, Start, End
      <3>2. d <= day /\ day <= d
        BY <2>1, <2>3, <3>1, DaysDoNotOverlap
      <3> QED BY <2>3, <3>2
    <2>8. day = LocalDateInKarachi(e.at) BY DEF LocalDateInKarachi
    <2> HIDE DEF day
    <2> QED BY <2>3, <2>4, <2>5, <2>6, <2>7, <2>8
  <1> QED BY <1>1, InitSInv, NextSInv, Walks, PTL DEF Spec

-----------------------------------------------------------------------------
(* Sums *)

\* What a function takes from a finite set is finitely much.
LEMMA FiniteRange ==
  ASSUME NEW f, IsFiniteSet(DOMAIN f), NEW T, \A t \in T : \E x \in DOMAIN f : t = f[x]
  PROVE  IsFiniteSet(T) /\ Cardinality(T) \in Nat
  <1> DEFINE S == {x \in DOMAIN f : f[x] \in T}
             g == [x \in S |-> f[x]]
  <1>1. IsFiniteSet(S) BY FS_Subset
  <1>2. g \in [S -> T] /\ \A t \in T : \E x \in S : g[x] = t OBVIOUS
  <1>3. g \in Surjection(S, T)
    <2> HIDE DEF g, S
    <2> QED BY <1>2, Fun_IsSurj
  <1>4. IsFiniteSet(T)
    <2> HIDE DEF g, S
    <2> QED BY <1>1, <1>3, FS_Surjection
  <1> QED BY <1>4, FS_CardinalityType

LEMMA UnitsOf ==
  ASSUME NEW S, NEW f \in [S -> Nat]
  PROVE  /\ \A p \in Units(f) : p = <<p[1], p[2]>> /\ p[1] \in S /\ p[2] \in 1..f[p[1]]
         /\ \A x \in S : \A i \in 1..f[x] : <<x, i>> \in Units(f)
  <1>1. Units(f) = UNION {{x} \X (1..f[x]) : x \in S} BY DEF Units
  <1>2. ASSUME NEW p \in Units(f) PROVE p = <<p[1], p[2]>> /\ p[1] \in S /\ p[2] \in 1..f[p[1]]
    <2>1. PICK x \in S : p \in {x} \X (1..f[x]) BY <1>1
    <2> QED BY <2>1
  <1>3. ASSUME NEW x \in S, NEW i \in 1..f[x] PROVE <<x, i>> \in Units(f)
    BY <1>1
  <1> QED BY <1>2, <1>3

\* A finite union has no more members than its parts together, and as many when
\* no two parts meet.
LEMMA UnionOfParts ==
  ASSUME NEW S, IsFiniteSet(S), NEW A, DOMAIN A = S, \A x \in S : IsFiniteSet(A[x]),
         NEW f \in [S -> Nat], \A x \in S : f[x] = Cardinality(A[x]), NEW U,
         \A x \in S : A[x] \subseteq U, \A u \in U : \E x \in S : u \in A[x]
  PROVE  /\ IsFiniteSet(Units(f)) /\ Total(f) \in Nat
         /\ IsFiniteSet(U) /\ Cardinality(U) \in Nat /\ Cardinality(U) <= Total(f)
         /\ (\A x, y \in S : x # y => A[x] \cap A[y] = {}) => Cardinality(U) = Total(f)
  <1>1. f \in [S -> Nat] OBVIOUS
  <1>2. IsFiniteSet(Units(f))
    <2> DEFINE part == [x \in S |-> {x} \X (1..f[x])]
    <2>1. \A x \in S : IsFiniteSet(part[x])
      <3> TAKE x \in S
      <3>1. f[x] \in Nat BY <1>1
      <3>2. IsFiniteSet({x}) BY FS_Singleton, Zenon
      <3>3. IsFiniteSet(1..f[x]) BY <3>1, FS_Interval
      <3>4. IsFiniteSet({x} \X (1..f[x])) BY <3>2, <3>3, FS_Product
      <3> QED BY <3>4
    <2>2. Units(f) = UNION {part[x] : x \in S} BY DEF Units
    <2>3. IsFiniteSet({part[x] : x \in S})
      <3> DEFINE P == {part[x] : x \in S}
      <3>1. DOMAIN part = S /\ \A t \in P : \E x \in S : t = part[x] OBVIOUS
      <3> HIDE DEF part, P
      <3>2. IsFiniteSet(P) BY <3>1, FiniteRange
      <3> QED BY <3>2 DEF P
    <2>4. IsFiniteSet(UNION {part[x] : x \in S})
      <3> DEFINE P == {part[x] : x \in S}
      <3>1. \A T \in P : IsFiniteSet(T) BY <2>1
      <3> HIDE DEF P
      <3>2. IsFiniteSet(UNION P)
        <4>1. IsFiniteSet(P) BY <2>3 DEF P
        <4> QED BY <3>1, <4>1, FS_UNION
      <3> QED BY <3>2 DEF P
    <2> QED BY <2>2, <2>4
  <1>3. \A x \in S : Bijection(1..f[x], A[x]) # {}
    BY FS_CardinalityType DEF ExistsBijection
  <1> DEFINE b == [x \in S |-> CHOOSE g \in Bijection(1..f[x], A[x]) : TRUE]
             h == [p \in Units(f) |-> b[p[1]][p[2]]]
  <1>4. \A x \in S : /\ b[x] \in [1..f[x] -> A[x]]
                     /\ \A i, j \in 1..f[x] : b[x][i] = b[x][j] => i = j
                     /\ \A a \in A[x] : \E i \in 1..f[x] : b[x][i] = a
    <2> TAKE x \in S
    <2>1. b[x] \in Bijection(1..f[x], A[x])
      <3>1. Bijection(1..f[x], A[x]) # {} BY <1>3
      <3>2. (CHOOSE g \in Bijection(1..f[x], A[x]) : TRUE) \in Bijection(1..f[x], A[x])
        BY <3>1, Zenon
      <3> QED BY <3>2, Zenon
    <2> HIDE DEF b
    <2>2. b[x] \in [1..f[x] -> A[x]] BY <2>1 DEF Bijection, Injection
    <2>3. \A i, j \in 1..f[x] : b[x][i] = b[x][j] => i = j
      BY <2>1, <2>2 DEF Bijection, Injection, IsInjective
    <2>4. \A a \in A[x] : \E i \in 1..f[x] : b[x][i] = a
      BY <2>1, <2>2 DEF Bijection, Surjection
    <2> QED BY <2>2, <2>3, <2>4
  <1> HIDE DEF b
  <1>5. h \in [Units(f) -> U]
    <2>1. ASSUME NEW p \in Units(f) PROVE b[p[1]][p[2]] \in U BY <1>1, <1>4, UnitsOf
    <2> QED BY <2>1
  <1>6. \A u \in U : \E p \in Units(f) : h[p] = u
    <2> TAKE u \in U
    <2>1. PICK x \in S : u \in A[x] OBVIOUS
    <2>2. PICK i \in 1..f[x] : b[x][i] = u BY <1>4, <2>1
    <2>3. <<x, i>> \in Units(f) BY <1>1, UnitsOf
    <2> QED BY <2>2, <2>3
  <1>7. h \in Surjection(Units(f), U)
    <2> HIDE DEF h
    <2> QED BY <1>5, <1>6, Fun_IsSurj
  <1>8. IsFiniteSet(U) /\ Cardinality(U) <= Total(f) /\ Cardinality(U) \in Nat /\ Total(f) \in Nat
        /\ (h \in Injection(Units(f), U) => Cardinality(U) = Total(f))
    <2> HIDE DEF h
    <2> QED BY <1>2, <1>7, FS_Surjection, FS_CardinalityType DEF Total
  <1>9. ASSUME \A x, y \in S : x # y => A[x] \cap A[y] = {}
        PROVE  h \in Injection(Units(f), U)
    <2>1. ASSUME NEW p \in Units(f), NEW q \in Units(f), h[p] = h[q] PROVE p = q
      <3>1. /\ p = <<p[1], p[2]>> /\ p[1] \in S /\ p[2] \in 1..f[p[1]]
            /\ q = <<q[1], q[2]>> /\ q[1] \in S /\ q[2] \in 1..f[q[1]]
        BY <1>1, UnitsOf
      <3>2. b[p[1]][p[2]] = b[q[1]][q[2]] BY <2>1
      <3>3. b[p[1]][p[2]] \in A[p[1]] /\ b[q[1]][q[2]] \in A[q[1]]
        <4>1. b[p[1]] \in [1..f[p[1]] -> A[p[1]]] /\ b[q[1]] \in [1..f[q[1]] -> A[q[1]]]
          BY <1>4, <3>1
        <4> QED BY <3>1, <4>1
      <3>4. p[1] = q[1]
        <4> SUFFICES ASSUME p[1] # q[1] PROVE FALSE OBVIOUS
        <4>1. A[p[1]] \cap A[q[1]] = {} BY <1>9, <3>1
        <4> QED BY <3>2, <3>3, <4>1
      <3>5. p[2] = q[2] BY <1>4, <3>1, <3>2, <3>4
      <3> QED BY <3>1, <3>4, <3>5
    <2> HIDE DEF h
    <2> QED BY <1>5, <2>1, Fun_IsInj
  <1> QED BY <1>2, <1>8, <1>9

LEMMA OneTo ==
  ASSUME NEW n \in Nat
  PROVE  IsFiniteSet(1..n) /\ Cardinality(1..n) = n
  BY FS_Interval

\* The sum of natural numbers over a finite set is one.
LEMMA TotalType ==
  ASSUME NEW S, IsFiniteSet(S), NEW f \in [S -> Nat]
  PROVE  IsFiniteSet(Units(f)) /\ Total(f) \in Nat
  <1> DEFINE A == [x \in S |-> 1..f[x]]
             U == UNION {A[x] : x \in S}
  <1>1. \A x \in S : f[x] \in Nat /\ IsFiniteSet(A[x]) /\ Cardinality(A[x]) = f[x]
    <2> TAKE x \in S
    <2>1. f[x] \in Nat OBVIOUS
    <2> QED BY <2>1, OneTo
  <1>2. DOMAIN A = S /\ \A x \in S : f[x] = Cardinality(A[x]) BY <1>1
  <1>3. \A x \in S : A[x] \subseteq U OBVIOUS
  <1>4. \A u \in U : \E x \in S : u \in A[x] OBVIOUS
  <1> HIDE DEF A, U
  <1> QED BY <1>1, <1>2, <1>3, <1>4, UnionOfParts

\* The counts of a set of rows by one of their attributes sum up to its count.
LEMMA TallyAddsUp ==
  ASSUME NEW R, IsFiniteSet(R), \A r \in R : r.count \in Nat, NEW of
  PROVE  /\ Sum(R) \in Nat
         /\ DOMAIN Tally(R, of) = {of[r] : r \in R} /\ IsFiniteSet(DOMAIN Tally(R, of))
         /\ Tally(R, of) \in [DOMAIN Tally(R, of) -> Nat]
         /\ Total(Tally(R, of)) = Sum(R)
  <1> DEFINE K == {of[r] : r \in R}
             Of(k) == {r \in R : of[r] = k}
             counts(Q) == [r \in Q |-> r.count]
             A == [k \in K |-> Units(counts(Of(k)))]
             U == Units(counts(R))
  <1>1. IsFiniteSet(K)
    <2> DEFINE f == [r \in R |-> of[r]]
    <2>1. DOMAIN f = R /\ \A k \in K : \E r \in R : k = f[r] OBVIOUS
    <2> HIDE DEF f, K
    <2> QED BY <2>1, FiniteRange
  <1>2. ASSUME NEW Q \in SUBSET R
        PROVE  counts(Q) \in [Q -> Nat] /\ IsFiniteSet(Units(counts(Q))) /\ Total(counts(Q)) \in Nat
    <2>1. counts(Q) \in [Q -> Nat] OBVIOUS
    <2>2. IsFiniteSet(Q) BY FS_Subset
    <2> HIDE DEF counts
    <2> QED BY <2>1, <2>2, TotalType
  <1>3. \A k \in K : Of(k) \in SUBSET R OBVIOUS
  <1>4. \A Q : Sum(Q) = Cardinality(Units(counts(Q))) BY DEF Sum, Total
  <1>5. DOMAIN A = K /\ \A k \in K : IsFiniteSet(A[k]) BY <1>2, <1>3
  <1>6. Tally(R, of) \in [K -> Nat] /\ \A k \in K : Tally(R, of)[k] = Cardinality(A[k])
    <2>1. Tally(R, of) = [k \in K |-> Cardinality(A[k])] BY <1>4 DEF Tally
    <2>2. \A k \in K : Cardinality(A[k]) \in Nat BY <1>5, FS_CardinalityType
    <2> HIDE DEF A, K
    <2> QED BY <2>1, <2>2
  <1>7. \A k \in K : A[k] \subseteq U
    <2> SUFFICES ASSUME NEW k \in K, NEW p \in Units(counts(Of(k))) PROVE p \in U OBVIOUS
    <2>1. p = <<p[1], p[2]>> /\ p[1] \in Of(k) /\ p[2] \in 1..counts(Of(k))[p[1]]
      <3>1. counts(Of(k)) \in [Of(k) -> Nat] BY <1>2, <1>3
      <3> HIDE DEF counts, Of
      <3> QED BY <3>1, UnitsOf
    <2>2. p[1] \in R /\ p[2] \in 1..counts(R)[p[1]] BY <2>1
    <2>3. counts(R) \in [R -> Nat] BY <1>2
    <2> HIDE DEF counts
    <2> QED BY <2>1, <2>2, <2>3, UnitsOf
  <1>8. \A u \in U : \E k \in K : u \in A[k]
    <2> SUFFICES ASSUME NEW p \in U PROVE \E k \in K : p \in Units(counts(Of(k))) OBVIOUS
    <2>1. p = <<p[1], p[2]>> /\ p[1] \in R /\ p[2] \in 1..counts(R)[p[1]]
      <3>1. counts(R) \in [R -> Nat] BY <1>2
      <3> HIDE DEF counts
      <3> QED BY <3>1, UnitsOf
    <2> DEFINE k == of[p[1]]
    <2>2. k \in K /\ p[1] \in Of(k) /\ p[2] \in 1..counts(Of(k))[p[1]] BY <2>1
    <2>3. counts(Of(k)) \in [Of(k) -> Nat] BY <1>2, <1>3, <2>2
    <2> HIDE DEF counts, Of, k, K
    <2>4. p \in Units(counts(Of(k))) BY <2>1, <2>2, <2>3, UnitsOf
    <2> QED BY <2>2, <2>4
  <1>9. \A j, k \in K : j # k => A[j] \cap A[k] = {}
    <2> SUFFICES ASSUME NEW j \in K, NEW k \in K, j # k,
                        NEW p, p \in Units(counts(Of(j))), p \in Units(counts(Of(k)))
                 PROVE  FALSE
      OBVIOUS
    <2>1. counts(Of(j)) \in [Of(j) -> Nat] /\ counts(Of(k)) \in [Of(k) -> Nat] BY <1>2, <1>3
    <2>2. p[1] \in Of(j) /\ p[1] \in Of(k)
      <3> HIDE DEF counts, Of
      <3> QED BY <2>1, UnitsOf
    <2> QED BY <2>2
  <1>10. Sum(R) = Cardinality(U) /\ Sum(R) \in Nat BY <1>2, <1>4 DEF Total
  <1>11. Tally(R, of) \in [K -> Nat] /\ Cardinality(U) = Total(Tally(R, of))
    <2> HIDE DEF K, A, U
    <2> QED BY <1>1, <1>5, <1>6, <1>7, <1>8, <1>9, UnionOfParts
  <1>12. DOMAIN Tally(R, of) = K BY DEF Tally
  <1>13. DOMAIN Tally(R, of) = K /\ IsFiniteSet(DOMAIN Tally(R, of))
         /\ Tally(R, of) \in [DOMAIN Tally(R, of) -> Nat]
    <2> HIDE DEF K
    <2> QED BY <1>1, <1>11, <1>12
  <1> QED BY <1>10, <1>11, <1>13

\* No name of rows is one that every object has, or __proto__.
Ordinary(R, of) == \A r \in R : of[r] \notin Inherited \cup {Proto}

\* Then increment counts what there is.
LEMMA CountsAreTallies ==
  ASSUME NEW R, NEW of, Ordinary(R, of)
  PROVE  CountBy(R, of) = Tally(R, of)
  <1> DEFINE t == Tally(R, of)
  <1>1. \A k \in DOMAIN t : k \notin Inherited \cup {Proto} BY DEF Tally, Ordinary
  <1>2. t = [k \in DOMAIN t |-> t[k]] BY DEF Tally
  <1>3. CountBy(R, of) = [k \in DOMAIN t \ {Proto} |-> IF k \in Inherited THEN Text ELSE t[k]]
    BY DEF CountBy
  <1> HIDE DEF t
  <1>4. DOMAIN t \ {Proto} = DOMAIN t BY <1>1
  <1>5. CountBy(R, of) = [k \in DOMAIN t |-> t[k]] BY <1>1, <1>3, <1>4
  <1> QED BY <1>2, <1>5 DEF t

\* Pairs, counted by their first parts.
LEMMA PairsBy ==
  ASSUME NEW K, IsFiniteSet(K), NEW B, DOMAIN B = K, \A k \in K : IsFiniteSet(B[k]),
         NEW f \in [K -> Nat], \A k \in K : f[k] = Cardinality(B[k]),
         NEW U, \A u \in U : u = <<u[1], u[2]>> /\ u[1] \in K /\ u[2] \in B[u[1]],
         \A k \in K : \A x \in B[k] : <<k, x>> \in U
  PROVE  Cardinality(U) = Total(f) /\ Cardinality(U) \in Nat
  <1> DEFINE A == [k \in K |-> {k} \X B[k]]
  <1>1. \A k \in K : IsFiniteSet(A[k]) /\ Cardinality(A[k]) = f[k]
    <2> TAKE k \in K
    <2>1. IsFiniteSet({k}) /\ Cardinality({k}) = 1 BY FS_Singleton, Zenon
    <2>2. IsFiniteSet(B[k]) /\ Cardinality(B[k]) = f[k] /\ f[k] \in Nat OBVIOUS
    <2>3. /\ IsFiniteSet({k} \X B[k])
          /\ Cardinality({k} \X B[k]) = Cardinality({k}) * Cardinality(B[k])
      BY <2>1, <2>2, FS_Product
    <2> QED BY <2>1, <2>2, <2>3
  <1>2. \A k \in K : f[k] = Cardinality(A[k]) BY <1>1
  <1>3. \A k \in K : A[k] \subseteq U OBVIOUS
  <1>4. \A u \in U : \E k \in K : u \in A[k]
    <2> TAKE u \in U
    <2>1. u = <<u[1], u[2]>> /\ u[1] \in K /\ u[2] \in B[u[1]] OBVIOUS
    <2> QED BY <2>1
  <1>5. \A j, k \in K : j # k => A[j] \cap A[k] = {} OBVIOUS
  <1>6. DOMAIN A = K /\ \A k \in K : IsFiniteSet(A[k]) BY <1>1
  <1> HIDE DEF A
  <1> QED BY <1>2, <1>3, <1>4, <1>5, <1>6, UnionOfParts

-----------------------------------------------------------------------------
(* The top of a list *)

\* The counts shown, in order.
Heights(c) == [i \in Shown(c) |-> c[Sorted(c)[i]]]

\* The order of labels, and the place of one among all.
Higher(c, a, b) == Before(c, Labels(c), a, b)
Rank(c, a) == Place(c, Labels(c), a)

LEMMA RankOf ==
  ASSUME NEW D, NEW c, DOMAIN c = D
  PROVE  /\ \A a, b \in D : Higher(c, a, b) <=> c[a] > c[b] \/ (c[a] = c[b] /\ a < b)
         /\ \A i \in Shown(c) : Sorted(c)[i] = CHOOSE a \in D : Rank(c, a) = i
  <1>1. \A a, b \in D : Higher(c, a, b) <=> c[a] > c[b] \/ (c[a] = c[b] /\ a < b)
    BY DEF Higher, Before, Labels
  <1>2. \A i \in Shown(c) : Sorted(c)[i] = CHOOSE a \in D : Rank(c, a) = i
    BY DEF Sorted, Rank
  <1> QED BY <1>1, <1>2

\* The place of a label is how many are higher, and one.
LEMMA RankIs ==
  ASSUME NEW D, NEW c, DOMAIN c = D, NEW a, NEW B \in SUBSET D, \A b \in D : b \in B <=> Higher(c, b, a)
  PROVE  Rank(c, a) = Cardinality(B) + 1
  <1>1. B = {b \in DOMAIN c : Before(c, Labels(c), b, a)} BY DEF Higher
  <1> QED BY <1>1 DEF Rank, Place

\* Of two labels one is before the other, and the places follow that order.
LEMMA RankGrows ==
  ASSUME NEW D \in SUBSET Int, IsFiniteSet(D), NEW c \in [D -> Nat]
  PROVE  /\ \A a \in D : Rank(c, a) \in 1..Cardinality(D)
         /\ \A a, b \in D : Higher(c, a, b) => Rank(c, a) < Rank(c, b)
         /\ \A a, b \in D : Rank(c, a) = Rank(c, b) => a = b
  <1> DEFINE B(a) == {b \in D : Higher(c, b, a)}
  <1>0. /\ \A a \in D : a \in Int /\ c[a] \in Nat
        /\ \A a, b \in D : Higher(c, a, b) <=> c[a] > c[b] \/ (c[a] = c[b] /\ a < b)
    BY RankOf
  <1>1. \A a \in D : Rank(c, a) = Cardinality(B(a)) + 1
    <2> TAKE a \in D
    <2> DEFINE S == B(a)
    <2>1. DOMAIN c = D /\ S \in SUBSET D /\ \A b \in D : b \in S <=> Higher(c, b, a) OBVIOUS
    <2> HIDE DEF S
    <2>2. Rank(c, a) = Cardinality(S) + 1 BY <2>1, RankIs
    <2> QED BY <2>2 DEF S
  <1>2. \A a \in D : B(a) \subseteq D /\ IsFiniteSet(B(a)) /\ Cardinality(B(a)) \in Nat
    BY FS_Subset, FS_CardinalityType
  <1>3. \A a \in D : a \notin B(a) BY <1>0
  <1>4. ASSUME NEW a \in D, NEW b \in D, Higher(c, a, b)
        PROVE  Rank(c, a) < Rank(c, b)
    <2>1. B(a) \subseteq B(b)
      <3> SUFFICES ASSUME NEW x \in D, Higher(c, x, a) PROVE Higher(c, x, b) OBVIOUS
      <3> QED BY <1>0, <1>4
    <2>2. a \in B(b) BY <1>4
    <2>3. Cardinality(B(a)) <= Cardinality(B(b)) /\ Cardinality(B(a)) # Cardinality(B(b))
      <3>1. B(a) # B(b) BY <1>3, <2>2
      <3> HIDE DEF B
      <3> QED BY <2>1, <3>1, <1>2, FS_Subset
    <2> HIDE DEF B
    <2> QED BY <1>1, <1>2, <2>3
  <1>5. ASSUME NEW a \in D PROVE Rank(c, a) \in 1..Cardinality(D)
    <2>1. Cardinality(B(a)) <= Cardinality(D) /\ Cardinality(B(a)) # Cardinality(D)
      <3>1. B(a) # D BY <1>3
      <3> HIDE DEF B
      <3> QED BY <1>2, <3>1, FS_Subset, FS_CardinalityType
    <2>2. Cardinality(D) \in Nat BY FS_CardinalityType
    <2> HIDE DEF B
    <2> QED BY <1>1, <1>2, <2>1, <2>2
  <1>6. ASSUME NEW a \in D, NEW b \in D, Rank(c, a) = Rank(c, b) PROVE a = b
    <2>1. ~Higher(c, a, b) /\ ~Higher(c, b, a)
      <3>1. Rank(c, a) \in Int /\ Rank(c, b) \in Int BY <1>5
      <3> QED BY <1>4, <1>6, <3>1
    <2> QED BY <1>0, <2>1
  <1> QED BY <1>4, <1>5, <1>6

\* What is shown is sorted: each label at its place.
LEMMA SortedType ==
  ASSUME NEW D \in SUBSET Int, IsFiniteSet(D), NEW c \in [D -> Nat]
  PROVE  /\ Cardinality(D) \in Nat
         /\ Shown(c) = {i \in 1..Cardinality(D) : i <= TopLimit} /\ IsFiniteSet(Shown(c))
         /\ \A i \in Shown(c) : Sorted(c)[i] \in D /\ Rank(c, Sorted(c)[i]) = i
         /\ \A a \in D : Rank(c, a) \in Shown(c) => Sorted(c)[Rank(c, a)] = a
         /\ Heights(c) \in [Shown(c) -> Nat]
         /\ \A i, j \in Shown(c) : i < j => Heights(c)[i] >= Heights(c)[j]
  <1> DEFINE f == [a \in D |-> Rank(c, a)]
             n == Cardinality(D)
             T == 1..n
  <1>1. n \in Nat /\ DOMAIN c = D BY FS_CardinalityType
  <1>2. f \in [D -> T] BY RankGrows
  <1>3. f \in Injection(D, T) BY <1>2, RankGrows, Fun_IsInj
  <1>4. IsFiniteSet(T) /\ Cardinality(T) = n BY <1>1, OneTo
  <1>5. f \in Surjection(D, T)
    <2> HIDE DEF f, T
    <2> QED BY <1>3, <1>4, FS_Injection
  <1>6. \A i \in T : \E a \in D : Rank(c, a) = i
    <2>1. \A i \in T : \E a \in D : f[a] = i
      <3> HIDE DEF f, T
      <3> QED BY <1>5 DEF Surjection
    <2> QED BY <2>1
  <1>7. Shown(c) = {i \in T : i <= TopLimit} BY <1>1 DEF Shown
  <1>8. \A i \in Shown(c) : Sorted(c)[i] = CHOOSE a \in D : Rank(c, a) = i BY <1>1, RankOf
  <1>9. \A i \in Shown(c) : Sorted(c)[i] \in D /\ Rank(c, Sorted(c)[i]) = i
    <2> TAKE i \in Shown(c)
    <2>1. \E a \in D : Rank(c, a) = i BY <1>6, <1>7
    <2>2. (CHOOSE a \in D : Rank(c, a) = i) \in D /\ Rank(c, CHOOSE a \in D : Rank(c, a) = i) = i
      BY <2>1, Zenon
    <2> QED BY <1>8, <2>2
  <1>10. \A a \in D : Rank(c, a) \in Shown(c) => Sorted(c)[Rank(c, a)] = a
    <2> SUFFICES ASSUME NEW a \in D, NEW i \in Shown(c), Rank(c, a) = i PROVE Sorted(c)[i] = a OBVIOUS
    <2>1. Sorted(c)[i] \in D /\ Rank(c, Sorted(c)[i]) = Rank(c, a) BY <1>9
    <2> QED BY <2>1, RankGrows
  <1>11. IsFiniteSet(Shown(c)) BY <1>4, <1>7, FS_Subset
  <1>12. Heights(c) \in [Shown(c) -> Nat] BY <1>9 DEF Heights
  <1>13. ASSUME NEW i \in Shown(c), NEW j \in Shown(c), i < j PROVE Heights(c)[i] >= Heights(c)[j]
    <2> DEFINE a == Sorted(c)[i]
               b == Sorted(c)[j]
    <2>1. a \in D /\ b \in D /\ Rank(c, a) = i /\ Rank(c, b) = j BY <1>9
    <2>2. Heights(c)[i] = c[a] /\ Heights(c)[j] = c[b] BY DEF Heights
    <2> HIDE DEF a, b
    <2>3. i \in Int /\ j \in Int BY <1>1, <1>7
    <2>4. ~Higher(c, b, a) BY <2>1, <2>3, <1>13, RankGrows
    <2>5. c[a] \in Nat /\ c[b] \in Nat BY <2>1
    <2> QED BY <1>1, <2>1, <2>2, <2>4, <2>5, RankOf
  <1> QED BY <1>1, <1>7, <1>9, <1>10, <1>11, <1>12, <1>13

\* What is shown is no more than there is, and all of it unless it is cut off.
LEMMA TopAddsUp ==
  ASSUME NEW D \in SUBSET Int, IsFiniteSet(D), NEW c \in [D -> Nat]
  PROVE  /\ Total(Heights(c)) \in Nat
         /\ Total(Heights(c)) <= Total(c)
         /\ Cardinality(D) <= TopLimit => Total(Heights(c)) = Total(c)
  <1> DEFINE S == Shown(c)
             A == [i \in S |-> {Sorted(c)[i]} \X (1..c[Sorted(c)[i]])]
             U == UNION {A[i] : i \in S}
  <1>1. /\ \A i \in S : Sorted(c)[i] \in D /\ Rank(c, Sorted(c)[i]) = i
        /\ Heights(c) \in [S -> Nat] /\ \A i \in S : Heights(c)[i] = c[Sorted(c)[i]]
        /\ IsFiniteSet(S)
    BY SortedType DEF Heights
  <1>2. \A i \in S : IsFiniteSet(A[i]) /\ Cardinality(A[i]) = Heights(c)[i]
    <2> SUFFICES ASSUME NEW a, NEW n \in Nat
                 PROVE  IsFiniteSet({a} \X (1..n)) /\ Cardinality({a} \X (1..n)) = n
      BY <1>1
    <2>1. IsFiniteSet({a}) /\ Cardinality({a}) = 1 BY FS_Singleton, Zenon
    <2>2. IsFiniteSet(1..n) /\ Cardinality(1..n) = n BY OneTo
    <2>3. /\ IsFiniteSet({a} \X (1..n))
          /\ Cardinality({a} \X (1..n)) = Cardinality({a}) * Cardinality(1..n)
      BY <2>1, <2>2, FS_Product
    <2> QED BY <2>1, <2>2, <2>3
  <1>3. \A i \in S : Heights(c)[i] = Cardinality(A[i]) BY <1>2
  <1>4. \A i \in S : A[i] \subseteq U OBVIOUS
  <1>5. \A u \in U : \E i \in S : u \in A[i] OBVIOUS
  <1>6. \A i, j \in S : i # j => A[i] \cap A[j] = {}
    <2> SUFFICES ASSUME NEW i \in S, NEW j \in S, Sorted(c)[i] = Sorted(c)[j] PROVE i = j OBVIOUS
    <2> QED BY <1>1
  <1>7. DOMAIN A = S /\ \A i \in S : IsFiniteSet(A[i]) BY <1>2
  <1>8. Total(Heights(c)) = Cardinality(U) /\ Total(Heights(c)) \in Nat
    <2> DEFINE h == Heights(c)
    <2>1. h \in [S -> Nat] /\ IsFiniteSet(S) /\ \A i \in S : h[i] = Cardinality(A[i]) BY <1>1, <1>3
    <2> HIDE DEF S, A, U, h
    <2>2. Total(h) = Cardinality(U) /\ Total(h) \in Nat
      BY <1>4, <1>5, <1>6, <1>7, <2>1, UnionOfParts
    <2> QED BY <2>2 DEF h
  <1>9. U \subseteq Units(c)
    <2> SUFFICES ASSUME NEW i \in S, NEW u \in A[i] PROVE u \in Units(c) OBVIOUS
    <2>1. u = <<u[1], u[2]>> /\ u[1] \in D /\ u[2] \in 1..c[u[1]] BY <1>1
    <2> HIDE DEF A
    <2> QED BY <2>1, UnitsOf
  <1>10. IsFiniteSet(Units(c)) BY TotalType
  <1>11. Cardinality(D) <= TopLimit => Units(c) \subseteq U
    <2> SUFFICES ASSUME Cardinality(D) <= TopLimit, NEW u \in Units(c) PROVE u \in U OBVIOUS
    <2>1. u = <<u[1], u[2]>> /\ u[1] \in D /\ u[2] \in 1..c[u[1]] BY UnitsOf
    <2> DEFINE i == Rank(c, u[1])
    <2>2. i \in 1..Cardinality(D) /\ Cardinality(D) \in Nat BY <2>1, RankGrows, SortedType
    <2>3. TopLimit \in Nat BY DailySummaryAssumption
    <2>4. i \in S BY <2>2, <2>3, SortedType
    <2>5. Sorted(c)[i] = u[1] BY <2>1, <2>4, SortedType
    <2> HIDE DEF i, S
    <2>6. u \in A[i] BY <2>1, <2>4, <2>5
    <2> HIDE DEF A
    <2> QED BY <2>4, <2>6
  <1> HIDE DEF U
  <1>12. Cardinality(U) <= Total(c) BY <1>9, <1>10, FS_Subset DEF Total
  <1>13. Cardinality(D) <= TopLimit => Cardinality(U) = Total(c) BY <1>9, <1>11 DEF Total
  <1> QED BY <1>8, <1>12, <1>13


\* The top of a list does not show what its labels are: labels that tell the
\* same apart show the same counts in the same order.
LEMMA SameSize ==
  ASSUME NEW S, IsFiniteSet(S), NEW T, NEW g \in [S -> T],
         \A a, b \in S : g[a] = g[b] => a = b, \A b \in T : \E a \in S : g[a] = b
  PROVE  Cardinality(S) = Cardinality(T)
  <1>1. g \in Bijection(S, T) BY Fun_IsInj, Fun_IsSurj DEF Bijection
  <1> QED BY <1>1, FS_Bijection DEF ExistsBijection

\* The count at a place is the most that as many labels reach.
LEMMA HeightIsReached ==
  ASSUME NEW D \in SUBSET Int, IsFiniteSet(D), NEW c \in [D -> Nat], NEW i \in Shown(c), NEW v \in Nat
  PROVE  Heights(c)[i] >= v <=> Cardinality({a \in D : c[a] >= v}) >= i
  <1>1. PICK a \in D : Heights(c)[i] = c[a] /\ Rank(c, a) = i
    <2>1. Sorted(c)[i] \in D /\ Rank(c, Sorted(c)[i]) = i BY SortedType
    <2>2. Heights(c)[i] = c[Sorted(c)[i]] BY DEF Heights
    <2> QED BY <2>1, <2>2
  <1> DEFINE B == {b \in D : Higher(c, b, a)}
             R == {b \in D : c[b] >= v}
  <1>2. /\ i \in Int /\ a \in Int /\ c[a] \in Nat /\ \A b \in D : b \in Int /\ c[b] \in Nat
        /\ \A b \in D : Higher(c, b, a) <=> c[b] > c[a] \/ (c[b] = c[a] /\ b < a)
    BY SortedType, RankOf
  <1>3. IsFiniteSet(B) /\ IsFiniteSet(R) /\ Cardinality(B) \in Nat /\ Cardinality(R) \in Nat
    BY FS_Subset, FS_CardinalityType
  <1>4. Cardinality(B) = i - 1
    <2>1. i = Cardinality(B) + 1
      <3>1. DOMAIN c = D /\ B \in SUBSET D /\ \A b \in D : b \in B <=> Higher(c, b, a) OBVIOUS
      <3> HIDE DEF B
      <3> QED BY <1>1, <3>1, RankIs
    <2> HIDE DEF B
    <2> QED BY <2>1, <1>3
  <1>5. ASSUME c[a] >= v PROVE Cardinality(R) >= i
    <2>1. \A b \in B : c[b] >= c[a] /\ b # a BY <1>2
    <2>2. a \notin B BY <2>1
    <2>3. \A b \in B : b \in D /\ c[b] >= v BY <1>2, <1>5, <2>1
    <2>4. B \cup {a} \subseteq R BY <1>5, <2>3
    <2> HIDE DEF B, R
    <2>5. Cardinality(B \cup {a}) = Cardinality(B) + 1 BY <1>3, <2>2, FS_AddElement
    <2>6. Cardinality(B \cup {a}) <= Cardinality(R) BY <2>4, <1>3, FS_Subset
    <2> QED BY <2>5, <2>6, <1>2, <1>3, <1>4
  <1>6. ASSUME ~(c[a] >= v) PROVE ~(Cardinality(R) >= i)
    <2>1. \A b \in R : c[b] > c[a] BY <1>2, <1>6
    <2>2. R \subseteq B BY <1>2, <2>1
    <2> HIDE DEF B, R
    <2>3. Cardinality(R) <= Cardinality(B) BY <2>2, <1>3, FS_Subset
    <2> QED BY <2>3, <1>2, <1>3, <1>4
  <1>7. c[a] >= v <=> Cardinality(R) >= i
    <2> HIDE DEF R
    <2> QED BY <1>5, <1>6
  <1> QED BY <1>1, <1>7

LEMMA TopIsBlind ==
  ASSUME NEW Q, IsFiniteSet(Q), \A r \in Q : r.count \in Nat, NEW l, NEW m,
         \A r \in Q : l[r] \in Int /\ m[r] \in Int,
         \A q, r \in Q : l[q] = l[r] <=> m[q] = m[r]
  PROVE  Heights(Tally(Q, l)) = Heights(Tally(Q, m))
  <1> DEFINE c == Tally(Q, l)
             d == Tally(Q, m)
             C == {l[r] : r \in Q}
             D == {m[r] : r \in Q}
  <1>1. /\ C \in SUBSET Int /\ IsFiniteSet(C) /\ c \in [C -> Nat]
        /\ D \in SUBSET Int /\ IsFiniteSet(D) /\ d \in [D -> Nat]
    <2>1. C \in SUBSET Int /\ D \in SUBSET Int OBVIOUS
    <2>2. DOMAIN c = C /\ DOMAIN d = D BY DEF Tally
    <2>3. IsFiniteSet(DOMAIN c) /\ c \in [DOMAIN c -> Nat] BY TallyAddsUp
    <2>4. IsFiniteSet(DOMAIN d) /\ d \in [DOMAIN d -> Nat] BY TallyAddsUp
    <2> HIDE DEF C, D, c, d
    <2> QED BY <2>1, <2>2, <2>3, <2>4
  <1> DEFINE g == [a \in C |-> m[CHOOSE r \in Q : l[r] = a]]
  <1>2. \A r \in Q : l[r] \in C /\ m[r] \in D /\ g[l[r]] = m[r]
    <2> TAKE r \in Q
    <2> DEFINE p == CHOOSE q \in Q : l[q] = l[r]
    <2>1. p \in Q /\ l[p] = l[r] OBVIOUS
    <2>2. l[r] \in C /\ m[r] \in D /\ g[l[r]] = m[p] OBVIOUS
    <2> HIDE DEF p, g, C, D
    <2> QED BY <2>1, <2>2
  <1>3. /\ \A a \in C : \E r \in Q : a = l[r]
        /\ \A b \in D : \E r \in Q : b = m[r]
        /\ g = [a \in C |-> g[a]]
    OBVIOUS
  <1>4. \A r \in Q : c[l[r]] = d[m[r]]
    <2> TAKE r \in Q
    <2>1. {q \in Q : l[q] = l[r]} = {q \in Q : m[q] = m[r]} OBVIOUS
    <2>2. c[l[r]] = Sum({q \in Q : l[q] = l[r]}) BY DEF Tally
    <2>3. d[m[r]] = Sum({q \in Q : m[q] = m[r]}) BY DEF Tally
    <2> HIDE DEF c, d
    <2> QED BY <2>1, <2>2, <2>3
  <1> HIDE DEF C, D, c, d, g
  <1>5. /\ g \in [C -> D]
        /\ \A a, b \in C : g[a] = g[b] => a = b
        /\ \A b \in D : \E a \in C : g[a] = b
        /\ \A a \in C : d[g[a]] = c[a]
    BY <1>2, <1>3, <1>4
  <1>6. Cardinality(C) = Cardinality(D)
    <2>1. IsFiniteSet(C) BY <1>1
    <2> QED BY <1>5, <2>1, SameSize
  <1>7. Shown(c) = Shown(d) BY <1>1, <1>6, SortedType
  <1>8. ASSUME NEW v \in Nat
        PROVE  Cardinality({a \in C : c[a] >= v}) = Cardinality({a \in D : d[a] >= v})
    <2> DEFINE A == {a \in C : c[a] >= v}
               B == {a \in D : d[a] >= v}
               h == [a \in A |-> g[a]]
    <2>1. IsFiniteSet(A) /\ A \subseteq C BY <1>1, FS_Subset
    <2>2. h \in [A -> B] BY <1>5
    <2>3. \A a, b \in A : h[a] = h[b] => a = b BY <1>5
    <2>4. \A b \in B : \E a \in A : h[a] = b BY <1>5
    <2> HIDE DEF A, B, h
    <2>5. Cardinality(A) = Cardinality(B) BY <2>1, <2>2, <2>3, <2>4, SameSize
    <2> QED BY <2>5 DEF A, B
  <1>9. /\ Heights(c) \in [Shown(c) -> Nat] /\ Heights(d) \in [Shown(c) -> Nat]
    <2>1. Heights(c) \in [Shown(c) -> Nat] BY <1>1, SortedType
    <2>2. Heights(d) \in [Shown(d) -> Nat] BY <1>1, SortedType
    <2> QED BY <2>1, <2>2, <1>7
  <1>10. ASSUME NEW i \in Shown(c) PROVE Heights(c)[i] = Heights(d)[i]
    <2>1. i \in Shown(d) /\ Heights(c)[i] \in Nat /\ Heights(d)[i] \in Nat BY <1>7, <1>9
    <2>2. ASSUME NEW v \in Nat PROVE Heights(c)[i] >= v <=> Heights(d)[i] >= v
      <3>1. Heights(c)[i] >= v <=> Cardinality({a \in C : c[a] >= v}) >= i
        BY <1>1, HeightIsReached
      <3>2. Heights(d)[i] >= v <=> Cardinality({a \in D : d[a] >= v}) >= i
        BY <1>1, <2>1, HeightIsReached
      <3> QED BY <3>1, <3>2, <1>8
    <2>3. Heights(d)[i] >= Heights(c)[i] BY <2>1, <2>2
    <2>4. Heights(c)[i] >= Heights(d)[i] BY <2>1, <2>2
    <2> QED BY <2>1, <2>3, <2>4
  <1>11. Heights(c) = Heights(d) BY <1>9, <1>10
  <1> QED BY <1>11 DEF c, d

-----------------------------------------------------------------------------
(* A summary *)

LEMMA OneKey ==
  ASSUME NEW x, NEW n \in Nat
  PROVE  Total([a \in {x} |-> n]) = n
  <1> DEFINE S == {x}
             f == [a \in S |-> n]
             A == [a \in S |-> 1..n]
             U == 1..n
  <1>1. IsFiniteSet(U) /\ Cardinality(U) = n BY OneTo
  <1>2. IsFiniteSet(S) BY FS_Singleton, Zenon
  <1>3. f \in [S -> Nat] /\ DOMAIN A = S /\ \A a \in S : IsFiniteSet(A[a]) /\ f[a] = Cardinality(A[a]) BY <1>1
  <1>4. /\ \A a \in S : A[a] \subseteq U
        /\ \A u \in U : \E a \in S : u \in A[a]
        /\ \A a, b \in S : a # b => A[a] \cap A[b] = {}
    OBVIOUS
  <1>5. Cardinality(U) = Total(f)
    <2> HIDE DEF S, f, A, U
    <2> QED BY <1>2, <1>3, <1>4, UnionOfParts
  <1> QED BY <1>1, <1>5

\* What the proofs need to know of a set of rows.
FiniteRows(R) == IsFiniteSet(R) /\ \A r \in R : r.count \in Nat
OfEvents(R) == \A r \in R : \E e \in Event : r.key = Key(e)

\* The rows of a day are finitely many, and each is of an event of the day.
LEMMA RowsOfADay ==
  ASSUME NEW E \in SUBSET Event, IsFiniteSet(E), NEW c, NEW d
  PROVE  /\ FiniteRows(Rows(E, c, d)) /\ OfEvents(Rows(E, c, d))
         /\ \A r \in Rows(E, c, d) : \E e \in E : e.company = c /\ InDay(e, d) /\ r.key = Key(e)
  <1> DEFINE M == {e \in E : e.company = c /\ InDay(e, d)}
             key == [e \in M |-> Key(e)]
             K == {key[e] : e \in M}
             row == [k \in K |-> [key |-> k, count |-> Sum({e \in M : Key(e) = k})]]
             G == {row[k] : k \in K}
  <1>1. IsFiniteSet(M) /\ M \subseteq Event BY FS_Subset
  <1>2. IsFiniteSet(K)
    <2>1. DOMAIN key = M /\ \A k \in K : \E e \in M : k = key[e] OBVIOUS
    <2> HIDE DEF M, key, K
    <2> QED BY <1>1, <2>1, FiniteRange
  <1>3. IsFiniteSet(G)
    <2>1. DOMAIN row = K /\ \A g \in G : \E k \in K : g = row[k] OBVIOUS
    <2> HIDE DEF K, row, G
    <2> QED BY <1>2, <2>1, FiniteRange
  <1>4. Groups(E, c, d) = G
    <2>1. {Key(e) : e \in M} = K OBVIOUS
    <2> HIDE DEF M, key
    <2> QED BY <2>1 DEF Groups, M
  <1>5. Rows(E, c, d) \subseteq G BY <1>4 DEF Rows
  <1>6. ASSUME NEW k \in K PROVE row[k].count \in Nat /\ \E e \in M : row[k].key = Key(e)
    <2> DEFINE S == {e \in M : Key(e) = k}
               f == [e \in S |-> e.count]
    <2>1. IsFiniteSet(S) BY <1>1, FS_Subset
    <2>2. \A e \in S : e.count \in Nat BY <1>1, DailySummaryAssumption
    <2>3. Sum(S) \in Nat
      <3>1. f \in [S -> Nat] BY <2>2
      <3>2. Total(f) \in Nat
        <4> HIDE DEF S, f
        <4> QED BY <2>1, <3>1, TotalType
      <3> QED BY <3>2 DEF Sum
    <2>4. row[k] = [key |-> k, count |-> Sum(S)] OBVIOUS
    <2>5. \E e \in M : k = Key(e) OBVIOUS
    <2> HIDE DEF S, row, M
    <2> QED BY <2>3, <2>4, <2>5
  <1>7. \A r \in G : r.count \in Nat /\ \E e \in M : r.key = Key(e)
    <2> HIDE DEF row, K, M
    <2> QED BY <1>6
  <1> HIDE DEF G
  <1>8. IsFiniteSet(Rows(E, c, d)) BY <1>3, <1>5, FS_Subset
  <1> QED BY <1>1, <1>5, <1>7, <1>8 DEF FiniteRows, OfEvents

\* The names of rows are those of events.
LEMMA NamesOfRows ==
  ASSUME NEW R, OfEvents(R)
  PROVE  /\ \A r \in R : r.key.action \notin Inherited \cup {Proto}
         /\ \A r \in R, N \in Namings \cup {Names} :
               N.user[r.key.user] \in Int /\ N.device[r.key.device] \in Int
         /\ \A r \in R, N \in Namings : ProjectLabel(N, r.key.path) \in Int
         /\ \A r \in R : ProjectLabel(Names, r.key.path) \in Int \cup Inherited \cup {Proto}
         /\ \A q, r \in R, N \in Namings :
               ProjectLabel(N, q.key.path) = ProjectLabel(N, r.key.path)
                  <=> ProjectLabel(Names, q.key.path) = ProjectLabel(Names, r.key.path)
  <1>1. \A r \in R : \E e \in Event : /\ r.key.action = e.action /\ r.key.user = e.user
                                      /\ r.key.device = e.device /\ r.key.path = e.path
    <2> TAKE r \in R
    <2>1. PICK e \in Event : r.key = Key(e) BY DEF OfEvents
    <2>2. /\ Key(e).action = e.action /\ Key(e).user = e.user
          /\ Key(e).device = e.device /\ Key(e).path = e.path
      BY DEF Key
    <2> QED BY <2>1, <2>2
  <1>2. ASSUME NEW q \in R, NEW r \in R, NEW N \in Namings
        PROVE  ProjectLabel(N, q.key.path) = ProjectLabel(N, r.key.path)
                  <=> ProjectLabel(Names, q.key.path) = ProjectLabel(Names, r.key.path)
    <2>1. PICK e \in Event : q.key.path = e.path BY <1>1
    <2>2. PICK f \in Event : r.key.path = f.path BY <1>1
    <2>3. N.label[e.path] = N.label[f.path] <=> Names.label[e.path] = Names.label[f.path]
      BY DailySummaryAssumption
    <2> QED BY <2>1, <2>2, <2>3 DEF ProjectLabel
  <1>3. ASSUME NEW r \in R
        PROVE  /\ r.key.action \notin Inherited \cup {Proto}
               /\ \A N \in Namings \cup {Names} :
                     N.user[r.key.user] \in Int /\ N.device[r.key.device] \in Int
               /\ \A N \in Namings : ProjectLabel(N, r.key.path) \in Int
               /\ ProjectLabel(Names, r.key.path) \in Int \cup Inherited \cup {Proto}
    <2>1. PICK e \in Event : /\ r.key.action = e.action /\ r.key.user = e.user
                             /\ r.key.device = e.device /\ r.key.path = e.path
      BY <1>1
    <2>2. /\ e.action \notin Inherited \cup {Proto}
          /\ \A N \in Namings \cup {Names} : N.user[e.user] \in Int /\ N.device[e.device] \in Int
          /\ \A N \in Namings : N.label[e.path] \in Int
          /\ Names.label[e.path] \in Int \cup Inherited \cup {Proto}
      BY DailySummaryAssumption
    <2> QED BY <2>1, <2>2 DEF ProjectLabel
  <1> QED BY <1>2, <1>3


\* What is stored of a user: the texts only decide how the counts of the
\* projects are shown, and places.
Of(R, u) == {r \in R : r.key.user = u}
On(Q, v) == {r \in Q : r.key.device = v}
Agents(Q) ==
    LET agents == CountBy(Q, [r \in Q |-> r.key.agent])
    IN  IF DOMAIN agents = {} THEN agents ELSE [a \in {"files-agent"} |-> Sum(Q)]
StoredDevice(Q, v, N) ==
    [label |-> v, events |-> Sum(On(Q, v)), changedPaths |-> Cardinality(PathsOf(On(Q, v))),
     place |-> Place(Tally(Q, [r \in Q |-> r.key.device]), N.device, v)]
Devices(Q, N) == [v \in {r.key.device : r \in Q} |-> StoredDevice(Q, v, N)]
Numbered(top) == [i \in DOMAIN top |-> [top[i] EXCEPT !.label = i]]
StoredUser(R, u, N, top) ==
    [user |-> u, events |-> Sum(Of(R, u)), changedPaths |-> Cardinality(PathsOf(Of(R, u))),
     actions |-> CountBy(Of(R, u), [r \in Of(R, u) |-> r.key.action]),
     agents |-> Agents(Of(R, u)), devices |-> Devices(Of(R, u), N), topProjects |-> Numbered(top),
     place |-> Place(Tally(R, [r \in R |-> r.key.user]), N.user, u)]

LEMMA UserIsStored ==
  ASSUME NEW R, NEW u, NEW N, NEW top
  PROVE  SanitizeUser(u, UserEntry(R, u, N, top)) = StoredUser(R, u, N, top)
  <1> DEFINE Q == Of(R, u)
             agents == CountBy(Q, [r \in Q |-> r.key.agent])
             actions == CountBy(Q, [r \in Q |-> r.key.action])
             devices == [v \in {r.key.device : r \in Q} |-> DeviceEntry(Q, v, N)]
             place == Place(Tally(R, [r \in R |-> r.key.user]), N.user, u)
  <1>1. UserEntry(R, u, N, top) =
          [user |-> DisplayUser(N, u), events |-> Sum(Q), changedPaths |-> Cardinality(PathsOf(Q)),
           actions |-> actions, agents |-> agents, devices |-> devices, topProjects |-> top,
           place |-> place]
    BY DEF UserEntry, Of
  <1>2. Agents(Q) = IF DOMAIN agents = {} THEN agents ELSE [b \in {"files-agent"} |-> Sum(Q)]
    BY DEF Agents
  <1>3. Devices(Q, N) = [v \in DOMAIN devices |-> [devices[v] EXCEPT !.label = v]]
    <2> HIDE DEF Q
    <2>1. ASSUME NEW v PROVE [DeviceEntry(Q, v, N) EXCEPT !.label = v] = StoredDevice(Q, v, N)
      <3> DEFINE n == Sum(On(Q, v))
                 m == Cardinality(PathsOf(On(Q, v)))
                 p == Place(Tally(Q, [r \in Q |-> r.key.device]), N.device, v)
      <3>1. DeviceEntry(Q, v, N) = [label |-> N.device[v], events |-> n, changedPaths |-> m, place |-> p]
        BY DEF DeviceEntry, On
      <3>2. StoredDevice(Q, v, N) = [label |-> v, events |-> n, changedPaths |-> m, place |-> p]
        BY DEF StoredDevice
      <3> HIDE DEF n, m, p
      <3> QED BY <3>1, <3>2
    <2> QED BY <2>1 DEF Devices
  <1>4. StoredUser(R, u, N, top) =
          [user |-> u, events |-> Sum(Q), changedPaths |-> Cardinality(PathsOf(Q)), actions |-> actions,
           agents |-> Agents(Q), devices |-> Devices(Q, N), topProjects |-> Numbered(top),
           place |-> place]
    BY DEF StoredUser
  <1> HIDE DEF Q, agents, actions, devices, place
  <1> DEFINE e == [user |-> DisplayUser(N, u), events |-> Sum(Q), changedPaths |-> Cardinality(PathsOf(Q)),
                   actions |-> actions, agents |-> agents, devices |-> devices, topProjects |-> top,
                   place |-> place]
             g == IF DOMAIN agents = {} THEN agents ELSE [b \in {"files-agent"} |-> Sum(Q)]
             y == [v \in DOMAIN devices |-> [devices[v] EXCEPT !.label = v]]
             z == [i \in DOMAIN top |-> [top[i] EXCEPT !.label = i]]
  <1>5. SanitizeUser(u, e) = [e EXCEPT !.user = u, !.agents = g, !.devices = y, !.topProjects = z]
    BY DEF SanitizeUser
  <1>6. g = Agents(Q) /\ y = Devices(Q, N) /\ z = Numbered(top) BY <1>2, <1>3 DEF Numbered
  <1> HIDE DEF g, y, z
  <1> QED BY <1>1, <1>4, <1>5, <1>6

LEMMA PathsAreFinite ==
  ASSUME NEW Q, FiniteRows(Q)
  PROVE  /\ IsFiniteSet(PathsOf(Q)) /\ Cardinality(PathsOf(Q)) \in Nat
         /\ \A v : FiniteRows(On(Q, v)) /\ PathsOf(On(Q, v)) \subseteq PathsOf(Q)
  <1> DEFINE path == [r \in Q |-> r.key.path]
             P == {path[r] : r \in Q}
  <1>1. P = PathsOf(Q) BY DEF PathsOf
  <1>2. IsFiniteSet(P) /\ Cardinality(P) \in Nat
    <2>1. DOMAIN path = Q /\ \A p \in P : \E r \in Q : p = path[r] OBVIOUS
    <2> HIDE DEF path, P
    <2> QED BY <2>1, FiniteRange DEF FiniteRows
  <1>3. \A v : FiniteRows(On(Q, v)) /\ PathsOf(On(Q, v)) \subseteq PathsOf(Q)
    <2> TAKE v
    <2>1. On(Q, v) \subseteq Q BY DEF On
    <2>2. IsFiniteSet(On(Q, v)) BY <2>1, FS_Subset DEF FiniteRows
    <2> QED BY <2>1, <2>2 DEF FiniteRows, PathsOf
  <1> HIDE DEF P
  <1> QED BY <1>1, <1>2, <1>3

\* The counts of a user by device.
LEMMA DevicesAddUp ==
  ASSUME NEW Q, FiniteRows(Q)
  PROVE  LET V == {r.key.device : r \in Q}
         IN  /\ IsFiniteSet(V)
             /\ \A v \in V : Sum(On(Q, v)) \in Nat
             /\ Tally(Q, [r \in Q |-> r.key.device]) = [v \in V |-> Sum(On(Q, v))]
             /\ Total([v \in V |-> Sum(On(Q, v))]) = Sum(Q)
             /\ Cardinality(PathsOf(Q)) <= Total([v \in V |-> Cardinality(PathsOf(On(Q, v)))])
  <1> DEFINE V == {r.key.device : r \in Q}
             of == [r \in Q |-> r.key.device]
             f == [v \in V |-> Sum(On(Q, v))]
  <1>1. Tally(Q, of) = f
    <2>1. {of[r] : r \in Q} = V OBVIOUS
    <2>2. \A v : {r \in Q : of[r] = v} = On(Q, v) BY DEF On
    <2> HIDE DEF V, of
    <2> QED BY <2>1, <2>2 DEF Tally
  <1>2. DOMAIN f = V OBVIOUS
  <1>3. IsFiniteSet(V) /\ f \in [V -> Nat] /\ Total(f) = Sum(Q)
    <2>1. /\ IsFiniteSet(DOMAIN Tally(Q, of)) /\ Total(Tally(Q, of)) = Sum(Q)
          /\ Tally(Q, of) \in [DOMAIN Tally(Q, of) -> Nat]
      <3> HIDE DEF of
      <3> QED BY TallyAddsUp DEF FiniteRows
    <2> HIDE DEF f, V, of
    <2> QED BY <1>1, <1>2, <2>1
  <1>4. \A v \in V : Sum(On(Q, v)) \in Nat
    <2>1. \A v \in V : f[v] \in Nat
      <3> HIDE DEF f, V
      <3> QED BY <1>3
    <2> QED BY <2>1
  <1> DEFINE A == [v \in V |-> PathsOf(On(Q, v))]
             g == [v \in V |-> Cardinality(PathsOf(On(Q, v)))]
             P == PathsOf(Q)
  <1>5. DOMAIN A = V /\ \A v \in V : IsFiniteSet(A[v]) /\ A[v] \subseteq P BY PathsAreFinite
  <1>6. \A p \in P : \E v \in V : p \in A[v] BY DEF PathsOf, On
  <1>7. g \in [V -> Nat] /\ \A v \in V : g[v] = Cardinality(A[v])
    <2>1. \A v \in V : Cardinality(PathsOf(On(Q, v))) \in Nat BY PathsAreFinite
    <2> HIDE DEF V
    <2> QED BY <2>1
  <1>8. Cardinality(P) <= Total(g)
    <2> HIDE DEF V, A, P, g
    <2> QED BY <1>3, <1>5, <1>6, <1>7, UnionOfParts
  <1> QED BY <1>1, <1>3, <1>4, <1>8

\* The projects of a user, for labels that are ranks: increment counts them as
\* they are, and what is shown is the top of their list.
Projects(Q, N) == Tally(Q, [r \in Q |-> ProjectLabel(N, r.key.path)])

LEMMA ProjectsAddUp ==
  ASSUME NEW R, FiniteRows(R), NEW u, NEW N, \A r \in R : ProjectLabel(N, r.key.path) \in Int
  PROVE  LET L == Projects(Of(R, u), N)
         IN  /\ DOMAIN L \in SUBSET Int /\ IsFiniteSet(DOMAIN L) /\ L \in [DOMAIN L -> Nat]
             /\ Total(L) = Sum(Of(R, u))
             /\ ProjectCounts(R, u, N) = L
             /\ Tops(ProjectCounts(R, u, N)) = {Top(L)}
  <1> DEFINE Q == Of(R, u)
             of == [r \in Q |-> ProjectLabel(N, r.key.path)]
             L == Tally(Q, of)
  <1>1. FiniteRows(Q) /\ \A r \in Q : ProjectLabel(N, r.key.path) \in Int
    <2>1. Q \subseteq R BY DEF Of
    <2> HIDE DEF Q
    <2> QED BY <2>1, FS_Subset DEF FiniteRows
  <1>2. ProjectCounts(R, u, N) = CountBy(Q, of) /\ Projects(Q, N) = L
    BY DEF ProjectCounts, Projects, Of
  <1> HIDE DEF Q
  <1>3. \A r \in Q : of[r] \in Int BY <1>1
  <1> HIDE DEF of
  <1>4. CountBy(Q, of) = L
    <2>1. Ordinary(Q, of) BY <1>3, DailySummaryAssumption DEF Ordinary
    <2> QED BY <2>1, CountsAreTallies
  <1>5. DOMAIN L \subseteq Int BY <1>3 DEF Tally
  <1>6. IsFiniteSet(DOMAIN L) /\ Total(L) = Sum(Q) /\ L \in [DOMAIN L -> Nat]
    BY <1>1, TallyAddsUp DEF FiniteRows
  <1> HIDE DEF L
  <1>7. Tops(L) = {Top(L)} BY <1>6 DEF Tops
  <1> QED BY <1>2, <1>4, <1>5, <1>6, <1>7 DEF Q


\* Unless fewer projects are shown than may be, nothing is cut off.
LEMMA ShownLen ==
  ASSUME NEW D \in SUBSET Int, IsFiniteSet(D), NEW c \in [D -> Nat], NEW t, t = [i \in Shown(c) |-> t[i]],
         Len(t) < TopLimit
  PROVE  Cardinality(D) <= TopLimit
  <1> DEFINE n == Cardinality(D)
             m == IF n <= TopLimit THEN n ELSE TopLimit
  <1>1. n \in Nat /\ TopLimit \in Nat /\ Shown(c) = {i \in 1..n : i <= TopLimit}
    BY SortedType, DailySummaryAssumption
  <1> HIDE DEF n
  <1>2. m \in Nat /\ Shown(c) = 1..m BY <1>1
  <1> HIDE DEF m
  <1>3. Len(t) = m
    <2>1. DOMAIN t = 1..m /\ t = [i \in 1..m |-> t[i]] BY <1>2
    <2>2. t \in Seq({t[i] : i \in 1..m}) BY <1>2, <2>1
    <2> QED BY <1>2, <2>1, <2>2
  <1>4. m < TopLimit BY <1>3
  <1> QED BY <1>1, <1>4 DEF m, n

\* The numbered list of the top projects.
LEMMA TopIsNumbered ==
  ASSUME NEW D \in SUBSET Int, IsFiniteSet(D), NEW c \in [D -> Nat]
  PROVE  /\ Numbered(Top(c)) = [i \in Shown(c) |-> [label |-> i, events |-> Heights(c)[i]]]
         /\ DOMAIN Numbered(Top(c)) = Shown(c)
         /\ \A i \in Shown(c) : Numbered(Top(c))[i].events = Heights(c)[i]
         /\ Field(Numbered(Top(c)), "events") = Total(Heights(c))
         /\ Len(Numbered(Top(c))) < TopLimit => Cardinality(D) <= TopLimit
  <1> DEFINE top == [i \in Shown(c) |-> [label |-> i, events |-> Heights(c)[i]]]
  <1>1. Numbered(Top(c)) = top
    <2>1. DOMAIN Top(c) = Shown(c) BY DEF Top, ListOf
    <2>2. ASSUME NEW i \in Shown(c)
          PROVE  [Top(c)[i] EXCEPT !.label = i] = [label |-> i, events |-> Heights(c)[i]]
      BY DEF Top, ListOf, Heights
    <2> QED BY <2>1, <2>2 DEF Numbered
  <1>2. /\ DOMAIN top = Shown(c) /\ top = [i \in Shown(c) |-> top[i]]
        /\ \A i \in Shown(c) : top[i].events = Heights(c)[i] /\ top[i]["events"] = Heights(c)[i]
    OBVIOUS
  <1> HIDE DEF top
  <1>3. Field(top, "events") = Total(Heights(c))
    <2>1. Heights(c) \in [Shown(c) -> Nat] BY SortedType
    <2>2. [x \in DOMAIN top |-> top[x]["events"]] = Heights(c) BY <1>2, <2>1
    <2> QED BY <2>2 DEF Field
  <1>4. Len(top) < TopLimit => Cardinality(D) <= TopLimit BY <1>2, ShownLen
  <1> QED BY <1>1, <1>2, <1>3, <1>4 DEF top

\* The part of IsSummary that is about a user, but for its agents and projects.
UserIsCounted(e) ==
    /\ e.events \in Nat /\ e.changedPaths \in Nat
    /\ \A a \in DOMAIN e.actions : e.actions[a] \in Nat
    /\ \A v \in DOMAIN e.devices : e.devices[v].events \in Nat /\ e.devices[v].changedPaths \in Nat
\* The rest of it.
LabelsAreCounted(e) ==
    /\ \A a \in DOMAIN e.agents : e.agents[a] \in Nat
    /\ \A i \in DOMAIN e.topProjects : e.topProjects[i].events \in Nat

LEMMA RowsOfAUser ==
  ASSUME NEW R, FiniteRows(R), OfEvents(R), NEW u
  PROVE  FiniteRows(Of(R, u)) /\ OfEvents(Of(R, u)) /\ Of(R, u) \subseteq R
  <1>1. Of(R, u) \subseteq R BY DEF Of
  <1>2. IsFiniteSet(Of(R, u)) BY <1>1, FS_Subset DEF FiniteRows
  <1> QED BY <1>1, <1>2 DEF FiniteRows, OfEvents

\* What is stored of a user adds up by actions and devices, whatever the names.
LEMMA StoredUserAddsUp ==
  ASSUME NEW R, FiniteRows(R), OfEvents(R), NEW u, NEW N, NEW top
  PROVE  UserIsCounted(StoredUser(R, u, N, top)) /\ UserAddsUp(StoredUser(R, u, N, top))
  <1> DEFINE Q == Of(R, u)
             V == {r.key.device : r \in Q}
             of == [r \in Q |-> r.key.action]
             actions == CountBy(Q, of)
             devices == Devices(Q, N)
             e == StoredUser(R, u, N, top)
  <1>0. FiniteRows(Q) /\ OfEvents(Q) BY RowsOfAUser
  <1>1. /\ e.events = Sum(Q) /\ e.changedPaths = Cardinality(PathsOf(Q)) /\ e.actions = actions
        /\ e.devices = devices
    BY DEF StoredUser
  <1> HIDE DEF Q
  <1>2. Sum(Q) \in Nat /\ actions \in [DOMAIN actions -> Nat] /\ Total(actions) = Sum(Q)
    <2>1. Ordinary(Q, of)
      <3>1. \A r \in Q : of[r] = r.key.action OBVIOUS
      <3>2. \A r \in Q : r.key.action \notin Inherited \cup {Proto} BY <1>0, NamesOfRows
      <3> QED BY <3>1, <3>2 DEF Ordinary
    <2> HIDE DEF of
    <2>2. actions = Tally(Q, of) BY <2>1, CountsAreTallies
    <2>3. /\ Sum(Q) \in Nat /\ Tally(Q, of) \in [DOMAIN Tally(Q, of) -> Nat]
          /\ Total(Tally(Q, of)) = Sum(Q)
      BY <1>0, TallyAddsUp DEF FiniteRows
    <2> HIDE DEF actions
    <2> QED BY <2>2, <2>3
  <1>3. Cardinality(PathsOf(Q)) \in Nat BY <1>0, PathsAreFinite
  <1>4. /\ DOMAIN devices = V
        /\ \A v \in V : /\ devices[v].events = Sum(On(Q, v)) /\ devices[v]["events"] = Sum(On(Q, v))
                        /\ devices[v].changedPaths = Cardinality(PathsOf(On(Q, v)))
                        /\ devices[v]["changedPaths"] = Cardinality(PathsOf(On(Q, v)))
    BY DEF Devices, StoredDevice
  <1>5. /\ \A v \in DOMAIN devices : /\ devices[v].events \in Nat /\ devices[v].changedPaths \in Nat
                                     /\ devices[v].changedPaths <= Cardinality(PathsOf(Q))
        /\ Field(devices, "events") = Sum(Q)
        /\ Cardinality(PathsOf(Q)) <= Field(devices, "changedPaths")
    <2>1. \A v \in V : Cardinality(PathsOf(On(Q, v))) \in Nat
                       /\ Cardinality(PathsOf(On(Q, v))) <= Cardinality(PathsOf(Q))
      <3> TAKE v \in V
      <3>1. FiniteRows(On(Q, v)) /\ PathsOf(On(Q, v)) \subseteq PathsOf(Q) BY <1>0, PathsAreFinite
      <3>2. IsFiniteSet(PathsOf(Q)) BY <1>0, PathsAreFinite
      <3> QED BY <3>1, <3>2, PathsAreFinite, FS_Subset
    <2>2. /\ [x \in DOMAIN devices |-> devices[x]["events"]] = [v \in V |-> Sum(On(Q, v))]
          /\ [x \in DOMAIN devices |-> devices[x]["changedPaths"]] =
                [v \in V |-> Cardinality(PathsOf(On(Q, v)))]
      <3> HIDE DEF V, devices
      <3> QED BY <1>4
    <2>3. /\ \A v \in V : Sum(On(Q, v)) \in Nat
          /\ Total([v \in V |-> Sum(On(Q, v))]) = Sum(Q)
          /\ Cardinality(PathsOf(Q)) <= Total([v \in V |-> Cardinality(PathsOf(On(Q, v)))])
      BY <1>0, DevicesAddUp
    <2>4. Field(devices, "events") = Sum(Q) /\ Cardinality(PathsOf(Q)) <= Field(devices, "changedPaths")
      <3> HIDE DEF V, devices
      <3> QED BY <2>2, <2>3 DEF Field
    <2> HIDE DEF V, devices
    <2> QED BY <1>4, <2>1, <2>3, <2>4
  <1> HIDE DEF actions, devices, e
  <1>6. UserIsCounted(e) BY <1>1, <1>2, <1>3, <1>5 DEF UserIsCounted
  <1>7. UserAddsUp(e) BY <1>1, <1>2, <1>3, <1>5 DEF UserAddsUp
  <1> QED BY <1>6, <1>7 DEF e

\* Where names are plain it adds up by agents and projects too.
LEMMA StoredLabelsAddUp ==
  ASSUME NEW R, FiniteRows(R), OfEvents(R), NEW u, \E r \in R : r.key.user = u, NEW N,
         \A r \in R : ProjectLabel(N, r.key.path) \in Int /\ r.key.agent \notin Inherited \cup {Proto},
         NEW top \in Tops(ProjectCounts(R, u, N))
  PROVE  LabelsAreCounted(StoredUser(R, u, N, top)) /\ LabelsAddUp(StoredUser(R, u, N, top))
  <1> DEFINE Q == Of(R, u)
             of == [r \in Q |-> r.key.agent]
             L == Projects(Q, N)
             T == Numbered(top)
             e == StoredUser(R, u, N, top)
  <1>0. FiniteRows(Q) /\ OfEvents(Q) /\ Q \subseteq R BY RowsOfAUser
  <1>1. e.events = Sum(Q) /\ e.agents = Agents(Q) /\ e.topProjects = T BY DEF StoredUser
  <1>2. /\ DOMAIN L \in SUBSET Int /\ IsFiniteSet(DOMAIN L) /\ L \in [DOMAIN L -> Nat]
        /\ Total(L) = Sum(Q) /\ top = Top(L)
    BY ProjectsAddUp
  <1>3. \E r \in Q : TRUE BY DEF Of
  <1> HIDE DEF Q
  <1>4. Agents(Q) = [a \in {"files-agent"} |-> Sum(Q)]
    <2>1. Ordinary(Q, of) BY <1>0 DEF Ordinary
    <2>2. Agents(Q) = IF DOMAIN CountBy(Q, of) = {} THEN CountBy(Q, of)
                      ELSE [a \in {"files-agent"} |-> Sum(Q)]
      BY DEF Agents
    <2> HIDE DEF of
    <2>3. CountBy(Q, of) = Tally(Q, of) BY <2>1, CountsAreTallies
    <2>4. DOMAIN Tally(Q, of) # {} BY <1>3 DEF Tally
    <2> QED BY <2>2, <2>3, <2>4
  <1>5. Sum(Q) \in Nat
    <2> HIDE DEF of
    <2> QED BY <1>0, TallyAddsUp DEF FiniteRows
  <1>6. Total(Agents(Q)) = Sum(Q) /\ \A a \in DOMAIN Agents(Q) : Agents(Q)[a] \in Nat
    BY <1>4, <1>5, OneKey
  <1> HIDE DEF L
  <1>7. /\ Heights(L) \in [Shown(L) -> Nat]
        /\ \A i, j \in Shown(L) : i < j => Heights(L)[i] >= Heights(L)[j]
    BY <1>2, SortedType
  <1>8. /\ DOMAIN T = Shown(L) /\ \A i \in Shown(L) : T[i].events = Heights(L)[i]
        /\ Field(T, "events") = Total(Heights(L))
        /\ Len(T) < TopLimit => Cardinality(DOMAIN L) <= TopLimit
    BY <1>2, TopIsNumbered
  <1> HIDE DEF T
  <1>9. /\ Total(Heights(L)) <= Sum(Q)
        /\ Len(T) < TopLimit => Total(Heights(L)) = Sum(Q)
    BY <1>2, <1>8, TopAddsUp
  <1> HIDE DEF e
  <1>10. LabelsAreCounted(e) BY <1>1, <1>6, <1>7, <1>8 DEF LabelsAreCounted
  <1>11. LabelsAddUp(e) BY <1>1, <1>6, <1>7, <1>8, <1>9 DEF LabelsAddUp
  <1> QED BY <1>10, <1>11 DEF e


Totals(R) ==
    [events |-> Sum(R), changedPaths |-> Cardinality(AllPaths(R)),
     users |-> Cardinality({r.key.user : r \in R}),
     devices |-> Cardinality({<<r.key.user, r.key.device>> : r \in R})]
Users(R, N, tops) == [u \in {r.key.user : r \in R} |-> StoredUser(R, u, N, tops[u])]

LEMMA SummaryIsStored ==
  ASSUME NEW R, NEW N, NEW tops
  PROVE  Sanitize(Build(R, N, tops)) = [totals |-> Totals(R), users |-> Users(R, N, tops)]
  <1> DEFINE K == {r.key.user : r \in R}
             w == [u \in K |-> UserEntry(R, u, N, tops[u])]
             x == [u \in DOMAIN w |-> SanitizeUser(u, w[u])]
             t == Totals(R)
  <1>1. Build(R, N, tops) = [totals |-> t, users |-> w] BY DEF Build, Totals
  <1>2. x = Users(R, N, tops)
    <2>1. ASSUME NEW u \in K
          PROVE  SanitizeUser(u, UserEntry(R, u, N, tops[u])) = StoredUser(R, u, N, tops[u])
      BY UserIsStored
    <2>2. x = [u \in K |-> SanitizeUser(u, UserEntry(R, u, N, tops[u]))] OBVIOUS
    <2>3. Users(R, N, tops) = [u \in K |-> StoredUser(R, u, N, tops[u])] BY DEF Users
    <2> HIDE DEF x, K
    <2> QED BY <2>1, <2>2, <2>3
  <1> HIDE DEF t, w
  <1>3. Sanitize([totals |-> t, users |-> w]) = [totals |-> t, users |-> x] BY DEF Sanitize
  <1> HIDE DEF x
  <1> QED BY <1>1, <1>2, <1>3 DEF t

\* The summary of finitely many rows adds up; where names are plain it can be
\* read back.
PlainSummary(s) == IsSummary(s) /\ \A u \in DOMAIN s.users : LabelsAddUp(s.users[u])
PlainRows(R, N) ==
    \A r \in R : ProjectLabel(N, r.key.path) \in Int /\ r.key.agent \notin Inherited \cup {Proto}

LEMMA TopsOfAUser ==
  ASSUME NEW R, NEW N, NEW tops \in TopsOfUsers(R, N), NEW u, \E r \in R : r.key.user = u
  PROVE  tops[u] \in Tops(ProjectCounts(R, u, N))
  <1> DEFINE K == {r.key.user : r \in R}
             T(v) == Tops(ProjectCounts(R, v, N))
             S == UNION {T(v) : v \in K}
  <1>1. u \in K OBVIOUS
  <1>2. TopsOfUsers(R, N) = {t \in [K -> S] : \A v \in K : t[v] \in T(v)} BY DEF TopsOfUsers
  <1> HIDE DEF K, T, S
  <1>3. tops[u] \in T(u) BY <1>1, <1>2
  <1> QED BY <1>3 DEF T

LEMMA SummaryAddsUp ==
  ASSUME NEW R, FiniteRows(R), OfEvents(R), NEW N, NEW tops \in TopsOfUsers(R, N),
         NEW s, s = [totals |-> Totals(R), users |-> Users(R, N, tops)]
  PROVE  AddsUp(s) /\ (PlainRows(R, N) => PlainSummary(s))
  <1> DEFINE K == {r.key.user : r \in R}
             user == [r \in R |-> r.key.user]
             w == Users(R, N, tops)
             t == Totals(R)
  <1>0. \A u \in K : \E r \in R : r.key.user = u OBVIOUS
  <1>1. \A u \in K : w[u] = StoredUser(R, u, N, tops[u]) BY DEF Users
  <1>2. \A u : FiniteRows(Of(R, u)) /\ Of(R, u) \subseteq R BY RowsOfAUser
  <1>3. \A u \in K : UserIsCounted(w[u]) /\ UserAddsUp(w[u])
    <2> HIDE DEF w, K
    <2> QED BY <1>1, StoredUserAddsUp
  <1>4. DOMAIN w = K BY DEF Users
  <1>5. \A u \in K : /\ w[u].events = Sum(Of(R, u)) /\ w[u].changedPaths = Cardinality(PathsOf(Of(R, u)))
                     /\ DOMAIN w[u].devices = {r.key.device : r \in Of(R, u)}
    <2> TAKE u \in K
    <2>1. w[u] = StoredUser(R, u, N, tops[u]) BY <1>1
    <2> HIDE DEF w
    <2> QED BY <2>1 DEF StoredUser, Devices
  <1>6. K = {user[r] : r \in R} /\ \A u : Of(R, u) = {r \in R : user[r] = u} BY DEF Of
  <1>7. Field(w, "events") = Sum(R) /\ Sum(R) \in Nat
    <2>1. [u \in DOMAIN w |-> w[u]["events"]] = Tally(R, user)
      <3> HIDE DEF K, w, user
      <3>1. Tally(R, user) = [u \in K |-> Sum(Of(R, u))] BY <1>6 DEF Tally
      <3> QED BY <3>1, <1>4, <1>5
    <2>2. Sum(R) \in Nat /\ Total(Tally(R, user)) = Sum(R)
      <3> HIDE DEF user
      <3> QED BY TallyAddsUp DEF FiniteRows
    <2> HIDE DEF w, user
    <2> QED BY <2>1, <2>2 DEF Field
  <1>8. IsFiniteSet(K) /\ Cardinality(K) \in Nat
    <2>1. DOMAIN user = R /\ \A u \in K : \E r \in R : u = user[r] OBVIOUS
    <2> HIDE DEF K, user
    <2> QED BY <2>1, FiniteRange DEF FiniteRows
  <1>9. Field(w, "changedPaths") = Cardinality(AllPaths(R)) /\ Cardinality(AllPaths(R)) \in Nat
    <2> DEFINE B == [u \in K |-> PathsOf(Of(R, u))]
               P == AllPaths(R)
               f == [u \in DOMAIN w |-> w[u]["changedPaths"]]
    <2>1. DOMAIN B = K /\ \A u \in K : IsFiniteSet(B[u]) /\ Cardinality(B[u]) \in Nat
      BY <1>2, PathsAreFinite
    <2>2. f \in [K -> Nat] /\ \A u \in K : f[u] = Cardinality(B[u])
      <3>1. \A u \in K : f[u] = Cardinality(B[u])
        <4> HIDE DEF K, w
        <4> QED BY <1>4, <1>5
      <3>2. f = [u \in K |-> f[u]]
        <4> HIDE DEF K, w
        <4> QED BY <1>4
      <3> HIDE DEF f, B, K
      <3> QED BY <3>1, <3>2, <2>1
    <2>3. \A p \in P : p = <<p[1], p[2]>> /\ p[1] \in K /\ p[2] \in B[p[1]] BY DEF AllPaths, PathsOf, Of
    <2>4. \A u \in K : \A x \in B[u] : <<u, x>> \in P BY DEF AllPaths, PathsOf, Of
    <2>5. Field(w, "changedPaths") = Total(f) BY DEF Field
    <2> HIDE DEF K, B, P, f
    <2>6. Cardinality(P) = Total(f) /\ Cardinality(P) \in Nat
      BY <1>8, <2>1, <2>2, <2>3, <2>4, PairsBy
    <2> QED BY <2>5, <2>6 DEF P
  <1>10. /\ Total([u \in DOMAIN w |-> Cardinality(DOMAIN w[u].devices)]) = t.devices
         /\ t.devices \in Nat
    <2> DEFINE B == [u \in K |-> {r.key.device : r \in Of(R, u)}]
               P == {<<r.key.user, r.key.device>> : r \in R}
               f == [u \in DOMAIN w |-> Cardinality(DOMAIN w[u].devices)]
    <2>1. DOMAIN B = K /\ \A u \in K : IsFiniteSet(B[u]) /\ Cardinality(B[u]) \in Nat
      <3> SUFFICES ASSUME NEW u \in K PROVE IsFiniteSet(B[u]) /\ Cardinality(B[u]) \in Nat OBVIOUS
      <3>1. IsFiniteSet({r.key.device : r \in Of(R, u)}) BY <1>2, DevicesAddUp
      <3> QED BY <3>1, FS_CardinalityType
    <2>2. f \in [K -> Nat] /\ \A u \in K : f[u] = Cardinality(B[u])
      <3>1. \A u \in K : f[u] = Cardinality(B[u])
        <4> HIDE DEF K, w
        <4> QED BY <1>4, <1>5
      <3>2. f = [u \in K |-> f[u]]
        <4> HIDE DEF K, w
        <4> QED BY <1>4
      <3> HIDE DEF f, B, K
      <3> QED BY <3>1, <3>2, <2>1
    <2>3. \A p \in P : p = <<p[1], p[2]>> /\ p[1] \in K /\ p[2] \in B[p[1]] BY DEF Of
    <2>4. \A u \in K : \A x \in B[u] : <<u, x>> \in P BY DEF Of
    <2>5. t.devices = Cardinality(P) BY DEF Totals
    <2> HIDE DEF K, B, P, f, t
    <2>6. Cardinality(P) = Total(f) /\ Cardinality(P) \in Nat
      BY <1>8, <2>1, <2>2, <2>3, <2>4, PairsBy
    <2> QED BY <2>5, <2>6 DEF f
  <1>11. t.users = Cardinality(K) BY DEF Totals
  <1>12. t.events = Sum(R) /\ t.changedPaths = Cardinality(AllPaths(R))
         /\ DOMAIN t = {"events", "changedPaths", "users", "devices"}
    BY DEF Totals
  <1>13. s.totals = t /\ s.users = w OBVIOUS
  <1> HIDE DEF K, user, w, t
  <1>14. ASSUME PlainRows(R, N), NEW u \in K PROVE LabelsAreCounted(w[u]) /\ LabelsAddUp(w[u])
    <2> HIDE DEF K, user, w, t
    <2>1. \E r \in R : r.key.user = u BY <1>0
    <2>2. LabelsAreCounted(StoredUser(R, u, N, tops[u])) /\ LabelsAddUp(StoredUser(R, u, N, tops[u]))
      <3> DEFINE top == tops[u]
      <3>1. top \in Tops(ProjectCounts(R, u, N)) BY <2>1, TopsOfAUser
      <3> HIDE DEF top
      <3>2. LabelsAreCounted(StoredUser(R, u, N, top)) /\ LabelsAddUp(StoredUser(R, u, N, top))
        BY <1>14, <2>1, <3>1, StoredLabelsAddUp DEF PlainRows
      <3> QED BY <3>2 DEF top
    <2> QED BY <1>1, <2>2
  <1> HIDE DEF K, user, w, t
  <1>15. ASSUME PlainRows(R, N) PROVE PlainSummary(s)
    <2>1. \A f \in DOMAIN t : t[f] \in Nat BY <1>7, <1>8, <1>9, <1>10, <1>11, <1>12
    <2>2. \A u \in K : /\ UserIsCounted(w[u]) /\ LabelsAreCounted(w[u]) /\ LabelsAddUp(w[u])
      BY <1>3, <1>14, <1>15
    <2> QED
      BY <2>1, <2>2, <1>4, <1>13 DEF PlainSummary, IsSummary, UserIsCounted, LabelsAreCounted
  <1>16. AddsUp(s) BY <1>3, <1>4, <1>7, <1>9, <1>10, <1>11, <1>12, <1>13 DEF AddsUp
  <1> QED BY <1>15, <1>16

-----------------------------------------------------------------------------
(* What is stored *)

\* On a day whose names are plain, those of the rows are.
LEMMA RowsOfAPlainDay ==
  ASSUME events \subseteq Event, IsFiniteSet(events), NEW row, PlainDay(row)
  PROVE  PlainRows(Rows(events, row[1], row[2]), Names)
  <1> DEFINE R == Rows(events, row[1], row[2])
  <1>1. /\ OfEvents(R)
        /\ \A r \in R : \E e \in events : e.company = row[1] /\ InDay(e, row[2]) /\ r.key = Key(e)
    BY RowsOfADay
  <1> HIDE DEF R
  <1>2. ASSUME NEW r \in R
        PROVE  ProjectLabel(Names, r.key.path) \in Int /\ r.key.agent \notin Inherited \cup {Proto}
    <2>1. PICK e \in events : e.company = row[1] /\ InDay(e, row[2]) /\ r.key = Key(e) BY <1>1
    <2>2. /\ e.agent \notin Inherited \cup {Proto}
          /\ Names.label[e.path] \notin Inherited \cup {Proto}
      BY <2>1 DEF PlainDay
    <2>3. Key(e).agent = e.agent /\ Key(e).path = e.path BY DEF Key
    <2>4. ProjectLabel(Names, r.key.path) \in Int \cup Inherited \cup {Proto} BY <1>1, NamesOfRows
    <2>5. ProjectLabel(Names, r.key.path) = Names.label[e.path] BY <2>1, <2>3 DEF ProjectLabel
    <2> QED BY <2>1, <2>2, <2>3, <2>4, <2>5
  <1> QED BY <1>2 DEF PlainRows, R

\* Events are finitely many, and every stored summary adds up.
StoredInv ==
    /\ IsFiniteSet(events)
    /\ \A r \in DOMAIN rows : AddsUp(rows[r]) /\ (PlainDay(r) => PlainSummary(rows[r]))

LEMMA NextStoredInv == SInv /\ StoredInv /\ [Next]_vars => StoredInv'
  <1> SUFFICES ASSUME SInv, StoredInv, [Next]_vars PROVE StoredInv' OBVIOUS
  <1>1. IsFiniteSet(events') /\ events \subseteq events'
    <2>1. ASSUME NEW e \in Event, Ingest(e) PROVE IsFiniteSet(events') /\ events \subseteq events'
      <3>1. events' = events \cup {e} BY <2>1 DEF Ingest
      <3> QED BY <3>1, FS_AddElement DEF StoredInv
    <2>2. CASE events' = events BY <2>2 DEF StoredInv
    <2> QED
      BY <2>1, <2>2 DEF Next, vars, data, Tick, RegisterCompany, StartCron, FetchPage, NextTenant,
                        Deliver, Fail, Cut
  <1>2. \A r : PlainDay(r)' => PlainDay(r) BY <1>1 DEF PlainDay
  <1>3. \A r \in DOMAIN rows' : AddsUp(rows'[r]) /\ (PlainDay(r)' => PlainSummary(rows'[r]))
    <2>1. CASE rows' = rows BY <1>2, <2>1 DEF StoredInv
    <2>2. ASSUME NEW k \in Cron, Deliver(k), NEW r \in DOMAIN rows'
          PROVE  AddsUp(rows'[r]) /\ (PlainDay(r)' => PlainSummary(rows'[r]))
      <3> DEFINE row == StoredRow(k)
                 R == Rows(events, row[1], row[2])
                 D == {q \in DOMAIN rows \cup {row} : ~Expired(q, k)}
      <3>1. PICK tops \in TopsOfUsers(R, Names) :
              rows' = [q \in D |-> IF q = row THEN Sanitize(Build(R, Names, tops)) ELSE rows[q]]
        BY <2>2 DEF Deliver
      <3> DEFINE s == Sanitize(Build(R, Names, tops))
      <3> HIDE DEF s, row
      <3>2. CASE r # row
        <4>1. r \in DOMAIN rows /\ rows'[r] = rows[r] BY <3>1, <3>2, <2>2
        <4> QED BY <4>1, <1>2 DEF StoredInv
      <3>3. CASE r = row
        <4>1. rows'[r] = s BY <3>1, <3>3, <2>2 DEF s
        <4>2. events \in SUBSET Event /\ IsFiniteSet(events) BY DEF SInv, TypeOK, StoredInv
        <4>3. FiniteRows(R) /\ OfEvents(R) BY <4>2, RowsOfADay
        <4>4. s = [totals |-> Totals(R), users |-> Users(R, Names, tops)] BY SummaryIsStored DEF s
        <4>5. PlainDay(row) => PlainRows(R, Names) BY <4>2, RowsOfAPlainDay
        <4> HIDE DEF R
        <4>6. AddsUp(s) /\ (PlainRows(R, Names) => PlainSummary(s)) BY <3>1, <4>3, <4>4, SummaryAddsUp
        <4> QED BY <4>1, <4>5, <4>6, <3>3, <1>2
      <3> QED BY <3>2, <3>3
    <2> QED
      BY <2>1, <2>2 DEF Next, vars, data, Tick, RegisterCompany, Ingest, StartCron, FetchPage,
                        NextTenant, Fail, Cut
  <1> QED BY <1>1, <1>3 DEF StoredInv

LEMMA InitStoredInv == Init => StoredInv
  <1> SUFFICES ASSUME Init PROVE StoredInv OBVIOUS
  <1>1. DOMAIN rows = {} /\ events = {} BY DEF Init
  <1> QED BY <1>1, FS_EmptySet DEF StoredInv

\* The groupings of every stored summary by user, device and action give the
\* same totals, for any events, texts and limit of the projects shown; on a day
\* without a project or an agent that is named like a property of every object,
\* it can be read back and the groupings by agent and project agree as well
\* (buildFilesAgentDailySummary, increment).  Every event is of the summary of
\* one day (karachiDayBounds).
THEOREM SummariesAddUp == Spec => []StoredSummariesAddUp
  <1>1. Spec => []StoredInv
    BY InitStoredInv, NextStoredInv, InitSInv, NextSInv, Walks, PTL DEF Spec
  <1>2. TypeOK /\ StoredInv /\ EveryEventHasOneDay => StoredSummariesAddUp
    BY DEF StoredInv, StoredSummariesAddUp, PlainSummary
  <1> QED BY <1>1, <1>2, TypeCorrect, OneDay, PTL

\* Texts only decide the places of those with equal counts.
LEMMA PlacesAreBlind ==
  ASSUME NEW V, NEW t \in [V -> Nat], NEW a, NEW b, NEW x \in V, a[x] \in Int, b[x] \in Int,
         \A y \in V \ {x} : t[y] # t[x]
  PROVE  Place(t, a, x) = Place(t, b, x)
  <1> DEFINE A == {y \in V : Before(t, a, y, x)}
             B == {y \in V : Before(t, b, y, x)}
  <1>1. \A y \in V : t[y] \in Nat OBVIOUS
  <1>2. \A y \in V : Before(t, a, y, x) <=> t[y] > t[x] BY <1>1 DEF Before
  <1>3. \A y \in V : Before(t, b, y, x) <=> t[y] > t[x] BY <1>1 DEF Before
  <1>4. A = B BY <1>2, <1>3
  <1>5. DOMAIN t = V OBVIOUS
  <1>6. Place(t, a, x) = Cardinality(A) + 1 /\ Place(t, b, x) = Cardinality(B) + 1
    BY <1>5 DEF Place
  <1> HIDE DEF A, B
  <1> QED BY <1>4, <1>6

LEMMA DevicesAreBlind ==
  ASSUME NEW Q, FiniteRows(Q), OfEvents(Q), NEW N \in Namings
  PROVE  /\ PlacedAlike(Devices(Q, Names), Devices(Q, N))
         /\ Unplaced(Devices(Q, Names)) = Unplaced(Devices(Q, N))
  <1> DEFINE V == {r.key.device : r \in Q}
             t == Tally(Q, [r \in Q |-> r.key.device])
             f == Devices(Q, Names)
             g == Devices(Q, N)
  <1>1. t = [v \in V |-> Sum(On(Q, v))] /\ \A v \in V : Sum(On(Q, v)) \in Nat BY DevicesAddUp
  <1>2. \A v \in V : Names.device[v] \in Int /\ N.device[v] \in Int BY NamesOfRows
  <1>3. /\ DOMAIN f = V /\ DOMAIN g = V
        /\ \A v \in V : f[v] = StoredDevice(Q, v, Names) /\ g[v] = StoredDevice(Q, v, N)
    BY DEF Devices
  <1>4. \A v, M : /\ StoredDevice(Q, v, M).events = Sum(On(Q, v))
                  /\ StoredDevice(Q, v, M).place = Place(t, M.device, v)
                  /\ [StoredDevice(Q, v, M) EXCEPT !.place = 0] =
                        [label |-> v, events |-> Sum(On(Q, v)),
                         changedPaths |-> Cardinality(PathsOf(On(Q, v))), place |-> 0]
    <2> TAKE v, M
    <2> DEFINE n == Sum(On(Q, v))
               m == Cardinality(PathsOf(On(Q, v)))
               p == Place(t, M.device, v)
    <2>1. StoredDevice(Q, v, M) = [label |-> v, events |-> n, changedPaths |-> m, place |-> p]
      BY DEF StoredDevice
    <2> HIDE DEF t, n, m, p
    <2> QED BY <2>1 DEF n, m, p
  <1> HIDE DEF V, t, f, g
  <1>5. t \in [V -> Nat] BY <1>1
  <1>6. \A v \in V : t[v] = Sum(On(Q, v)) BY <1>1
  <1>7. PlacedAlike(f, g)
    <2> SUFFICES ASSUME NEW v \in V, \A y \in V \ {v} : f[y].events # f[v].events
                 PROVE  f[v].place = g[v].place
      BY <1>3 DEF PlacedAlike
    <2> DEFINE a == Names.device
               b == N.device
    <2>1. a[v] \in Int /\ b[v] \in Int BY <1>2
    <2>2. \A y \in V \ {v} : t[y] # t[v] BY <1>3, <1>4, <1>6
    <2>3. f[v].place = Place(t, a, v) /\ g[v].place = Place(t, b, v) BY <1>3, <1>4
    <2> HIDE DEF a, b
    <2> QED BY <1>5, <2>1, <2>2, <2>3, PlacesAreBlind
  <1>8. Unplaced(f) = Unplaced(g)
    <2> DEFINE bare(e) == [e EXCEPT !.place = 0]
    <2>1. ASSUME NEW v \in V PROVE bare(f[v]) = bare(g[v])
      <3>1. bare(StoredDevice(Q, v, Names)) = bare(StoredDevice(Q, v, N)) BY <1>4
      <3> HIDE DEF bare
      <3> QED BY <1>3, <3>1
    <2>2. Unplaced(f) = [v \in DOMAIN f |-> bare(f[v])] /\ Unplaced(g) = [v \in DOMAIN g |-> bare(g[v])]
      BY DEF Unplaced
    <2> HIDE DEF bare
    <2> QED BY <2>1, <2>2, <1>3
  <1> QED BY <1>7, <1>8 DEF f, g

\* On a day whose names are plain the top of the projects is the same.
LEMMA ProjectsAreBlind ==
  ASSUME NEW R, FiniteRows(R), OfEvents(R), PlainRows(R, Names), NEW N \in Namings,
         NEW u, NEW s \in Tops(ProjectCounts(R, u, Names)), NEW t \in Tops(ProjectCounts(R, u, N))
  PROVE  Numbered(s) = Numbered(t)
  <1> DEFINE Q == Of(R, u)
             l == [r \in Q |-> ProjectLabel(N, r.key.path)]
             m == [r \in Q |-> ProjectLabel(Names, r.key.path)]
             c == Projects(Q, N)
             d == Projects(Q, Names)
  <1>1. /\ \A r \in R : ProjectLabel(N, r.key.path) \in Int BY NamesOfRows
  <1>2. \A r \in R : ProjectLabel(Names, r.key.path) \in Int BY DEF PlainRows
  <1>3. /\ DOMAIN c \in SUBSET Int /\ IsFiniteSet(DOMAIN c) /\ c \in [DOMAIN c -> Nat] /\ t = Top(c)
    BY <1>1, ProjectsAddUp
  <1>4. /\ DOMAIN d \in SUBSET Int /\ IsFiniteSet(DOMAIN d) /\ d \in [DOMAIN d -> Nat] /\ s = Top(d)
    BY <1>2, ProjectsAddUp
  <1>5. Heights(c) = Heights(d)
    <2>1. Q \subseteq R /\ IsFiniteSet(Q) /\ \A r \in Q : r.count \in Nat BY RowsOfAUser DEF FiniteRows
    <2>2. \A q, r \in R : ProjectLabel(N, q.key.path) = ProjectLabel(N, r.key.path)
                             <=> ProjectLabel(Names, q.key.path) = ProjectLabel(Names, r.key.path)
      BY NamesOfRows
    <2>3. c = Tally(Q, l) /\ d = Tally(Q, m) BY DEF Projects
    <2> HIDE DEF Q, c, d
    <2>4. \A r \in Q : l[r] \in Int /\ m[r] \in Int BY <1>1, <1>2, <2>1
    <2>5. \A q, r \in Q : l[q] = l[r] <=> m[q] = m[r] BY <2>1, <2>2
    <2> HIDE DEF l, m
    <2>6. Heights(Tally(Q, l)) = Heights(Tally(Q, m)) BY <2>1, <2>4, <2>5, TopIsBlind
    <2> QED BY <2>3, <2>6
  <1> HIDE DEF c, d
  <1>6. Shown(c) = Shown(d)
    <2>1. \A x : DOMAIN Heights(x) = Shown(x) BY DEF Heights
    <2> QED BY <2>1, <1>5
  <1>7. /\ Numbered(Top(c)) = [i \in Shown(c) |-> [label |-> i, events |-> Heights(c)[i]]]
        /\ Numbered(Top(d)) = [i \in Shown(d) |-> [label |-> i, events |-> Heights(d)[i]]]
    BY <1>3, <1>4, TopIsNumbered
  <1> QED BY <1>3, <1>4, <1>5, <1>6, <1>7

\* What is stored of users does not show the texts of the telemetry but in the
\* order of those with equal counts.
LEMMA SummariesAreBlind ==
  ASSUME NEW R, FiniteRows(R), OfEvents(R), PlainRows(R, Names), NEW N \in Namings,
         NEW tops \in TopsOfUsers(R, Names), NEW others \in TopsOfUsers(R, N)
  PROVE  SameButForTies([totals |-> Totals(R), users |-> Users(R, Names, tops)],
                        [totals |-> Totals(R), users |-> Users(R, N, others)])
  <1> DEFINE K == {r.key.user : r \in R}
             f == Users(R, Names, tops)
             g == Users(R, N, others)
             bare(u) == [user |-> u, events |-> Sum(Of(R, u)), changedPaths |-> Cardinality(PathsOf(Of(R, u))),
                         actions |-> CountBy(Of(R, u), [r \in Of(R, u) |-> r.key.action]),
                         agents |-> Agents(Of(R, u)), devices |-> Unplaced(Devices(Of(R, u), Names)),
                         topProjects |-> Numbered(tops[u]), place |-> 0]
             t == Tally(R, [r \in R |-> r.key.user])
  <1>1. /\ DOMAIN f = K /\ DOMAIN g = K
        /\ \A u \in K : f[u] = StoredUser(R, u, Names, tops[u]) /\ g[u] = StoredUser(R, u, N, others[u])
    BY DEF Users
  <1>2. \A u \in K : \E r \in R : r.key.user = u OBVIOUS
  <1>3. \A u, M, top : /\ StoredUser(R, u, M, top).events = Sum(Of(R, u))
                       /\ StoredUser(R, u, M, top).place = Place(t, M.user, u)
                       /\ StoredUser(R, u, M, top).devices = Devices(Of(R, u), M)
    BY DEF StoredUser
  <1>4. ASSUME NEW u, NEW M, NEW top,
               Unplaced(Devices(Of(R, u), M)) = Unplaced(Devices(Of(R, u), Names)),
               Numbered(top) = Numbered(tops[u])
        PROVE  [[StoredUser(R, u, M, top) EXCEPT !.devices = Unplaced(@)] EXCEPT !.place = 0] = bare(u)
    <2> DEFINE n == Sum(Of(R, u))
               m == Cardinality(PathsOf(Of(R, u)))
               a == CountBy(Of(R, u), [r \in Of(R, u) |-> r.key.action])
               b == Agents(Of(R, u))
               d == Devices(Of(R, u), M)
               z == Numbered(top)
               p == Place(t, M.user, u)
               e == [user |-> u, events |-> n, changedPaths |-> m, actions |-> a, agents |-> b,
                     devices |-> d, topProjects |-> z, place |-> p]
               without(x) == [[x EXCEPT !.devices = Unplaced(@)] EXCEPT !.place = 0]
    <2>1. StoredUser(R, u, M, top) = e BY DEF StoredUser
    <2>2. bare(u) = [user |-> u, events |-> n, changedPaths |-> m, actions |-> a, agents |-> b,
                     devices |-> Unplaced(Devices(Of(R, u), Names)),
                     topProjects |-> Numbered(tops[u]), place |-> 0]
      OBVIOUS
    <2>3. Unplaced(d) = Unplaced(Devices(Of(R, u), Names)) /\ z = Numbered(tops[u]) BY <1>4
    <2> HIDE DEF n, m, a, b, d, z, p, bare
    <2>4. without(e) = [user |-> u, events |-> n, changedPaths |-> m, actions |-> a, agents |-> b,
                        devices |-> Unplaced(d), topProjects |-> z, place |-> 0]
      <3> DEFINE w == Unplaced(d)
                 e1 == [user |-> u, events |-> n, changedPaths |-> m, actions |-> a, agents |-> b,
                        devices |-> w, topProjects |-> z, place |-> p]
      <3>1. e.devices = d OBVIOUS
      <3>2. [e EXCEPT !.devices = Unplaced(@)] = [e EXCEPT !.devices = w] BY <3>1
      <3> HIDE DEF w
      <3>3. [e EXCEPT !.devices = w] = e1 OBVIOUS
      <3>4. [e1 EXCEPT !.place = 0] =
               [user |-> u, events |-> n, changedPaths |-> m, actions |-> a, agents |-> b,
                devices |-> w, topProjects |-> z, place |-> 0]
        OBVIOUS
      <3> HIDE DEF e, e1
      <3> QED BY <3>2, <3>3, <3>4 DEF w
    <2> HIDE DEF e
    <2>5. without(e) = bare(u) BY <2>2, <2>3, <2>4
    <2> HIDE DEF without
    <2>6. without(StoredUser(R, u, M, top)) = bare(u) BY <2>1, <2>5
    <2> QED BY <2>6 DEF without
  <1>5. ASSUME NEW u \in K
        PROVE  /\ [[f[u] EXCEPT !.devices = Unplaced(@)] EXCEPT !.place = 0] =
                     [[g[u] EXCEPT !.devices = Unplaced(@)] EXCEPT !.place = 0]
               /\ PlacedAlike(f[u].devices, g[u].devices)
    <2> DEFINE x == tops[u]
               y == others[u]
               Q == Of(R, u)
    <2>1. x \in Tops(ProjectCounts(R, u, Names)) /\ y \in Tops(ProjectCounts(R, u, N))
      BY <1>2, TopsOfAUser
    <2>2. FiniteRows(Q) /\ OfEvents(Q) BY RowsOfAUser
    <2>3. f[u] = StoredUser(R, u, Names, x) /\ g[u] = StoredUser(R, u, N, y) BY <1>1
    <2> HIDE DEF x, y, f, g, bare, t, K
    <2>4. Numbered(x) = Numbered(y) BY <2>1, ProjectsAreBlind
    <2>5. /\ PlacedAlike(Devices(Q, Names), Devices(Q, N))
          /\ Unplaced(Devices(Q, Names)) = Unplaced(Devices(Q, N))
      <3> HIDE DEF Q
      <3> QED BY <2>2, DevicesAreBlind
    <2>6. Numbered(x) = Numbered(tops[u]) BY DEF x
    <2> DEFINE without(e) == [[e EXCEPT !.devices = Unplaced(@)] EXCEPT !.place = 0]
    <2>7. without(StoredUser(R, u, Names, x)) = bare(u)
      BY <2>6, <1>4
    <2>8. without(StoredUser(R, u, N, y)) = bare(u)
      BY <2>4, <2>5, <2>6, <1>4
    <2>9. without(f[u]) = without(g[u])
      <3> HIDE DEF without
      <3> QED BY <2>3, <2>7, <2>8
    <2> QED BY <2>3, <2>5, <2>9, <1>3
  <1>6. PlacedAlike(f, g)
    <2> DEFINE of == [r \in R |-> r.key.user]
    <2>1. t = Tally(R, of) /\ K = {of[r] : r \in R} /\ \A u : Of(R, u) = {r \in R : of[r] = u}
      BY DEF Of
    <2>2. \A u \in K : Names.user[u] \in Int /\ N.user[u] \in Int BY NamesOfRows
    <2> HIDE DEF K, f, g, t, bare, of
    <2>3. t \in [K -> Nat] /\ \A u \in K : t[u] = Sum(Of(R, u))
      <3>1. DOMAIN t = K /\ \A u \in K : t[u] = Sum(Of(R, u)) BY <2>1 DEF Tally
      <3>2. t \in [DOMAIN t -> Nat] BY <2>1, TallyAddsUp DEF FiniteRows
      <3> QED BY <3>1, <3>2
    <2> SUFFICES ASSUME NEW u \in K, \A y \in K \ {u} : f[y].events # f[u].events
                 PROVE  f[u].place = g[u].place
      BY <1>1 DEF PlacedAlike
    <2> DEFINE a == Names.user
               b == N.user
    <2>4. a[u] \in Int /\ b[u] \in Int BY <2>2
    <2>5. \A y \in K \ {u} : t[y] # t[u] BY <1>1, <1>3, <2>3
    <2>6. f[u].place = Place(t, a, u) /\ g[u].place = Place(t, b, u) BY <1>1, <1>3
    <2> HIDE DEF a, b
    <2> QED BY <2>3, <2>4, <2>5, <2>6, PlacesAreBlind
  <1> HIDE DEF K, f, g, bare, t
  <1> DEFINE less(e) == [e EXCEPT !.devices = Unplaced(@)]
             content(users) == Unplaced([u \in DOMAIN users |-> less(users[u])])
  <1>7. content(f) = content(g)
    <2> DEFINE h == [u \in DOMAIN f |-> less(f[u])]
               i == [u \in DOMAIN g |-> less(g[u])]
    <2>1. \A u \in K : [less(f[u]) EXCEPT !.place = 0] = [less(g[u]) EXCEPT !.place = 0] BY <1>5
    <2> HIDE DEF less
    <2>2. /\ DOMAIN h = K /\ DOMAIN i = K
          /\ \A u \in K : h[u] = less(f[u]) /\ i[u] = less(g[u])
      BY <1>1
    <2> HIDE DEF h, i
    <2>3. Unplaced(h) = Unplaced(i) BY <2>1, <2>2 DEF Unplaced
    <2> QED BY <2>3 DEF h, i
  <1> DEFINE totals == Totals(R)
             s == [totals |-> totals, users |-> f]
             o == [totals |-> totals, users |-> g]
  <1>8. s.totals = o.totals /\ s.users = f /\ o.users = g OBVIOUS
  <1> HIDE DEF totals, s, o
  <1>9. SameButForTies(s, o)
    <2>1. content(s.users) = content(o.users)
      <3> HIDE DEF content
      <3> QED BY <1>7, <1>8
    <2> QED BY <2>1, <1>1, <1>5, <1>6, <1>8 DEF SameButForTies
  <1> QED BY <1>9 DEF s, o, totals, f, g

\* On a day whose names are plain, a delivery stores the same row whatever the
\* texts of the telemetry are, as long as they tell the same projects apart, but
\* for the order of users, and of a user's devices, with equal counts
\* (sanitizeFilesAgentDailySummary).
THEOREM BlindToTexts == Spec => DeliveryIsBlind
  <1> DEFINE Blind == \A k \in Cron, N \in Namings :
                delivered'[k] # delivered[k] /\ StoredRow(k) \in DOMAIN rows' /\ PlainDay(StoredRow(k)) =>
                    LET row == StoredRow(k)
                        R == Rows(events, row[1], row[2])
                    IN  \A tops \in TopsOfUsers(R, N) :
                            SameButForTies(rows'[row], Sanitize(Build(R, N, tops)))
  <1>1. ASSUME IInv, SInv, StoredInv, [Next]_vars PROVE Blind
    <2> SUFFICES ASSUME NEW k \in Cron, NEW N \in Namings, delivered'[k] # delivered[k],
                        NEW row, row = StoredRow(k), row \in DOMAIN rows', PlainDay(row),
                        NEW others \in TopsOfUsers(Rows(events, row[1], row[2]), N)
                 PROVE  SameButForTies(rows'[row],
                                       Sanitize(Build(Rows(events, row[1], row[2]), N, others)))
      OBVIOUS
    <2>1. Deliver(k) BY <1>1, DeliveredBy
    <2> DEFINE R == Rows(events, row[1], row[2])
    <2>2. PICK tops \in TopsOfUsers(R, Names) : rows'[row] = Sanitize(Build(R, Names, tops))
      <3>1. PICK tops \in TopsOfUsers(R, Names) :
              rows' = [q \in {q \in DOMAIN rows \cup {row} : ~Expired(q, k)} |->
                          IF q = row THEN Sanitize(Build(R, Names, tops)) ELSE rows[q]]
        BY <2>1 DEF Deliver
      <3> DEFINE s == Sanitize(Build(R, Names, tops))
      <3> HIDE DEF s
      <3>2. rows'[row] = s BY <3>1 DEF s
      <3> QED BY <3>2 DEF s
    <2>3. events \in SUBSET Event /\ IsFiniteSet(events) BY <1>1 DEF SInv, TypeOK, StoredInv
    <2>4. FiniteRows(R) /\ OfEvents(R) BY <2>3, RowsOfADay
    <2>5. PlainRows(R, Names) BY <2>3, RowsOfAPlainDay
    <2> HIDE DEF R
    <2>6. others \in TopsOfUsers(R, N) BY DEF R
    <2>7. SameButForTies([totals |-> Totals(R), users |-> Users(R, Names, tops)],
                         [totals |-> Totals(R), users |-> Users(R, N, others)])
      BY <2>2, <2>4, <2>5, <2>6, SummariesAreBlind
    <2>8. SameButForTies(rows'[row], Sanitize(Build(R, N, others))) BY <2>2, <2>7, SummaryIsStored
    <2> QED BY <2>8 DEF R
  <1> QED
    BY <1>1, InitStoredInv, NextStoredInv, InitSInv, NextSInv, InitInv, NextInv, PTL
    DEF Spec, DeliveryIsBlind
=============================================================================
