------------------------- MODULE AllocLayoutProofs -------------------------
(***************************************************************************)
(* Theorems about the selection of a format, for every request and every   *)
(* configuration of the processors: the best format is the one selected,   *)
(* every processor can handle it, and it can be allocated.                 *)
(*                                                                         *)
(* Then about the layout, for every size and number of layers: LayoutInv   *)
(* says that each plane was calculated from the dimensions and the planes  *)
(* before it, so that a derived layout is a system of equations, Derived;  *)
(* what rows, planes and layers hold and where they start follows from     *)
(* those by arithmetic.                                                    *)
(***************************************************************************)
EXTENDS AllocLayout, FiniteSetTheorems, WellFoundedInduction, TLAPS

-----------------------------------------------------------------------------
(***************************************************************************)
(* The search                                                              *)
(***************************************************************************)
\* A set of table places has a least one.
LEMMA MinExists ==
  ASSUME NEW S, S \subseteq Nat, S # {}
  PROVE  Min(S) \in S /\ \A y \in S : Min(S) <= y
<1> DEFINE less == OpToRel(<, Nat)
<1>1. PICK m \in S : \A y \in S : ~(<<y, m>> \in less)
  <2>1. IsWellFoundedOn(less, Nat)
    BY NatLessThanWellFounded
  <2> HIDE DEF less
  <2> QED
    BY <2>1, WFMin
<1>2. \A y \in S : <<y, m>> \in less <=> y < m
  BY DEF OpToRel
<1> HIDE DEF less
<1>3. ASSUME NEW y \in S PROVE m <= y
  <2>1. ~(y < m)
    BY <1>1, <1>2, Zenon
  <2> QED
    BY <2>1
<1> QED
  BY <1>3 DEF Min

\* Grades are numbers, so they can be compared.
LEMMA GradeIsNat ==
  ASSUME NEW f, NEW i, NEW r
  PROVE grade_format(f, i, r) \in Nat
<1>1. IsFiniteSet(GradedBits)
  <2>1. GradedBits \subseteq 0..10
    BY DEF GradedBits, AFBC_BASIC, AFRC_BASIC, BLOCK_LINEAR_BASIC, AFBC_SPLITBLK, AFBC_WIDEBLK,
           AFBC_TILED_HEADERS, AFBC_EXTRAWIDEBLK, AFBC_DOUBLE_BODY, AFBC_YUV_TRANSFORM, AFBC_SPARSE
  <2>2. IsFiniteSet(0..10)
    <3>1. 0 \in Int /\ 10 \in Int
      OBVIOUS
    <3> QED
      BY <3>1, FS_Interval, Zenon
  <2> QED
    BY <2>1, <2>2, FS_Subset
<1>2. Cardinality(f.mods \cap GradedBits) \in Nat
  BY <1>1, FS_Intersection, FS_CardinalityType
<1> QED
  BY <1>2 DEF grade_format, is_afbc, is_afrc

\* A row is offered in its own base format or not at all.
LEMMA SupportedBase ==
  ASSUME NEW row
  PROVE  LET f == get_supported_format(req, row, users)
         IN f = Invalid \/ f.base = row.id
  BY DEF get_supported_format, get_afrc_format, get_afbc_format, get_bl_format,
         from_android, validate_afbc_format, WithMods

\* What has a grade is a format.
LEMMA OfferFacts ==
  ASSUME NEW row
  PROVE  /\ Offer(row).grade \in Nat
         /\ Offer(row).grade > 0 =>
              Offer(row).format # Invalid /\ Offer(row).format.base = row.id
<1>1. Offer(row).grade \in Nat
  BY GradeIsNat DEF Offer
<1>2. Offer(row).format = Invalid => Offer(row).grade = 0
  BY DEF Offer, grade_format
<1> QED
  BY <1>1, <1>2, SupportedBase DEF Offer

\* Without a named producer the CPU is taken for one.
LEMMA RemapUnlessCpu ==
  ASSUME users = Users(req.dir, req.usage)
  PROVE  MayRemap <=> ~CpuTakesPart
<1>1. "CPU" \in get_producers(req.usage) <=> "SW_WRITE" \in req.usage
  BY DEF get_producers, VENDOR
<1>2. "CPU" \in get_consumers(req.usage) <=> "SW_READ" \in req.usage
  BY DEF get_consumers, VENDOR
<1> QED
  BY <1>1, <1>2 DEF MayRemap, CpuTakesPart, Users, Producers, Meets

Considered ==
  {i \in DOMAIN formats : i <= cand /\ is_format_compatible(req_info, formats[i])}

Grade(i) == Offer(formats[i]).grade

\* best is the first of the best so far; own is the offer in the requested format.
SearchInv ==
  /\ cand \in Nat
  /\ \/ best = None
     \/ \E i \in Considered :
          /\ best = Offer(formats[i]) /\ Grade(i) > 0
          /\ \A j \in Considered : Grade(j) = Grade(i) => i <= j
  /\ \A j \in Considered : Grade(j) <= best.grade
  /\ \/ own = None
     \/ \E i \in Considered :
          own = Offer(formats[i]) /\ Grade(i) > 0 /\ formats[i].id = req_info.id
  /\ \A j \in Considered :
       Grade(j) > 0 /\ formats[j].id = req_info.id => own = Offer(formats[j])

PhaseInv ==
  /\ pc = "select" => cand = 0 /\ best = None /\ own = None
  /\ pc = "search" => SearchInv /\ users = Users(req.dir, req.usage)
  /\ pc \notin {"select", "search"} /\ cand > 0 /\ ~ForcedBgra => IsBestOf(Usable, alloc_format)

LEMMA PhaseInit == Init => PhaseInv
  BY DEF Init, PhaseInv

\* What comes out of the search when every candidate has been considered.
LEMMA BestIsChosen ==
  ASSUME SearchInv, users = Users(req.dir, req.usage), Candidates = {}
  PROVE  IsBestOf(Usable, IF own.grade # best.grade /\ MayRemap THEN best.format ELSE own.format)
<1>1. Considered = {i \in DOMAIN formats : is_format_compatible(req_info, formats[i])}
  BY RowsDiffer DEF SearchInv, Candidates, Considered
<1>2. \A o \in Usable : o[1] \in Considered /\ o[2] = Offer(formats[o[1]]) /\ Grade(o[1]) > 0
  BY <1>1 DEF Usable, Grade
<1>3. \A i \in Considered : Grade(i) > 0 => <<i, Offer(formats[i])>> \in Usable
  BY <1>1 DEF Usable, Grade
<1>4. \A i \in Considered : Grade(i) \in Nat /\ (Grade(i) > 0 =>
          Offer(formats[i]).format # Invalid /\ Offer(formats[i]).format.base = formats[i].id)
  BY OfferFacts DEF Grade
<1>5. MayRemap <=> ~CpuTakesPart
  BY RemapUnlessCpu
<1>6. CASE own.grade # best.grade /\ MayRemap
  <2>1. best # None
    BY <1>4, <1>6 DEF SearchInv, None, Grade
  <2>2. PICK i \in Considered :
          /\ best = Offer(formats[i]) /\ Grade(i) > 0
          /\ \A j \in Considered : Grade(j) = Grade(i) => i <= j
    BY <2>1 DEF SearchInv
  <2> DEFINE o == <<i, Offer(formats[i])>>
  <2>3. o \in Usable /\ o[2].format = best.format /\ best.format # Invalid
    BY <2>2, <1>3, <1>4
  <2>4. best.format.base # req_info.id
    BY <2>2, <1>4, <1>6 DEF SearchInv
  <2>5. ASSUME NEW other \in Usable
        PROVE  /\ \/ other[2].grade < o[2].grade
                  \/ other[2].grade = o[2].grade /\ other[1] >= o[1]
               /\ other[2].format.base = req_info.id => other[2].grade < o[2].grade
    <3>1. PICK j \in Considered : other[1] = j /\ other[2] = Offer(formats[j]) /\ Grade(j) > 0
      BY <1>2
    <3>2. Grade(j) <= Grade(i) /\ Grade(i) \in Nat /\ Grade(j) \in Nat
      BY <2>2, <1>4 DEF SearchInv, Grade
    <3>3. Grade(j) = Grade(i) => i <= j
      BY <2>2
    <3>4. i \in Nat /\ j \in Nat
      BY RowsDiffer DEF Considered
    <3>5. formats[j].id = req_info.id => Grade(j) # Grade(i)
      BY <3>1, <2>2, <1>6 DEF SearchInv, Grade
    <3>6. other[2].format.base = formats[j].id
      BY <3>1, <1>4
    <3> QED
      BY <3>1, <3>2, <3>3, <3>4, <3>5, <3>6 DEF Grade
  <2> QED
    BY <1>5, <1>6, <2>3, <2>4, <2>5 DEF IsBestOf
<1>7. CASE ~(own.grade # best.grade /\ MayRemap) /\ own = None
  <2>1. own.format = Invalid /\ own.grade = 0
    BY <1>7 DEF None
  <2>2. ASSUME NEW o \in Usable
        PROVE  o[2].format.base # req_info.id /\ CpuTakesPart
    <3>1. PICK j \in Considered : o[2] = Offer(formats[j]) /\ Grade(j) > 0
      BY <1>2
    <3>2. o[2].format.base = formats[j].id /\ Grade(j) <= best.grade
      BY <3>1, <1>4 DEF SearchInv
    <3>3. own # Offer(formats[j])
      BY <3>1, <2>1 DEF Grade
    <3>4. best.grade # 0
      BY <3>1, <3>2, <1>4
    <3> QED
      BY <3>1, <3>2, <3>3, <3>4, <2>1, <1>5, <1>7 DEF SearchInv
  <2> QED
    BY <1>7, <2>1, <2>2 DEF IsBestOf
<1>8. CASE ~(own.grade # best.grade /\ MayRemap) /\ own # None
  <2>1. PICK i \in Considered :
          own = Offer(formats[i]) /\ Grade(i) > 0 /\ formats[i].id = req_info.id
    BY <1>8 DEF SearchInv
  <2> DEFINE o == <<i, Offer(formats[i])>>
  <2>2. /\ o \in Usable /\ o[2].format = own.format
        /\ own.format # Invalid /\ own.format.base = req_info.id
    BY <2>1, <1>3, <1>4
  <2>3. CpuTakesPart \/ own.grade = best.grade
    BY <1>5, <1>8
  <2>4. ASSUME NEW other \in Usable, own.grade = best.grade
        PROVE  other[2].grade <= o[2].grade
    BY <2>1, <2>4, <1>2 DEF SearchInv, Grade
  <2> QED
    BY <1>8, <2>2, <2>3, <2>4 DEF IsBestOf
<1> QED
  BY <1>6, <1>7, <1>8

LEMMA SearchStart ==
  ASSUME PhaseInv, StartSearch
  PROVE  PhaseInv'
<1>1. cand' = 0 /\ best' = None /\ own' = None /\ pc' = "search"
  BY DEF StartSearch, PhaseInv
<1>2. Considered' = {}
  BY <1>1, RowsDiffer DEF Considered
<1>3. SearchInv'
  BY <1>1, <1>2 DEF SearchInv
<1>4. users' = Users(req.dir, req.usage)'
  BY DEF StartSearch
<1> QED
  BY <1>1, <1>3, <1>4 DEF PhaseInv

LEMMA SearchStep ==
  ASSUME PhaseInv, ConsiderCandidate
  PROVE  PhaseInv'
<1> DEFINE i == Min(Candidates)
<1>1. SearchInv /\ users = Users(req.dir, req.usage)
  BY DEF PhaseInv, ConsiderCandidate
<1>2. i \in Candidates /\ \A j \in Candidates : i <= j
  BY MinExists, RowsDiffer DEF Candidates, ConsiderCandidate
<1> HIDE DEF i
<1>3. \A j : Grade(j)' = Grade(j) /\ Offer(formats[j])' = Offer(formats[j])
  BY DEF Grade, Offer, ConsiderCandidate
<1>4. cand' = i /\ i \in Nat /\ i > cand /\ i \in DOMAIN formats
  BY <1>2, RowsDiffer DEF Candidates, ConsiderCandidate, i
<1>5. Considered' = Considered \cup {i} /\ i \notin Considered
  <2>1. \A j \in DOMAIN formats :
          j \in Considered' <=> j <= i /\ is_format_compatible(req_info, formats[j])
    BY <1>4 DEF Considered, ConsiderCandidate
  <2>2. \A j \in DOMAIN formats :
          j \in Candidates <=> j > cand /\ is_format_compatible(req_info, formats[j])
    BY DEF Candidates
  <2>3. \A j \in DOMAIN formats :
          j \in Considered <=> j <= cand /\ is_format_compatible(req_info, formats[j])
    BY DEF Considered
  <2>4. \A j \in DOMAIN formats : j \in Nat
    BY RowsDiffer
  <2>5. \A j \in DOMAIN formats : j \in Considered' <=> j \in Considered \/ j = i
    BY <2>1, <2>2, <2>3, <2>4, <1>1, <1>2, <1>4 DEF SearchInv
  <2> QED
    BY <2>3, <2>5, <1>1, <1>4 DEF Considered, SearchInv
<1>6. /\ \A j \in Considered : j < i /\ Grade(j) \in Nat
      /\ Grade(i) \in Nat /\ best.grade \in Nat
  BY <1>1, <1>4, OfferFacts, RowsDiffer DEF Considered, SearchInv, Grade, None
<1>7. /\ best' = IF Grade(i) > best.grade THEN Offer(formats[i]) ELSE best
      /\ own' = IF Grade(i) > 0 /\ Offer(formats[i]).format.base = req_info.id
                THEN Offer(formats[i]) ELSE own
      /\ req_info' = req_info
  BY <1>4 DEF ConsiderCandidate, Better, Grade
<1>8. Grade(i) > 0 => Offer(formats[i]).format.base = formats[i].id
  BY OfferFacts DEF Grade
<1>9. best' = None \/ \E k \in Considered' :
        /\ best' = Offer(formats[k]) /\ Grade(k) > 0
        /\ \A j \in Considered' : Grade(j) = Grade(k) => k <= j
  <2>1. CASE Grade(i) > best.grade
    <3>1. best' = Offer(formats[i]) /\ Grade(i) > 0
      BY <2>1, <1>6, <1>7
    <3>2. \A j \in Considered : Grade(j) # Grade(i)
      BY <2>1, <1>1, <1>6 DEF SearchInv
    <3> QED
      BY <3>1, <3>2, <1>4, <1>5
  <2>2. CASE ~(Grade(i) > best.grade) /\ best # None
    <3>1. PICK k \in Considered :
            /\ best = Offer(formats[k]) /\ Grade(k) > 0
            /\ \A j \in Considered : Grade(j) = Grade(k) => k <= j
      BY <2>2, <1>1 DEF SearchInv
    <3>2. \A j \in Considered' : Grade(j) = Grade(k) => k <= j
      BY <3>1, <1>4, <1>5, <1>6, RowsDiffer DEF Considered
    <3> QED
      BY <2>2, <3>1, <3>2, <1>5, <1>7
  <2> QED
    BY <2>1, <2>2, <1>7
<1>10. \A j \in Considered' : Grade(j) <= best'.grade
  BY <1>1, <1>5, <1>6, <1>7 DEF SearchInv, Grade
<1>11. own' = None \/ \E k \in Considered' :
         own' = Offer(formats[k]) /\ Grade(k) > 0 /\ formats[k].id = req_info.id
  BY <1>1, <1>5, <1>7, <1>8 DEF SearchInv
<1>12. \A j \in Considered' :
         Grade(j) > 0 /\ formats[j].id = req_info.id => own' = Offer(formats[j])
  <2>1. ASSUME NEW j \in Considered, formats[j].id = req_info.id
        PROVE  formats[i].id # req_info.id
    BY <2>1, <1>4, <1>5, RowsDiffer DEF Considered
  <2> QED
    BY <2>1, <1>1, <1>5, <1>7, <1>8 DEF SearchInv
<1>13. SearchInv'
  BY <1>3, <1>4, <1>7, <1>9, <1>10, <1>11, <1>12 DEF SearchInv
<1>14. pc' = "search" /\ users' = Users(req.dir, req.usage)'
  BY <1>1 DEF ConsiderCandidate
<1> QED
  BY <1>13, <1>14 DEF PhaseInv

LEMMA SearchEnd ==
  ASSUME PhaseInv, ChooseFormat
  PROVE  PhaseInv'
<1> DEFINE f == IF own.grade # best.grade /\ MayRemap THEN best.format ELSE own.format
<1>1. IsBestOf(Usable, f)
  BY BestIsChosen DEF PhaseInv, ChooseFormat
<1>2. pc' \in {"derive", "failed"} /\ (~ForcedBgra => alloc_format' = f)
  BY DEF ChooseFormat, Proceed, ForcedForFramebuffer, ForcedBgra
<1>3. ForcedBgra' = ForcedBgra /\ Usable' = Usable
  BY DEF ChooseFormat, search, ForcedBgra, Usable, Offer
<1>4. \A u, g : IsBestOf(u, g)' = IsBestOf(u, g)
  BY DEF ChooseFormat, search, IsBestOf, CpuTakesPart
<1>5. ~ForcedBgra' => IsBestOf(Usable, alloc_format)'
  BY <1>1, <1>2, <1>3, <1>4
<1> QED
  BY <1>2, <1>5 DEF PhaseInv

\* What was chosen stays.
LEMMA ChosenStays ==
  ASSUME PhaseInv, pc \notin {"select", "search"}, pc' \notin {"select", "search"},
         UNCHANGED <<req, search, chosen>>
  PROVE  PhaseInv'
<1>1. ForcedBgra' = ForcedBgra
  BY DEF ForcedBgra
<1>2. IsBestOf(Usable, alloc_format)' = IsBestOf(Usable, alloc_format)
  BY DEF search, chosen, IsBestOf, CpuTakesPart, Usable, Offer
<1> QED
  BY <1>1, <1>2 DEF PhaseInv, search

LEMMA PhaseStep ==
  ASSUME PhaseInv, [Next]_vars
  PROVE  PhaseInv'
<1>1. CASE SelectForcedFormat \/ RefuseRequest
  BY <1>1 DEF SelectForcedFormat, RefuseRequest, Proceed, search, PhaseInv
<1>2. CASE StartSearch
  BY <1>2, SearchStart
<1>3. CASE ConsiderCandidate
  BY <1>3, SearchStep
<1>4. CASE ChooseFormat
  BY <1>4, SearchEnd
<1>5. CASE DeriveType \/ AlignDimensions \/ CalcPlane \/ FinishLayout \/ set_fixed_buffer_size
  BY <1>5, ChosenStays
     DEF DeriveType, AlignDimensions, CalcPlane, FinishLayout, set_fixed_buffer_size
<1>6. CASE UNCHANGED vars
  <2>1. UNCHANGED <<req, search, chosen>> /\ pc' = pc
    BY <1>6 DEF vars
  <2>2. CASE pc \notin {"select", "search"}
    BY <2>1, <2>2, ChosenStays
  <2>3. CASE pc = "select"
    BY <2>1, <2>3 DEF PhaseInv, search
  <2>4. CASE pc = "search"
    <3>1. SearchInv' = SearchInv
      BY <2>1 DEF SearchInv, Considered, Grade, Offer, search
    <3> QED
      BY <2>1, <2>4, <3>1 DEF PhaseInv, search
  <2> QED
    BY <2>2, <2>3, <2>4
<1> QED
  BY <1>1, <1>2, <1>3, <1>4, <1>5, <1>6 DEF Next

\* get_best_format finds the format that the platform's tables call the best, for every
\* request and every configuration of the processors: the requested one unless a better one
\* exists and the CPU has no part, else the first of the best, and none only if there is none.
THEOREM BestFormatIsSelected == Spec => []SelectionIsBest
<1>1. PhaseInv => SelectionIsBest
  BY DEF PhaseInv, SelectionIsBest
<1> QED
  BY <1>1, PhaseInit, PhaseStep, PTL DEF Spec

-----------------------------------------------------------------------------
(***************************************************************************)
(* What is selected can be used                                            *)
(***************************************************************************)
LEMMA BlockFeatures ==
  /\ DOMAIN BlockFeature = {AFBC_SPLITBLK, AFBC_WIDEBLK, AFBC_TILED_HEADERS}
  /\ BlockFeature[AFBC_SPLITBLK] = "AFBC_BLOCK_SPLIT"
  /\ BlockFeature[AFBC_WIDEBLK] = "AFBC_32X8"
  /\ BlockFeature[AFBC_TILED_HEADERS] = "AFBC_TILED_HEADERS"
  BY DEF BlockFeature, AFBC_SPLITBLK, AFBC_WIDEBLK, AFBC_TILED_HEADERS

\* What validate_afbc_format leaves of the modifiers needs only what is supported.
LEMMA ValidatedMods ==
  ASSUME NEW row, NEW u, NEW base, NEW mods, AFBC_BASIC \in mods, "AFBC_16X16" \in u.both,
         NEW f, f = validate_afbc_format(row, [base |-> base, mods |-> mods], u)
  PROVE  /\ f.base = base /\ f.mods \subseteq mods \cup {AFBC_SPLITBLK, AFBC_SPARSE}
         /\ AFBC_SPLITBLK \in f.mods => "AFBC_BLOCK_SPLIT" \in u.both
         /\ AFBC_WIDEBLK \in f.mods => "AFBC_32X8" \in u.both
         /\ AFBC_TILED_HEADERS \in f.mods => "AFBC_TILED_HEADERS" \in u.both
         /\ AFBC_SPARSE \notin f.mods => "AFBC_WRITE_NON_SPARSE" \in u.write
<1> DEFINE g == [base |-> base, mods |-> mods]
           r == ResolveSplit(row, ResolveDoubleBody(g), u.both)
           lacking == {bit \in DOMAIN BlockFeature : BlockFeature[bit] \notin u.both}
<1> USE DEF AFBC_BASIC, AFBC_SPLITBLK, AFBC_WIDEBLK, AFBC_EXTRAWIDEBLK, AFBC_TILED_HEADERS,
            AFBC_DOUBLE_BODY, AFBC_SPARSE
<1>1. r.mods \subseteq mods \cup {AFBC_SPLITBLK}
  BY DEF ResolveSplit, ResolveDoubleBody, WithMods, WithoutMods
<1>2. /\ f.mods = (r.mods \ lacking) \cup (IF MustBeSparse(u) THEN {AFBC_SPARSE} ELSE {})
      /\ f.base = base
  BY DEF validate_afbc_format, is_afbc
<1> HIDE DEF r
<1>3. f.mods \subseteq mods \cup {AFBC_SPLITBLK, AFBC_SPARSE}
  BY <1>1, <1>2
<1>4. /\ AFBC_SPLITBLK \in f.mods => "AFBC_BLOCK_SPLIT" \in u.both
      /\ AFBC_WIDEBLK \in f.mods => "AFBC_32X8" \in u.both
      /\ AFBC_TILED_HEADERS \in f.mods => "AFBC_TILED_HEADERS" \in u.both
  BY <1>2, BlockFeatures
<1>5. AFBC_SPARSE \notin f.mods => "AFBC_WRITE_NON_SPARSE" \in u.write
  BY <1>2 DEF MustBeSparse
<1> QED
  BY <1>2, <1>3, <1>4, <1>5

\* An AFBC format of the search.
LEMMA AfbcIsSupported ==
  ASSUME NEW row, NEW usage, NEW u, NEW f, f = get_afbc_format(row, usage, u), is_afbc(f)
  PROVE  /\ f.base = row.id
         /\ ~is_afrc(f) /\ ~is_block_linear(f)
         /\ "AFBC_16X16" \in u.both
         /\ is_yuv(row) => "AFBC_YUV" \in u.read /\ "AFBC_YUV" \in u.write
         /\ AFBC_SPLITBLK \in f.mods => "AFBC_BLOCK_SPLIT" \in u.both
         /\ AFBC_WIDEBLK \in f.mods => "AFBC_32X8" \in u.both
         /\ AFBC_TILED_HEADERS \in f.mods => "AFBC_TILED_HEADERS" \in u.both
         /\ AFBC_EXTRAWIDEBLK \in f.mods => "AFBC_64X4" \in u.both /\ row.npln > 1
         /\ AFBC_DOUBLE_BODY \in f.mods => "AFBC_DOUBLE_BODY" \in u.both
         /\ AFBC_SPARSE \notin f.mods => "AFBC_WRITE_NON_SPARSE" \in u.write
<1> USE DEF AFBC_BASIC, AFRC_BASIC, BLOCK_LINEAR_BASIC, AFBC_SPLITBLK, AFBC_WIDEBLK,
            AFBC_EXTRAWIDEBLK, AFBC_TILED_HEADERS, AFBC_DOUBLE_BODY, AFBC_YUV_TRANSFORM, AFBC_SPARSE
<1>1. ~is_afbc(from_android(row.id))
  BY DEF is_afbc, from_android
<1>2. /\ is_yuv(row) => "AFBC_YUV" \in u.read /\ "AFBC_YUV" \in u.write
      /\ "AFBC_16X16" \in u.both
  BY <1>1 DEF get_afbc_format
<1> DEFINE mods == AfbcMods(row, usage, u)
<1>3. /\ AFBC_BASIC \in mods /\ AFRC_BASIC \notin mods /\ BLOCK_LINEAR_BASIC \notin mods
      /\ AFBC_EXTRAWIDEBLK \in mods => is_afbc_multiplane_supported(u.both) /\ row.npln > 1
      /\ AFBC_DOUBLE_BODY \in mods => "AFBC_DOUBLE_BODY" \in u.both
  BY DEF AfbcMods
<1> HIDE DEF mods
<1>5. f = validate_afbc_format(row, [base |-> row.id, mods |-> mods], u)
  BY <1>1 DEF get_afbc_format, mods
<1>4. /\ f.base = row.id /\ f.mods \subseteq mods \cup {AFBC_SPLITBLK, AFBC_SPARSE}
      /\ AFBC_SPLITBLK \in f.mods => "AFBC_BLOCK_SPLIT" \in u.both
      /\ AFBC_WIDEBLK \in f.mods => "AFBC_32X8" \in u.both
      /\ AFBC_TILED_HEADERS \in f.mods => "AFBC_TILED_HEADERS" \in u.both
      /\ AFBC_SPARSE \notin f.mods => "AFBC_WRITE_NON_SPARSE" \in u.write
  BY <1>2, <1>3, <1>5, ValidatedMods
<1> QED
  BY <1>2, <1>3, <1>4 DEF is_afbc_multiplane_supported, is_afrc, is_block_linear

\* An AFRC format of the search.
LEMMA AfrcIsSupported ==
  ASSUME NEW row, NEW usage, NEW features, NEW f, f = get_afrc_format(row, usage, features),
         is_afrc(f)
  PROVE  /\ f.base = row.id
         /\ ~is_afbc(f) /\ ~is_block_linear(f)
         /\ IF AFRC_ROT_LAYOUT \in f.mods THEN "AFRC_ROT_LAYOUT" \in features
            ELSE "AFRC_SCAN_LAYOUT" \in features
         /\ AfrcType(row, f) # NoType
<1> USE DEF AFBC_BASIC, AFRC_BASIC, BLOCK_LINEAR_BASIC, AFBC_SPLITBLK, AFRC_ROT_LAYOUT,
            AFRC_LUMA_SHIFT, AFRC_CHROMA_SHIFT
<1> DEFINE luma == LumaCodingSize(usage)
           chroma == IF is_yuv(row) THEN ChromaCodingSize(usage) ELSE 16
<1>1. ~is_afrc(from_android(row.id))
  BY DEF is_afrc, from_android
<1>2. /\ f.base = row.id
      /\ f.mods = {AFRC_BASIC}
                    \cup (IF "AFRC_ROT_LAYOUT" \in features THEN {AFRC_ROT_LAYOUT} ELSE {})
                    \cup CodingBits(luma, AFRC_LUMA_SHIFT)
                    \cup CodingBits(chroma, AFRC_CHROMA_SHIFT)
      /\ "AFRC_ROT_LAYOUT" \in features \/ "AFRC_SCAN_LAYOUT" \in features
      /\ luma \in {16, 24, 32} /\ chroma \in {16, 24, 32}
  BY <1>1 DEF get_afrc_format, LumaCodingSize, ChromaCodingSize, CodingBits, Meets
<1> HIDE DEF luma, chroma
<1>3. /\ CodingBits(luma, AFRC_LUMA_SHIFT) \subseteq {4, 5}
      /\ CodingBits(chroma, AFRC_CHROMA_SHIFT) \subseteq {6, 7}
  BY <1>2 DEF CodingBits
<1>4. /\ f.mods \cap {4, 5} = CodingBits(luma, 4)
      /\ f.mods \cap {6, 7} = CodingBits(chroma, 6)
  BY <1>2, <1>3
<1>5. ASSUME NEW shift \in {4, 6}, NEW unit \in {16, 24, 32},
             f.mods \cap {shift, shift + 1} = CodingBits(unit, shift)
      PROVE  to_bytes(f, shift) = unit
  <2>1. \A other \in {16, 24, 32, 40} :
          CodingBits(other, shift) = CodingBits(unit, shift) => other = unit
    BY DEF CodingBits
  <2> QED
    BY <1>5, <2>1 DEF to_bytes
<1>6. to_bytes(f, AFRC_LUMA_SHIFT) = luma /\ to_bytes(f, AFRC_CHROMA_SHIFT) = chroma
  BY <1>2, <1>4, <1>5
<1>7. AfrcType(row, f).type = "AFRC"
  BY <1>2, <1>6 DEF AfrcType, afrc_plane_alignment_requirement
<1> QED
  BY <1>2, <1>3, <1>7 DEF is_afbc, is_block_linear, NoType

\* Somebody writes every buffer.
LEMMA ProducersAreKnown ==
  ASSUME NEW usage
  PROVE  Producers(usage) # {} /\ Producers(usage) \subseteq IPs \cup {"CPU"}
  BY DEF Producers, get_producers, IPs

\* The layouts that is_format_supported lets through.
LEMMA LayoutIsSupported ==
  ASSUME NEW i \in DOMAIN formats, NEW usage, NEW c, NEW features,
         NEW l \in is_format_supported(formats[i], usage, Producers(usage), c, features)
  PROVE  /\ l = "LIN" => "linear" \in formats[i].flags
         /\ l = "AFBC" => "afbc" \in formats[i].flags
         /\ l = "AFRC" => "afrc" \in formats[i].flags
         /\ l = "BL" => /\ "block_linear" \in formats[i].flags
                        /\ formats[i].bps = 8 => "YUV_BL_8" \in features
                        /\ formats[i].bps = 10 => "YUV_BL_10" \in features
<1> DEFINE row == formats[i]
           p == Producers(usage)
           listed == usage_supports_base_format(usage,
                       ip_supports_base_format(p, c, get_format_ip_support[row.id]))
<1>1. \/ /\ l \in listed
         /\ l = "AFBC" => "afbc" \in row.flags
         /\ l = "AFRC" => "afrc" \in row.flags
         /\ l = "BL" => /\ "block_linear" \in row.flags
                        /\ row.bps = 8 => "YUV_BL_8" \in features
                        /\ row.bps = 10 => "YUV_BL_10" \in features
      \/ l = "LIN" /\ row.id = "RGBA_16161616"
  <2> HIDE DEF row, listed, p
  <2>1. l \in is_format_supported(row, usage, p, c, features)
    BY DEF row, p
  <2> QED
    BY <2>1 DEF is_format_supported, N, L, listed
<1>2. ASSUME l = "LIN", l \in listed
      PROVE  "linear" \in row.flags
  <2>1. \A ip \in p : "LIN" \in get_format_ip_support[row.id].wr[ip]
    BY <1>2 DEF usage_supports_base_format, ip_supports_base_format
  <2> QED
    BY <2>1, ProducersAreKnown, TablesAgree
<1>3. row.id = "RGBA_16161616" => "linear" \in row.flags
  BY TablesAgree
<1> QED
  BY <1>1, <1>2, <1>3

\* What get_supported_format can return for a row of the table.
LEMMA SupportedKinds ==
  ASSUME NEW i \in DOMAIN formats, NEW f, f # Invalid, users = Users(req.dir, req.usage),
         f = get_supported_format(req, formats[i], users)
  PROVE  \/ /\ f = get_afrc_format(formats[i], req.usage, users.both) /\ is_afrc(f)
            /\ "afrc" \in formats[i].flags
         \/ /\ f = get_afbc_format(formats[i], req.usage, users) /\ is_afbc(f)
            /\ "afbc" \in formats[i].flags
            /\ UsableAfbcType(formats[i], get_alloc_type(formats[i], f, req.usage))
         \/ /\ f = [base |-> formats[i].id, mods |-> {BLOCK_LINEAR_BASIC}]
            /\ "block_linear" \in formats[i].flags
            /\ \E features \in {users.both, users.without_dpu} :
                 /\ features # users.both => {"GPU", "DPU"} \subseteq users.consumers
                 /\ formats[i].bps = 8 => "YUV_BL_8" \in features
                 /\ formats[i].bps = 10 => "YUV_BL_10" \in features
         \/ f = from_android(formats[i].id) /\ "linear" \in formats[i].flags
<1> DEFINE row == formats[i]
           u == users
           usage == req.usage
           supported == is_format_supported(row, usage, u.producers, u.consumers, u.both)
           fallback == supported = N /\ {"GPU", "DPU"} \subseteq u.consumers
           found == IF fallback
                    THEN is_format_supported(row, usage, u.producers, u.consumers \ {"DPU"},
                                             u.without_dpu)
                    ELSE supported
           afbc == get_afbc_format(row, usage, u)
           bl == get_bl_format(from_android(row.id), u.both)
<1>1. u.producers = Producers(usage)
  BY DEF Users
<1>2. PICK features \in {u.both, u.without_dpu} :
        /\ features # u.both => {"GPU", "DPU"} \subseteq u.consumers
        /\ "LIN" \in found => "linear" \in row.flags
        /\ "AFBC" \in found => "afbc" \in row.flags
        /\ "AFRC" \in found => "afrc" \in row.flags
        /\ "BL" \in found => /\ "block_linear" \in row.flags
                             /\ row.bps = 8 => "YUV_BL_8" \in features
                             /\ row.bps = 10 => "YUV_BL_10" \in features
  <2>1. CASE fallback
    <3> DEFINE features == u.without_dpu
    <3> USE <2>1
    <3>1. found = is_format_supported(row, usage, Producers(usage), u.consumers \ {"DPU"}, features)
      BY <1>1
    <3> HIDE DEF found, features, row, usage
    <3>2. \A l \in found :
            /\ l = "LIN" => "linear" \in row.flags
            /\ l = "AFBC" => "afbc" \in row.flags
            /\ l = "AFRC" => "afrc" \in row.flags
            /\ l = "BL" => /\ "block_linear" \in row.flags
                           /\ row.bps = 8 => "YUV_BL_8" \in features
                           /\ row.bps = 10 => "YUV_BL_10" \in features
      BY <3>1, LayoutIsSupported DEF row
    <3> QED
      BY <3>2 DEF features
  <2>2. CASE ~fallback
    <3> DEFINE features == u.both
    <3> USE <2>2
    <3>1. found = is_format_supported(row, usage, Producers(usage), u.consumers, features)
      BY <1>1
    <3> HIDE DEF found, features, row, usage, fallback
    <3>2. \A l \in found :
            /\ l = "LIN" => "linear" \in row.flags
            /\ l = "AFBC" => "afbc" \in row.flags
            /\ l = "AFRC" => "afrc" \in row.flags
            /\ l = "BL" => /\ "block_linear" \in row.flags
                           /\ row.bps = 8 => "YUV_BL_8" \in features
                           /\ row.bps = 10 => "YUV_BL_10" \in features
      BY <3>1, LayoutIsSupported DEF row
    <3> QED
      BY <3>2 DEF features
  <2> QED
    BY <2>1, <2>2
<1>3. \/ f = get_afrc_format(row, usage, u.both) /\ is_afrc(f) /\ "AFRC" \in found
      \/ /\ f = afbc /\ is_afbc(f) /\ "AFBC" \in found
         /\ UsableAfbcType(row, get_alloc_type(row, f, usage))
      \/ f = bl /\ is_block_linear(f) /\ "BL" \in found
      \/ f = from_android(row.id) /\ "LIN" \in found
  <2> HIDE DEF row
  <2>1. f = get_supported_format(req, row, u)
    BY DEF row
  <2> QED
    BY <2>1 DEF get_supported_format
<1>4. is_block_linear(bl) => bl = [base |-> row.id, mods |-> {BLOCK_LINEAR_BASIC}]
  BY DEF get_bl_format, is_block_linear, from_android, WithMods
<1> QED
  BY <1>2, <1>3, <1>4

\* What processors support together each supports on its own.
LEMMA EachSupports ==
  ASSUME NEW dir, NEW p, NEW c, NEW feature, ip_support_feature(dir, p, c, feature)
  PROVE  /\ \A ip \in p : ip_support_feature(dir, {ip}, {}, feature)
         /\ \A ip \in c : ip_support_feature(dir, {}, {ip}, feature)
  BY DEF ip_support_feature

\* The format chosen is what the search makes of row i.
ChosenFrom(i) ==
  /\ users = Users(req.dir, req.usage)
  /\ alloc_format = get_supported_format(req, formats[i], users)
  /\ info = formats[i]

LEMMA ChosenHasFeatures ==
  ASSUME NEW i \in DOMAIN formats, ChosenFrom(i), alloc_format # Invalid
  PROVE  EveryIpHasTheFeatures
<1> DEFINE f == alloc_format
           c == get_consumers(req.usage)
           writers == Producers(req.usage)
           gpuComposes == is_block_linear(f) /\ "GPU" \in c
           readers == c \ (IF gpuComposes THEN {"DPU"} ELSE {})
           supports(p, q, features) ==
             \A feature \in features : ip_support_feature(req.dir, p, q, feature)
           each(features) == /\ \A ip \in writers : supports({ip}, {}, features)
                             /\ \A ip \in readers : supports({}, {ip}, features)
<1> USE DEF ChosenFrom
<1>1. /\ users.producers = writers /\ users.consumers = c
      /\ users.both = {x \in Features : ip_support_feature(req.dir, writers, c, x)}
      /\ users.write = {x \in Features : ip_support_feature(req.dir, writers, {}, x)}
      /\ users.read = {x \in Features : ip_support_feature(req.dir, {}, c, x)}
      /\ users.without_dpu =
           {x \in Features : ip_support_feature(req.dir, writers, c \ {"DPU"}, x)}
  BY DEF Users
<1>2. \A features : features \subseteq users.both => each(features)
  BY <1>1, EachSupports
<1>3. ("AFBC_YUV" \in users.read /\ "AFBC_YUV" \in users.write) => each({"AFBC_YUV"})
  BY <1>1, EachSupports
<1>4. SUFFICES /\ each(UsedFeatures(f))
               /\ is_afbc(f) /\ AFBC_SPARSE \notin f.mods =>
                    supports(writers, {}, {"AFBC_WRITE_NON_SPARSE"})
  BY DEF EveryIpHasTheFeatures
<1>5. \/ f = get_afrc_format(info, req.usage, users.both) /\ is_afrc(f)
      \/ f = get_afbc_format(info, req.usage, users) /\ is_afbc(f)
      \/ /\ f = [base |-> info.id, mods |-> {BLOCK_LINEAR_BASIC}]
         /\ "block_linear" \in info.flags
         /\ \E features \in {users.both, users.without_dpu} :
              /\ features # users.both => {"GPU", "DPU"} \subseteq users.consumers
              /\ info.bps = 8 => "YUV_BL_8" \in features
              /\ info.bps = 10 => "YUV_BL_10" \in features
      \/ f = from_android(info.id)
  BY SupportedKinds
<1>6. CASE f = get_afrc_format(info, req.usage, users.both) /\ is_afrc(f)
  <2>1. UsedFeatures(f) \subseteq users.both /\ ~is_afbc(f)
    BY <1>6, AfrcIsSupported DEF UsedFeatures
  <2> QED
    BY <2>1, <1>2
<1>7. CASE f = get_afbc_format(info, req.usage, users) /\ is_afbc(f)
  <2>1. UsedFeatures(f) \subseteq users.both \cup (IF is_yuv(info) THEN {"AFBC_YUV"} ELSE {})
    BY <1>7, AfbcIsSupported DEF UsedFeatures
  <2>2. is_yuv(info) => "AFBC_YUV" \in users.read /\ "AFBC_YUV" \in users.write
    BY <1>7, AfbcIsSupported
  <2>3. AFBC_SPARSE \notin f.mods => "AFBC_WRITE_NON_SPARSE" \in users.write
    BY <1>7, AfbcIsSupported
  <2>4. each(users.both) /\ (is_yuv(info) => each({"AFBC_YUV"}))
    BY <1>2, <1>3, <2>2
  <2>5. each(UsedFeatures(f))
    BY <2>1, <2>4
  <2> QED
    BY <2>3, <2>5, <1>1
<1>8. CASE /\ f = [base |-> info.id, mods |-> {BLOCK_LINEAR_BASIC}]
           /\ "block_linear" \in info.flags
           /\ \E features \in {users.both, users.without_dpu} :
                /\ features # users.both => {"GPU", "DPU"} \subseteq users.consumers
                /\ info.bps = 8 => "YUV_BL_8" \in features
                /\ info.bps = 10 => "YUV_BL_10" \in features
  <2>1. is_block_linear(f) /\ ~is_afbc(f) /\ ~is_afrc(f)
    BY <1>8 DEF is_block_linear, is_afbc, is_afrc, BLOCK_LINEAR_BASIC, AFBC_BASIC, AFRC_BASIC
  <2>2. PICK features \in {users.both, users.without_dpu} :
          /\ features # users.both => {"GPU", "DPU"} \subseteq users.consumers
          /\ info.bps = 8 => "YUV_BL_8" \in features
          /\ info.bps = 10 => "YUV_BL_10" \in features
    BY <1>8
  <2>3. UsedFeatures(f) \subseteq features
    BY <1>8, <2>1, <2>2, TablesAgree DEF UsedFeatures
  <2>4. CASE features = users.both
    BY <2>1, <2>3, <2>4, <1>2
  <2>5. CASE features # users.both
    <3>1. features = users.without_dpu /\ readers = c \ {"DPU"}
      BY <2>1, <2>2, <2>5, <1>1
    <3>2. each(users.without_dpu)
      BY <3>1, <1>1, EachSupports
    <3> QED
      BY <2>1, <2>3, <3>1, <3>2
  <2> QED
    BY <2>4, <2>5
<1>9. CASE f = from_android(info.id)
  <2>1. ~is_block_linear(f) /\ ~is_afbc(f) /\ ~is_afrc(f)
    BY <1>9 DEF is_block_linear, is_afbc, is_afrc, from_android
  <2> QED
    BY <2>1 DEF UsedFeatures
<1> QED
  BY <1>5, <1>6, <1>7, <1>8, <1>9

\* The allocation type of what was chosen exists and is one of its format's.
LEMMA ChosenIsAllocatable ==
  ASSUME NEW i \in DOMAIN formats, ChosenFrom(i), alloc_format # Invalid
  PROVE  LET t == get_alloc_type(info, alloc_format, req.usage)
         IN t # NoType /\ (validate_format(info, t, req.height)
                             \/ (info.id = "BLOB" /\ req.height # 1))
<1> DEFINE f == alloc_format
           t == get_alloc_type(info, f, req.usage)
<1> USE DEF ChosenFrom
<1>1. info.npln \in Nat \ {0}
  BY TablesAgree
<1>2. CASE /\ f = get_afrc_format(info, req.usage, users.both) /\ is_afrc(f)
           /\ "afrc" \in info.flags
  <2>1. t = AfrcType(info, f) /\ t # NoType
    BY <1>2, AfrcIsSupported DEF get_alloc_type
  <2>2. t.type = "AFRC"
    BY <2>1 DEF AfrcType
  <2> QED
    BY <1>2, <2>1, <2>2 DEF validate_format, AfbcTypes
<1>3. CASE /\ f = get_afbc_format(info, req.usage, users) /\ is_afbc(f)
           /\ "afbc" \in info.flags /\ UsableAfbcType(info, t)
  <2>1. AFBC_EXTRAWIDEBLK \in f.mods => info.npln > 1
    BY <1>3, AfbcIsSupported
  <2>2. t = AfbcType(info, f, req.usage) /\ t # NoType /\ (info.npln = 1 \/ t.multi)
    BY <1>3 DEF get_alloc_type, UsableAfbcType
  <2> HIDE DEF t, f
  <2>3. /\ t.type = IF AFBC_WIDEBLK \in f.mods THEN "AFBC_WIDEBLK"
                    ELSE IF AFBC_EXTRAWIDEBLK \in f.mods THEN "AFBC_EXTRAWIDEBLK" ELSE "AFBC"
        /\ t.multi = (/\ info.npln > 1
                      /\ is_yuv(info) => /\ AFBC_TILED_HEADERS \in f.mods
                                         /\ AFBC_EXTRAWIDEBLK \in f.mods)
    BY <2>2 DEF AfbcType
  <2>4. t.multi = (info.npln > 1)
    <3> DEFINE several == info.npln > 1
               apart == is_yuv(info) => /\ AFBC_TILED_HEADERS \in f.mods
                                        /\ AFBC_EXTRAWIDEBLK \in f.mods
    <3>1. several <=> info.npln # 1
      BY <1>1
    <3>2. t.multi = (several /\ apart)
      BY <2>3
    <3> HIDE DEF several, apart
    <3>3. several => apart
      BY <2>2, <3>1, <3>2, Zenon
    <3>4. several \in BOOLEAN
      BY DEF several
    <3>5. t.multi = several
      <4>1. (several /\ apart) = several
        BY <3>3, <3>4
      <4> QED
        BY <4>1, <3>2
    <3> QED
      BY <3>5 DEF several
  <2>5. /\ t.type \in AfbcTypes
        /\ info.npln = 1 => t.type # "AFBC_EXTRAWIDEBLK"
    BY <2>1, <2>3, <1>1 DEF AfbcTypes
  <2> QED
    <3>1. validate_format(info, t, req.height) <=> (info.id = "BLOB" => req.height = 1)
      <4>1. "afbc" \in info.flags
        BY <1>3
      <4>2. t.type # "AFRC" /\ t.type # "BLOCK_LINEAR"
        BY <2>5 DEF AfbcTypes
      <4> QED
        BY <2>4, <2>5, <4>1, <4>2, Zenon DEF validate_format
    <3> QED
      BY <2>2, <3>1 DEF t, f
<1>4. CASE f = [base |-> info.id, mods |-> {BLOCK_LINEAR_BASIC}] /\ "block_linear" \in info.flags
  <2>1. t.type = "BLOCK_LINEAR" /\ t # NoType
    BY <1>4 DEF get_alloc_type, is_afbc, is_afrc, is_block_linear, BLOCK_LINEAR_BASIC,
                AFBC_BASIC, AFRC_BASIC, NoType
  <2> QED
    BY <1>4, <2>1 DEF validate_format, AfbcTypes
<1>5. CASE f = from_android(info.id) /\ "linear" \in info.flags
  <2>1. t.type = "UNCOMPRESSED" /\ t # NoType
    BY <1>5 DEF get_alloc_type, is_afbc, is_afrc, is_block_linear, from_android, NoType
  <2> QED
    BY <1>5, <2>1 DEF validate_format, AfbcTypes
<1> QED
  BY <1>2, <1>3, <1>4, <1>5, SupportedKinds

\* A format with no modifiers asks nothing of a processor.
LEMMA ForcedHasFeatures ==
  ASSUME alloc_format.mods = {}
  PROVE  EveryIpHasTheFeatures
  BY DEF EveryIpHasTheFeatures, UsedFeatures, is_afbc, is_afrc, is_block_linear

\* What the search found is a row's supported format; what a framebuffer is forced to is linear.
ChosenInv ==
  /\ pc = "select" => users = << >>
  /\ pc = "search" => users = Users(req.dir, req.usage)
  /\ pc \in {"select", "search"} => alloc_format = Invalid
  /\ pc \notin {"select", "search"} /\ Searched /\ alloc_format # Invalid =>
       \/ \E i \in DOMAIN formats : ChosenFrom(i)
       \/ alloc_format = from_android("BGRA_8888") /\ info = get_format_info["BGRA_8888"]

LEMMA ChosenInit == Init => ChosenInv
  BY DEF Init, ChosenInv

LEMMA ChosenAtEnd ==
  ASSUME PhaseInv, ChosenInv, ChooseFormat
  PROVE  ChosenInv'
<1> DEFINE f == IF own.grade # best.grade /\ MayRemap THEN best.format ELSE own.format
<1>1. users = Users(req.dir, req.usage) /\ SearchInv
  BY DEF ChosenInv, PhaseInv, ChooseFormat
<1>2. f = Invalid \/ \E i \in DOMAIN formats :
                       /\ f = get_supported_format(req, formats[i], users)
                       /\ f.base = formats[i].id
  <2>1. \A offer \in {best, own} : offer.format = Invalid \/ \E i \in DOMAIN formats :
                                     /\ offer.format = get_supported_format(req, formats[i], users)
                                     /\ offer.format.base = formats[i].id
    <3>1. \A offer \in {best, own} :
            offer = None \/ \E i \in DOMAIN formats : offer = Offer(formats[i]) /\ Grade(i) > 0
      BY <1>1 DEF SearchInv, Considered
    <3>2. \A i \in DOMAIN formats :
            /\ Offer(formats[i]).format = get_supported_format(req, formats[i], users)
            /\ Grade(i) > 0 => Offer(formats[i]).format.base = formats[i].id
      BY OfferFacts DEF Offer, Grade
    <3>3. None.format = Invalid
      BY DEF None
    <3> QED
      BY <3>1, <3>2, <3>3
  <2> QED
    BY <2>1
<1> HIDE DEF f
<1>3. Proceed(ForcedForFramebuffer(req, f)) /\ UNCHANGED <<req, search>>
  BY DEF ChooseFormat, f
<1>4. /\ alloc_format' \in {f, Invalid, from_android("BGRA_8888")}
      /\ pc' \in {"derive", "failed"}
      /\ alloc_format' # Invalid => info' = get_format_info[alloc_format'.base]
  BY <1>3 DEF Proceed, ForcedForFramebuffer
<1>5. CASE alloc_format' = f /\ f # Invalid
  <2>1. PICK i \in DOMAIN formats : /\ f = get_supported_format(req, formats[i], users)
                                    /\ f.base = formats[i].id
    BY <1>2, <1>5
  <2>2. info' = formats[i]
    BY <1>4, <1>5, <2>1, TablesAgree
  <2>3. ChosenFrom(i)'
    BY <1>1, <1>3, <1>5, <2>1, <2>2 DEF ChosenFrom, search
  <2> QED
    BY <1>4, <2>3 DEF ChosenInv
<1>6. CASE alloc_format' = Invalid
  BY <1>4, <1>6 DEF ChosenInv
<1>7. CASE alloc_format' = from_android("BGRA_8888")
  BY <1>4, <1>7 DEF ChosenInv, from_android
<1> QED
  BY <1>4, <1>5, <1>6, <1>7

LEMMA ChosenStep ==
  ASSUME PhaseInv, ChosenInv, [Next]_vars
  PROVE  ChosenInv'
<1>1. CASE SelectForcedFormat \/ RefuseRequest
  BY <1>1 DEF SelectForcedFormat, RefuseRequest, Proceed, search, ChosenInv, Searched
<1>2. CASE StartSearch
  BY <1>2 DEF StartSearch, ChosenInv, chosen
<1>3. CASE ConsiderCandidate
  BY <1>3 DEF ConsiderCandidate, ChosenInv, chosen
<1>4. CASE ChooseFormat
  BY <1>4, ChosenAtEnd
<1>5. CASE /\ UNCHANGED <<req, search, chosen>>
           /\ pc \notin {"select", "search"} <=> pc' \notin {"select", "search"}
           /\ pc \in {"select", "search"} => pc' = pc
  BY <1>5 DEF ChosenInv, ChosenFrom, Searched, search, chosen
<1>6. CASE DeriveType \/ AlignDimensions \/ CalcPlane \/ FinishLayout \/ set_fixed_buffer_size
  BY <1>5, <1>6 DEF DeriveType, AlignDimensions, CalcPlane, FinishLayout, set_fixed_buffer_size
<1>7. CASE UNCHANGED vars
  BY <1>5, <1>7 DEF vars
<1> QED
  BY <1>1, <1>2, <1>3, <1>4, <1>6, <1>7 DEF Next

\* ip_t::support: each producer can write and each consumer can read all that the modifiers of
\* the selected format need, for every request and every configuration, except for a display
\* that leaves a block linear format to the GPU.
THEOREM SelectedIsSupported == Spec => []EveryIpHasTheFeatures
<1>1. ChosenInv => EveryIpHasTheFeatures
  <2> SUFFICES ASSUME ChosenInv, Searched, alloc_format # Invalid
               PROVE  EveryIpHasTheFeatures
    BY DEF EveryIpHasTheFeatures
  <2>1. CASE \E i \in DOMAIN formats : ChosenFrom(i)
    BY <2>1, ChosenHasFeatures
  <2>2. CASE alloc_format = from_android("BGRA_8888")
    BY <2>2, ForcedHasFeatures DEF from_android
  <2> QED
    BY <2>1, <2>2 DEF ChosenInv
<1> QED
  BY <1>1, PhaseInit, PhaseStep, ChosenInit, ChosenStep, PTL DEF Spec

\* A step that refuses a format that was selected refuses a BLOB of more than one row.
LEMMA AllocatableStep ==
  ASSUME ChosenInv, SelectedIsAllocatable, [Next]_vars
  PROVE  SelectedIsAllocatable'
<1>1. CASE DeriveType
  <2> DEFINE t == get_alloc_type(info, alloc_format, req.usage)
  <2> SUFFICES ASSUME pc' = "failed", Searched', alloc_format' # Invalid
               PROVE  alloc_format'.base = "BLOB" /\ req'.height # 1
    BY DEF SelectedIsAllocatable
  <2>1. /\ Searched /\ alloc_format # Invalid
        /\ alloc_format' = alloc_format /\ req' = req
        /\ ~(t # NoType /\ validate_format(info, t, req.height))
    BY <1>1 DEF DeriveType, search, chosen, Searched
  <2>2. CASE \E i \in DOMAIN formats : ChosenFrom(i)
    <3>1. PICK i \in DOMAIN formats : ChosenFrom(i)
      BY <2>2
    <3>2. info.id = "BLOB" /\ req.height # 1
      BY <2>1, <3>1, ChosenIsAllocatable
    <3>3. alloc_format.base = info.id
      BY <2>1, <3>1, SupportedBase DEF ChosenFrom
    <3> QED
      BY <2>1, <3>2, <3>3
  <2>3. CASE /\ alloc_format = from_android("BGRA_8888")
             /\ info = get_format_info["BGRA_8888"]
    <3>1. t.type = "UNCOMPRESSED" /\ t # NoType
      BY <2>3 DEF get_alloc_type, is_afbc, is_afrc, is_block_linear, from_android, NoType
    <3>2. validate_format(info, t, req.height)
      BY <2>3, <3>1, TablesAgree DEF validate_format, AfbcTypes
    <3> QED
      BY <2>1, <3>1, <3>2
  <2>4. pc \notin {"select", "search"}
    BY <1>1 DEF DeriveType
  <2> QED
    BY <2>1, <2>2, <2>3, <2>4 DEF ChosenInv
<1>2. CASE SelectForcedFormat \/ RefuseRequest \/ ChooseFormat
  BY <1>2 DEF SelectForcedFormat, RefuseRequest, ChooseFormat, Proceed, SelectedIsAllocatable
<1>3. CASE StartSearch \/ ConsiderCandidate
  BY <1>3 DEF StartSearch, ConsiderCandidate, SelectedIsAllocatable
<1>4. CASE AlignDimensions \/ CalcPlane \/ FinishLayout \/ set_fixed_buffer_size
  BY <1>4 DEF AlignDimensions, CalcPlane, FinishLayout, set_fixed_buffer_size,
              SelectedIsAllocatable
<1>5. CASE UNCHANGED vars
  BY <1>5 DEF vars, search, chosen, SelectedIsAllocatable, Searched
<1> QED
  BY <1>1, <1>2, <1>3, <1>4, <1>5 DEF Next

\* get_alloc_type and validate_format never refuse a format that the search returned, for any
\* request and configuration, but for a BLOB of more than one row.
THEOREM SelectedIsNotRefused == Spec => []SelectedIsAllocatable
<1>1. Init => SelectedIsAllocatable
  BY DEF Init, SelectedIsAllocatable
<1> QED
  BY <1>1, PhaseInit, PhaseStep, ChosenInit, ChosenStep, AllocatableStep, PTL DEF Spec

-----------------------------------------------------------------------------
(***************************************************************************)
(* Arithmetic                                                              *)
(***************************************************************************)
\* The arithmetic that the layout is made of: a quotient and its remainder.
LEMMA DivModIs ==
  ASSUME NEW x \in Nat, NEW b \in Nat \ {0}
  PROVE  /\ x \div b \in Nat /\ x % b \in Nat /\ x % b < b
         /\ x = b * (x \div b) + (x % b)
OBVIOUS

\* Products of numbers grow with their factors.
LEMMA TimesGrows ==
  ASSUME NEW i \in Nat, NEW j \in Nat, NEW k \in Nat, i <= j
  PROVE  i * k <= j * k /\ k * i <= k * j
<1>1. PICK d \in Nat : j = i + d
  <2>1. j - i \in Nat /\ j = i + (j - i)
    OBVIOUS
  <2> QED
    BY <2>1
<1>2. j * k = i * k + d * k /\ d * k \in Nat
  BY <1>1
<1> QED
  BY <1>2

\* Multiples have no remainder.
LEMMA MultipleMod ==
  ASSUME NEW k \in Nat, NEW b \in Nat \ {0}
  PROVE  (k * b) % b = 0 /\ (k * b) \div b = k
<1> DEFINE x == k * b
           q == x \div b
           r == x % b
<1>1. x \in Nat
  OBVIOUS
<1>2. q \in Nat /\ r \in Nat /\ r < b /\ x = b * q + r
  BY <1>1, DivModIs
<1> HIDE DEF q, r
<1>3. CASE q < k
  <2>1. (q + 1) * b <= k * b
    BY <1>2, <1>3, TimesGrows
  <2>2. (q + 1) * b = b * q + b
    BY <1>2
  <2> QED
    BY <1>2, <2>1, <2>2
<1>4. CASE q > k
  <2>1. (k + 1) * b <= q * b
    BY <1>2, <1>4, TimesGrows
  <2>2. (k + 1) * b = k * b + b
    OBVIOUS
  <2> QED
    BY <1>2, <2>1, <2>2
<1>5. CASE q = k
  BY <1>2, <1>5 DEF q, r
<1> QED
  BY <1>2, <1>3, <1>4, <1>5

\* What leaves no remainder is a multiple.
LEMMA ModIsMultiple ==
  ASSUME NEW x \in Nat, NEW b \in Nat \ {0}, x % b = 0
  PROVE  x = (x \div b) * b /\ x \div b \in Nat
BY DivModIs

\* GRALLOC_ALIGN
LEMMA AlignIs ==
  ASSUME NEW x \in Nat, NEW b \in Nat \ {0}
  PROVE  /\ GRALLOC_ALIGN(x, b) \in Nat
         /\ GRALLOC_ALIGN(x, b) >= x
         /\ GRALLOC_ALIGN(x, b) % b = 0
         /\ x % b = 0 => GRALLOC_ALIGN(x, b) = x
<1> DEFINE y == x + b - 1
           q == y \div b
<1>1. y \in Nat
  OBVIOUS
<1>2. q \in Nat /\ y % b \in Nat /\ y % b < b /\ y = b * q + (y % b)
  <2> HIDE DEF y
  <2> QED
    BY <1>1, DivModIs
<1>3. GRALLOC_ALIGN(x, b) = q * b
  BY DEF GRALLOC_ALIGN
<1>4. q * b \in Nat /\ q * b >= x /\ (q * b) % b = 0
  <2> HIDE DEF q
  <2>1. q * b = b * q /\ q * b \in Nat
    BY <1>2
  <2>2. x <= q * b
    BY <1>2, <2>1
  <2> QED
    BY <1>2, <2>1, <2>2, MultipleMod
<1>5. ASSUME x % b = 0 PROVE q * b = x
  <2>1. PICK k \in Nat : x = k * b
    BY <1>5, ModIsMultiple
  <2> HIDE DEF q
  <2>2. y = k * b + (b - 1)
    BY <2>1
  <2>3. k * b <= q * b
    BY <1>4, <2>1
  <2>4. q * b < (k + 1) * b
    <3>1. (k + 1) * b = k * b + b /\ q * b = b * q
      BY <1>2
    <3> QED
      BY <1>2, <2>2, <3>1
  <2>5. q = k
    <3>1. CASE q > k
      BY <1>2, <2>4, <3>1, TimesGrows
    <3>2. CASE q < k
      <4>1. (q + 1) * b <= k * b /\ (q + 1) * b = q * b + b
        BY <1>2, <3>2, TimesGrows
      <4> QED
        BY <1>4, <2>3, <4>1
    <3> QED
      BY <1>2, <3>1, <3>2
  <2> QED
    BY <2>1, <2>5
<1> QED
  BY <1>3, <1>4, <1>5

\* Products and sums of multiples are multiples.
LEMMA MultiplesClosed ==
  ASSUME NEW x \in Nat, NEW b \in Nat \ {0}, x % b = 0
  PROVE  /\ \A y \in Nat : (x * y) % b = 0 /\ (y * x) % b = 0
         /\ \A y \in Nat : y % b = 0 => (x + y) % b = 0
         /\ \A c \in Nat \ {0} : b % c = 0 => x % c = 0
<1>1. PICK k \in Nat : x = k * b
  BY ModIsMultiple
<1>2. ASSUME NEW y \in Nat PROVE (x * y) % b = 0 /\ (y * x) % b = 0
  <2>1. x * y = (k * y) * b /\ y * x = (k * y) * b /\ k * y \in Nat
    BY <1>1
  <2> QED
    BY <2>1, MultipleMod
<1>3. ASSUME NEW y \in Nat, y % b = 0 PROVE (x + y) % b = 0
  <2>1. PICK j \in Nat : y = j * b
    BY <1>3, ModIsMultiple
  <2>2. x + y = (k + j) * b /\ k + j \in Nat
    BY <1>1, <2>1
  <2> QED
    BY <2>2, MultipleMod
<1>4. ASSUME NEW c \in Nat \ {0}, b % c = 0 PROVE x % c = 0
  <2>1. PICK j \in Nat : b = j * c
    BY <1>4, ModIsMultiple
  <2>2. x = (k * j) * c /\ k * j \in Nat
    BY <1>1, <2>1
  <2> QED
    BY <2>2, MultipleMod
<1> QED
  BY <1>2, <1>3, <1>4

\* A quotient is the greatest number of whole parts.
LEMMA DivBounds ==
  ASSUME NEW x \in Nat, NEW b \in Nat \ {0}, NEW k \in Nat
  PROVE  /\ k <= x \div b <=> k * b <= x
         /\ (x \div b) * b <= x
<1> DEFINE q == x \div b
<1>1. q \in Nat /\ (x % b) \in Nat /\ x % b < b /\ x = b * q + (x % b)
  BY DivModIs
<1> HIDE DEF q
<1>2. q * b = b * q /\ q * b \in Nat /\ q * b <= x /\ x < q * b + b
  BY <1>1
<1>3. ASSUME k <= q PROVE k * b <= x
  <2>1. k * b <= q * b
    BY <1>1, <1>3, TimesGrows
  <2> QED
    BY <1>2, <2>1
<1>4. ASSUME q < k PROVE x < k * b
  <2>1. (q + 1) * b <= k * b /\ (q + 1) * b = q * b + b
    BY <1>1, <1>4, TimesGrows
  <2> QED
    BY <1>2, <2>1
<1> QED
  <2>1. k * b \in Nat
    OBVIOUS
  <2> QED
    BY <1>1, <1>2, <1>3, <1>4, <2>1 DEF q

\* Rounded up division is the least number of units.
LEMMA DivUpIs ==
  ASSUME NEW x \in Nat, NEW b \in Nat \ {0}, NEW k \in Nat, x <= k * b
  PROVE  DivUp(x, b) \in Nat /\ DivUp(x, b) <= k
<1>1. x + b - 1 \in Nat
  OBVIOUS
<1>2. ~(k + 1 <= (x + b - 1) \div b)
  <2>1. (k + 1) * b = k * b + b /\ k * b \in Nat
    OBVIOUS
  <2>2. ~((k + 1) * b <= x + b - 1)
    BY <2>1
  <2> QED
    BY <1>1, <2>2, DivBounds
<1>3. (x + b - 1) \div b \in Nat
  BY <1>1, DivModIs
<1> QED
  BY <1>2, <1>3 DEF DivUp

\* The largest of a set of numbers with a bound.
LEMMA MaxExists ==
  ASSUME NEW S, S \subseteq Nat, S # {}, NEW n \in Nat, \A x \in S : x <= n
  PROVE  Max(S) \in S /\ \A y \in S : Max(S) >= y
<1> DEFINE T == {n - x : x \in S}
<1>1. T \subseteq Nat /\ T # {}
  <2>1. \A x \in S : n - x \in Nat
    OBVIOUS
  <2>2. PICK x \in S : TRUE
    OBVIOUS
  <2>3. n - x \in T
    OBVIOUS
  <2> QED
    BY <2>1, <2>3
<1>2. Min(T) \in T /\ \A y \in T : Min(T) <= y
  BY <1>1, MinExists
<1>3. PICK m \in S : \A y \in S : n - m <= n - y
  BY <1>2
<1>4. \A y \in S : m >= y
  BY <1>3
<1> QED
  BY <1>4 DEF Max

\* The greater of two numbers.
LEMMA MaxOfTwo ==
  ASSUME NEW a \in Nat, NEW b \in Nat
  PROVE  Max({a, b}) = IF a >= b THEN a ELSE b
<1>1. \A m \in {a, b} : (\A y \in {a, b} : m >= y) => m = IF a >= b THEN a ELSE b
  OBVIOUS
<1>2. \E m \in {a, b} : \A y \in {a, b} : m >= y
  OBVIOUS
<1> QED
  BY <1>1, <1>2 DEF Max

\* lcm, which is the other alignment when one is 0
LEMMA LcmIs ==
  ASSUME NEW a \in Nat, NEW b \in Nat
  PROVE  /\ lcm(a, b) \in Nat
         /\ a = 0 => lcm(a, b) = b
         /\ b = 0 => lcm(a, b) = a
         /\ a # 0 => lcm(a, b) # 0 /\ lcm(a, b) % a = 0
         /\ b # 0 => lcm(a, b) # 0 /\ lcm(a, b) % b = 0
<1>1. CASE a = 0 \/ b = 0
  <2>1. lcm(a, b) = IF a >= b THEN a ELSE b
    BY <1>1, MaxOfTwo DEF lcm
  <2>2. a # 0 => a % a = 0
    OBVIOUS
  <2>3. b # 0 => b % b = 0
    OBVIOUS
  <2> QED
    BY <1>1, <2>1, <2>2, <2>3
<1>2. CASE a # 0 /\ b # 0
  <2> DEFINE S == {d \in 1 .. Max({a, b}) : a % d = 0 /\ b % d = 0}
             g == gcd(a, b)
  <2>1. Max({a, b}) \in Nat /\ Max({a, b}) >= 1
    BY <1>2, MaxOfTwo
  <2>11. a % 1 = 0 /\ b % 1 = 0
    <3>1. a * 1 = a /\ b * 1 = b
      OBVIOUS
    <3> QED
      BY <3>1, MultipleMod
  <2>2. S \subseteq Nat /\ 1 \in S /\ \A x \in S : x <= Max({a, b})
    BY <2>1, <2>11
  <2>3. g \in S
    BY <2>1, <2>2, MaxExists DEF gcd
  <2>4. g \in Nat \ {0} /\ a % g = 0 /\ b % g = 0
    BY <2>1, <2>3
  <2> HIDE DEF g, S
  <2>5. PICK j \in Nat, k \in Nat : a = j * g /\ b = k * g
    BY <2>4, ModIsMultiple
  <2>6. a * b = (j * b) * g /\ j * b \in Nat
    BY <2>4, <2>5
  <2>7. lcm(a, b) = j * b
    BY <1>2, <2>4, <2>6, MultipleMod DEF lcm, g
  <2>8. j * b = k * a /\ j # 0
    <3>1. j * (k * g) = k * (j * g)
      BY <2>4
    <3> QED
      BY <1>2, <2>4, <2>5, <3>1
  <2>9. (j * b) % b = 0 /\ (k * a) % a = 0
    BY <1>2, MultipleMod
  <2>10. j * b # 0
    BY <1>2, <2>8
  <2> QED
    BY <1>2, <2>6, <2>7, <2>8, <2>9, <2>10
<1> QED
  BY <1>1, <1>2

-----------------------------------------------------------------------------
(***************************************************************************)
(* Rows of the table and allocation types                                  *)
(***************************************************************************)
\* The rows of the table of formats.
Rows == {formats[i] : i \in DOMAIN formats}

\* What the type of an allocation says.
TypeIs ==
  /\ Afbc => "afbc" \in info.flags
  /\ type.type = "AFRC" =>
       /\ "afrc" \in info.flags /\ type.tile \in {<<8, 8>>, <<16, 4>>}
       /\ \A p \in 1..info.npln : type.clump[p] \in {type.tile, <<8, 4>>, <<4, 4>>}
       /\ \A k \in {1, 2} : /\ type.cu[k] \in {16, 24, 32}
                            /\ type.align[k] = afrc_plane_alignment_requirement(type.cu[k])
  /\ type.type = "BLOCK_LINEAR" => "block_linear" \in info.flags
  /\ type.type = "UNCOMPRESSED" => "linear" \in info.flags
  /\ Afbc \/ type.type \in {"AFRC", "BLOCK_LINEAR", "UNCOMPRESSED"}

\* RowsAreSound, of a row.
LEMMA RowIs ==
  ASSUME NEW row \in Rows
  PROVE  /\ row.npln \in 1..3 /\ row.align_w_cpu \in Nat \ {0}
         /\ \A p \in 1..row.npln :
              /\ row.bpp[p] \in Nat /\ row.bpp_afbc[p] \in Nat /\ row.ncmp[p] \in 1..4
              /\ "linear" \in row.flags =>
                   /\ row.bpp[p] > 0 /\ (row.bpp[p] * row.align_w_cpu) % 8 = 0
                   /\ \/ row.bpp[p] % 8 = 0
                      \/ ~is_yuv(row) /\ (row.bpp[p] * row.align[1]) % 8 = 0
         /\ \A d \in {1, 2} :
              /\ row.align[d] \in Nat \ {0}
              /\ is_yuv(row) => row.sub[d] \in {1, 2} /\ row.align[d] % row.sub[d] = 0
         /\ row.tile_size = 1 \/
              /\ row.tile_size = 2 /\ row.npln = 1 /\ row.bpp[1] = 16 /\ row.align_w_cpu = 1
              /\ is_yuv(row)
              /\ "afbc" \notin row.flags /\ "afrc" \notin row.flags /\ "block_linear" \notin row.flags
         /\ "block_linear" \in row.flags => is_yuv(row)
         /\ row.id = "YV12" =>
              /\ is_yuv(row) /\ row.npln = 3 /\ row.bpp = <<8, 8, 8>>
              /\ row.align_w_cpu = 16 /\ row.sub = <<2, 2>>
<1>1. PICK i \in DOMAIN formats : row = formats[i]
  BY DEF Rows
<1> QED
  BY <1>1, RowsAreSound

\* get_alloc_type and validate_format: the type fits the row of the format.
LEMMA TypeFacts ==
  ASSUME info \in Rows, type = get_alloc_type(info, alloc_format, req.usage),
         type # NoType, validate_format(info, type, req.height)
  PROVE  TypeIs
<1>1. CASE is_afbc(alloc_format)
  <2>1. type = AfbcType(info, alloc_format, req.usage)
    BY <1>1 DEF get_alloc_type
  <2>2. type.type \in AfbcTypes
    BY <2>1 DEF AfbcType, AfbcTypes
  <2> QED
    BY <2>2 DEF validate_format, TypeIs, Afbc, AfbcTypes
<1>2. CASE ~is_afbc(alloc_format) /\ is_afrc(alloc_format)
  <2>1. type = AfrcType(info, alloc_format)
    BY <1>2 DEF get_alloc_type
  <2>2. /\ type.type = "AFRC"
        /\ type.tile \in {<<8, 8>>, <<16, 4>>}
        /\ \A k \in {1, 2} : /\ type.align[k] = afrc_plane_alignment_requirement(type.cu[k])
                             /\ type.align[k] # 0
    BY <2>1 DEF AfrcType
  <2>3. \A k \in {1, 2} : type.cu[k] \in {16, 24, 32}
    BY <2>2 DEF afrc_plane_alignment_requirement
  <2>4. ASSUME NEW p \in 1..info.npln PROVE type.clump[p] \in {type.tile, <<8, 4>>, <<4, 4>>}
    <3>1. info.ncmp[p] \in 1..4
      BY RowIs
    <3> QED
      BY <2>1, <2>2, <3>1 DEF AfrcType
  <2> QED
    BY <2>2, <2>3, <2>4 DEF validate_format, TypeIs, Afbc, AfbcTypes
<1>3. CASE ~is_afbc(alloc_format) /\ ~is_afrc(alloc_format)
  BY <1>3 DEF get_alloc_type, validate_format, TypeIs, Afbc, AfbcTypes
<1> QED
  BY <1>1, <1>2, <1>3

\* What the samples of a plane are rounded up to.
Rounding(p, d) == Max({1, PixelAlign(p)[d], info.tile_size})

\* By how much a plane is subsampled.
Sub(p, d) == IF p > 1 /\ is_yuv(info) THEN info.sub[d] ELSE 1

\* The greatest of three numbers.
LEMMA MaxOfThree ==
  ASSUME NEW a \in Nat, NEW b \in Nat, NEW c \in Nat
  PROVE  /\ Max({a, b, c}) \in {a, b, c}
         /\ Max({a, b, c}) >= a /\ Max({a, b, c}) >= b /\ Max({a, b, c}) >= c
<1>1. \A x \in {a, b, c} : x <= a + b + c
  OBVIOUS
<1> QED
  BY <1>1, MaxExists

\* What the width and the height of a plane are rounded to, by the type.
LEMMA PixelAlignIs ==
  ASSUME info \in Rows, TypeIs, NEW p \in 1..info.npln
  PROVE  /\ PixelAlign(p)[1] \in Nat \ {0} /\ PixelAlign(p)[2] \in Nat \ {0}
         /\ Cpu => PixelAlign(p) = <<info.align_w_cpu, 1>>
         /\ ~Cpu /\ Afbc => /\ PixelAlign(p)[1] % get_afbc_sb_size(p)[1] = 0
                            /\ PixelAlign(p)[2] % get_afbc_sb_size(p)[2] = 0
         /\ ~Cpu /\ type.type = "AFRC" =>
              PixelAlign(p) = <<type.tile[1] * type.clump[p][1], type.tile[2] * type.clump[p][2]>>
         /\ ~Cpu /\ type.type = "BLOCK_LINEAR" => PixelAlign(p) = <<16, 16>>
         /\ ~Cpu /\ type.type = "UNCOMPRESSED" => PixelAlign(p) = <<1, 1>>
<1>1. CASE Cpu
  BY <1>1, RowIs DEF PixelAlign
<1>2. CASE ~Cpu /\ Afbc
  <2> DEFINE sb == get_afbc_sb_size(p)
             tile == IF ~type.tiled THEN 1 ELSE IF info.bpp_afbc[p] > 32 THEN 4 ELSE 8
             padding == IF type.padded /\ ~is_yuv(info) THEN 4 * sb[1] ELSE 0
             rows == IF type.type = "AFBC_WIDEBLK" /\ ~type.tiled THEN 16 ELSE 0
  <2>1. sb \in {<<64, 4>>, <<32, 8>>, <<16, 16>>}
    <3> DEFINE chroma == p > 1 /\ type.multi /\ is_yuv(info)
    <3>1. sb = CASE chroma \/ type.type = "AFBC_EXTRAWIDEBLK" -> <<64, 4>>
                 [] type.type = "AFBC_WIDEBLK" /\ ~chroma -> <<32, 8>>
                 [] OTHER -> <<16, 16>>
      BY Zenon DEF get_afbc_sb_size
    <3> HIDE DEF chroma, sb
    <3> QED
      BY <3>1
  <2>2. tile \in {1, 4, 8}
    OBVIOUS
  <2>3. PixelAlign(p) = <<Max({padding, tile * sb[1]}), Max({rows, tile * sb[2]})>>
    <3> DEFINE block == <<Max({padding, tile * sb[1]}), Max({rows, tile * sb[2]})>>
    <3>1. PixelAlign(p) =
            CASE Cpu -> <<info.align_w_cpu, 1>>
              [] ~Cpu /\ Afbc -> block
              [] ~Cpu /\ type.type = "AFRC" -> <<type.tile[1] * type.clump[p][1],
                                                 type.tile[2] * type.clump[p][2]>>
              [] ~Cpu /\ type.type = "BLOCK_LINEAR" -> <<16, 16>>
              [] OTHER -> <<1, 1>>
      BY Zenon DEF PixelAlign
    <3>2. type.type # "AFRC" /\ type.type # "BLOCK_LINEAR"
      BY <1>2 DEF Afbc, AfbcTypes
    <3> HIDE DEF block
    <3>3. PixelAlign(p) = block
      BY <1>2, <3>1, <3>2
    <3> QED
      BY <3>3 DEF block
  <2>4. padding \in {0, 4 * sb[1]} /\ rows \in {0, 16}
    OBVIOUS
  <2> HIDE DEF sb, tile, padding, rows
  <2>5. /\ padding \in Nat /\ rows \in Nat /\ tile * sb[1] \in Nat \ {0} /\ tile * sb[2] \in Nat \ {0}
        /\ padding % sb[1] = 0 /\ (tile * sb[1]) % sb[1] = 0
        /\ rows % sb[2] = 0 /\ (tile * sb[2]) % sb[2] = 0
    <3>1. /\ sb[1] \in {64, 32, 16} /\ sb[2] \in {4, 8, 16}
          /\ rows \in {0, 16} /\ padding \in {0, 4 * sb[1]}
      BY <2>1, <2>4
    <3>2. padding \in Nat /\ rows \in Nat /\ tile * sb[1] \in Nat \ {0} /\ tile * sb[2] \in Nat \ {0}
      BY <2>2, <3>1
    <3>3. padding % sb[1] = 0 /\ rows % sb[2] = 0
      BY <3>1
    <3>4. (tile * sb[1]) % sb[1] = 0 /\ (tile * sb[2]) % sb[2] = 0
      <4>1. tile \in Nat /\ sb[1] \in Nat \ {0} /\ sb[2] \in Nat \ {0}
        BY <2>2, <3>1
      <4> QED
        BY <4>1, MultipleMod
    <3> QED
      BY <3>2, <3>3, <3>4
  <2>6. /\ PixelAlign(p)[1] \in {padding, tile * sb[1]} /\ PixelAlign(p)[1] >= tile * sb[1]
        /\ PixelAlign(p)[2] \in {rows, tile * sb[2]} /\ PixelAlign(p)[2] >= tile * sb[2]
    BY <2>3, <2>5, MaxOfTwo
  <2> QED
    <3>1. /\ PixelAlign(p)[1] \in Nat \ {0} /\ PixelAlign(p)[1] % sb[1] = 0
          /\ PixelAlign(p)[2] \in Nat \ {0} /\ PixelAlign(p)[2] % sb[2] = 0
      BY <2>5, <2>6
    <3> QED
      BY <1>2, <3>1 DEF sb, Afbc, AfbcTypes
<1>3. CASE ~Cpu /\ ~Afbc /\ type.type = "AFRC"
  <2>1. PixelAlign(p) = <<type.tile[1] * type.clump[p][1], type.tile[2] * type.clump[p][2]>>
    BY <1>3 DEF PixelAlign
  <2>2. /\ type.tile \in {<<8, 8>>, <<16, 4>>}
        /\ type.clump[p] \in {type.tile, <<8, 4>>, <<4, 4>>}
    BY <1>3 DEF TypeIs
  <2>3. type.tile[1] * type.clump[p][1] \in Nat \ {0} /\ type.tile[2] * type.clump[p][2] \in Nat \ {0}
    BY <2>2
  <2> QED
    BY <1>3, <2>1, <2>3
<1>4. CASE ~Cpu /\ ~Afbc /\ type.type # "AFRC"
  BY <1>4 DEF PixelAlign, TypeIs
<1> QED
  BY <1>1, <1>2, <1>3, <1>4 DEF Afbc, AfbcTypes

\* Only tiled rows of pixels are rounded further.
LEMMA RoundingIs ==
  ASSUME info \in Rows, TypeIs, NEW p \in 1..info.npln, NEW d \in {1, 2}
  PROVE  /\ Rounding(p, d) \in Nat \ {0}
         /\ info.tile_size = 1 => Rounding(p, d) = PixelAlign(p)[d]
         /\ info.tile_size = 2 => Rounding(p, d) = 2
<1>1. PixelAlign(p)[d] \in Nat \ {0} /\ info.tile_size \in {1, 2}
  BY PixelAlignIs, RowIs
<1>2. ASSUME info.tile_size = 2 PROVE PixelAlign(p)[d] = 1
  <2>1. type.type = "UNCOMPRESSED" /\ info.align_w_cpu = 1
    BY <1>2, RowIs DEF TypeIs
  <2> QED
    BY <2>1, PixelAlignIs
<1>3. /\ Rounding(p, d) \in {1, PixelAlign(p)[d], info.tile_size}
      /\ Rounding(p, d) >= PixelAlign(p)[d] /\ Rounding(p, d) >= info.tile_size
  BY <1>1, MaxOfThree DEF Rounding
<1> QED
  BY <1>1, <1>2, <1>3

-----------------------------------------------------------------------------
(***************************************************************************)
(* Dimensions and samples                                                  *)
(***************************************************************************)
\* A layout is calculated from these.
Given ==
  /\ req.width \in Nat \ {0} /\ req.height \in Nat \ {0} /\ req.layers \in Nat \ {0}
  /\ info \in Rows /\ TypeIs
  /\ dims \in Nat \X Nat /\ dims[1] >= req.width /\ dims[2] >= req.height

\* The requested width or height.
Wanted(d) == <<req.width, req.height>>[d]

\* Nothing is shared between single samples.
LEMMA DivUpOne == \A x \in Nat : DivUp(x, 1) = x
BY DEF DivUp

\* n groups of s samples hold x samples if n * s does.
LEMMA SamplesFit ==
  ASSUME NEW x \in Nat, NEW n \in Nat, NEW s \in {1, 2}, n * s >= x
  PROVE  DivUp(x, s) \in Nat /\ DivUp(x, s) <= n
BY DEF DivUp

\* The pixels of a plane cover the samples of the image, rounded up.
LEMMA PixelsCover ==
  ASSUME Given, NEW p \in 1..info.npln, NEW d \in {1, 2}
  PROVE  /\ get_pixel_w_h(p)[d] \in Nat /\ Samples(p)[d] \in Nat
         /\ get_pixel_w_h(p)[d] >= Samples(p)[d]
         /\ get_pixel_w_h(p)[d] % Rounding(p, d) = 0
         /\ get_pixel_w_h(p)[d] * Sub(p, d) >= Wanted(d)
         /\ Rounding(p, d) = 1 /\ Sub(p, d) = 1 => get_pixel_w_h(p)[d] % info.align[d] = 0
<1> DEFINE samples == GRALLOC_ALIGN(dims[d], info.align[d])
           plane_samples == IF p > 1 /\ is_yuv(info) THEN samples \div info.sub[d] ELSE samples
           s == Sub(p, d)
           r == Rounding(p, d)
<1>1. get_pixel_w_h(p)[d] = GRALLOC_ALIGN(plane_samples, r)
  BY DEF get_pixel_w_h, Rounding
<1>2. Samples(p)[d] = DivUp(Wanted(d), s)
  BY DEF Samples, Sub, Wanted
<1>3. /\ Wanted(d) \in Nat /\ dims[d] \in Nat /\ dims[d] >= Wanted(d)
      /\ info.align[d] \in Nat \ {0}
      /\ s \in {1, 2} /\ info.align[d] % s = 0
      /\ r \in Nat \ {0}
  <2>1. Wanted(d) \in Nat /\ dims[d] \in Nat /\ dims[d] >= Wanted(d)
    BY DEF Given, Wanted
  <2>2. info.align[d] \in Nat \ {0}
    BY RowIs DEF Given
  <2>3. s \in {1, 2} /\ info.align[d] % s = 0
    BY <2>2, RowIs DEF Given, Sub
  <2>4. r \in Nat \ {0}
    BY RoundingIs DEF Given
  <2> QED
    BY <2>1, <2>2, <2>3, <2>4
<1>4. samples \in Nat /\ samples >= Wanted(d) /\ samples % info.align[d] = 0 /\ samples % s = 0
  <2>1. samples \in Nat /\ samples >= dims[d] /\ samples % info.align[d] = 0
    BY <1>3, AlignIs
  <2> HIDE DEF samples, s
  <2>2. s \in Nat \ {0}
    BY <1>3
  <2>3. samples % s = 0
    BY <1>3, <2>1, <2>2, MultiplesClosed
  <2> QED
    BY <1>3, <2>1, <2>3
<1>5. plane_samples = samples \div s /\ (s = 1 => plane_samples = samples)
  BY <1>4 DEF Sub
<1> HIDE DEF samples, plane_samples, s, r
<1>6. plane_samples \in Nat /\ plane_samples * s = samples
  BY <1>3, <1>4, <1>5
<1>7. /\ get_pixel_w_h(p)[d] \in Nat /\ get_pixel_w_h(p)[d] >= plane_samples
      /\ get_pixel_w_h(p)[d] % r = 0
      /\ r = 1 => get_pixel_w_h(p)[d] = plane_samples
  <2>1. plane_samples % 1 = 0
    BY <1>6
  <2> QED
    BY <1>1, <1>3, <1>6, <2>1, AlignIs
<1>8. get_pixel_w_h(p)[d] * s >= Wanted(d)
  BY <1>3, <1>4, <1>6, <1>7
<1>9. Samples(p)[d] \in Nat /\ Samples(p)[d] <= get_pixel_w_h(p)[d]
  BY <1>2, <1>3, <1>7, <1>8, SamplesFit
<1> QED
  BY <1>4, <1>5, <1>7, <1>8, <1>9 DEF s, r

\* What the CPU wants the rows of a plane to be a multiple of.
CpuBytes(p) == (info.bpp[p] * info.align_w_cpu) \div 8

\* The rows of pixels are whole bytes, and whole blocks for the CPU.
LEMMA RowsAreBytes ==
  ASSUME Given, type.type = "UNCOMPRESSED", NEW p \in 1..info.npln,
         NEW w, w = get_pixel_w_h(p)[1]
  PROVE  /\ w \in Nat /\ info.bpp[p] \in Nat \ {0} /\ CpuBytes(p) \in Nat \ {0}
         /\ info.bpp[p] * info.align_w_cpu = 8 * CpuBytes(p)
         /\ (w * info.bpp[p]) % 8 = 0
         /\ (w * info.bpp[p]) \div 8 \in Nat
         /\ Cpu => ((w * info.bpp[p]) \div 8) % CpuBytes(p) = 0
<1> DEFINE b == info.bpp[p]
           a == info.align_w_cpu
           c == CpuBytes(p)
<1>1. info \in Rows /\ TypeIs /\ "linear" \in info.flags
  BY DEF Given, TypeIs
<1>2. /\ b \in Nat \ {0} /\ a \in Nat \ {0} /\ (b * a) % 8 = 0
      /\ b % 8 = 0 \/ (~is_yuv(info) /\ (b * info.align[1]) % 8 = 0)
      /\ info.align[1] \in Nat \ {0}
  BY <1>1, RowIs
<1>3. w \in Nat
  BY PixelsCover
<1>4. c = (b * a) \div 8
  BY DEF CpuBytes
<1> HIDE DEF b, c
<1>5. c \in Nat \ {0} /\ b * a = 8 * c
  <2>1. b * a \in Nat /\ b * a # 0
    BY <1>2
  <2>2. PICK ba : ba = b * a
    OBVIOUS
  <2>3. ba \in Nat /\ ba # 0 /\ ba % 8 = 0 /\ c = ba \div 8
    BY <1>2, <1>4, <2>1, <2>2
  <2>4. c \in Nat \ {0} /\ ba = 8 * c
    BY <2>3
  <2> QED
    BY <2>2, <2>4
<1>6. CASE Cpu
  <2>1. w % a = 0
    <3>1. CASE info.tile_size = 1
      <4>1. Rounding(p, 1) = a
        BY <1>1, <1>6, <3>1, RoundingIs, PixelAlignIs
      <4> QED
        BY <4>1, PixelsCover
    <3>2. CASE info.tile_size # 1
      <4>1. a = 1
        BY <1>1, <3>2, RowIs
      <4> QED
        BY <1>3, <4>1
    <3> QED
      BY <3>1, <3>2
  <2>2. PICK k \in Nat : w = k * a
    BY <1>2, <1>3, <2>1, ModIsMultiple
  <2>3. w * b = (k * c) * 8
    <3>1. w * b = k * (b * a)
      BY <1>2, <2>2
    <3>2. k * (8 * c) = (k * c) * 8
      BY <1>5
    <3> QED
      BY <1>5, <3>1, <3>2
  <2>4. k * c \in Nat
    BY <1>5
  <2>5. (w * b) % 8 = 0 /\ (w * b) \div 8 = k * c
    BY <2>3, <2>4, MultipleMod
  <2>6. (k * c) % c = 0
    BY <1>5, MultipleMod
  <2> QED
    BY <1>2, <1>3, <1>5, <1>6, <2>4, <2>5, <2>6 DEF b, c
<1>7. CASE ~Cpu
  <2>1. ASSUME b % 8 = 0 PROVE (w * b) % 8 = 0
    BY <1>2, <1>3, <2>1, MultiplesClosed
  <2>2. ASSUME ~is_yuv(info), (b * info.align[1]) % 8 = 0 PROVE (w * b) % 8 = 0
    <3>1. info.tile_size = 1 /\ Sub(p, 1) = 1
      BY <1>1, <2>2, RowIs DEF Sub
    <3>2. Rounding(p, 1) = 1
      BY <1>1, <1>7, <3>1, RoundingIs, PixelAlignIs, TypeIs
    <3>3. w % info.align[1] = 0
      BY <3>1, <3>2, PixelsCover
    <3>4. PICK k \in Nat : w = k * info.align[1]
      BY <1>2, <1>3, <3>3, ModIsMultiple
    <3>5. w * b = (b * info.align[1]) * k
      BY <1>2, <3>4
    <3>6. b * info.align[1] \in Nat
      BY <1>2
    <3> QED
      BY <2>2, <3>5, <3>6, MultiplesClosed
  <2>3. (w * b) % 8 = 0
    BY <1>2, <2>1, <2>2
  <2>4. w * b \in Nat
    BY <1>2, <1>3
  <2>5. (w * b) \div 8 \in Nat
    BY <2>4, DivModIs
  <2> QED
    BY <1>2, <1>3, <1>5, <1>7, <2>3, <2>5 DEF b, c
<1> QED
  BY <1>6, <1>7

\* A row of pixels, aligned as the hardware and the CPU want.
Aligned(p, w) ==
  LET bits == w * info.bpp[p]
      align == stride_align(p)
  IN IF align = 0 THEN bits \div 8
     ELSE GRALLOC_ALIGN((bits \div 8) * info.tile_size, align) \div info.tile_size

\* The alignment for the hardware, and which buffers have one.
LEMMA HwAlignIs == /\ hw_align \in {0, 32, 64} /\ (HwUsage <=> hw_align # 0)
                   /\ is_yuv(info) => hw_align \in {0, 32}
BY DEF hw_align

\* The stride of a linear plane holds its row and is a multiple of what each user wants.
LEMMA AlignedIs ==
  ASSUME Given, type.type = "UNCOMPRESSED", NEW p \in 1..info.npln,
         NEW w, w = get_pixel_w_h(p)[1]
  PROVE  /\ Aligned(p, w) \in Nat /\ Aligned(p, w) >= (w * info.bpp[p]) \div 8
         /\ Aligned(p, w) * 8 >= w * info.bpp[p]
         /\ HwUsage => Aligned(p, w) % 16 = 0
         /\ HwUsage /\ info.tile_size = 1 => Aligned(p, w) % hw_align = 0
         /\ HwUsage /\ info.tile_size = 1 => Aligned(p, w) % stride_align(p) = 0
         /\ Cpu => Aligned(p, w) % CpuBytes(p) = 0
         /\ ~HwUsage => Aligned(p, w) = (w * info.bpp[p]) \div 8
<1> DEFINE n == (w * info.bpp[p]) \div 8
           c == IF Cpu THEN CpuBytes(p) ELSE 0
           a == stride_align(p)
           t == info.tile_size
           h == hw_align
           x == GRALLOC_ALIGN(n * t, a)
<1>1. /\ w \in Nat /\ info.bpp[p] \in Nat \ {0} /\ CpuBytes(p) \in Nat \ {0}
      /\ (w * info.bpp[p]) % 8 = 0 /\ n \in Nat /\ (Cpu => n % CpuBytes(p) = 0)
  BY RowsAreBytes
<1>2. w * info.bpp[p] = n * 8
  <2>1. PICK v : v = w * info.bpp[p]
    OBVIOUS
  <2>2. v \in Nat /\ v % 8 = 0
    BY <1>1, <2>1
  <2>3. v = (v \div 8) * 8
    BY <2>2
  <2> QED
    BY <2>1, <2>3
<1>10. n \in Nat /\ (Cpu => n % CpuBytes(p) = 0) /\ CpuBytes(p) \in Nat \ {0}
  BY <1>1
<1> HIDE DEF n
<1>3. c \in Nat /\ (Cpu <=> c # 0) /\ (Cpu => c = CpuBytes(p)) /\ (c # 0 => n % c = 0)
  BY <1>10
<1>4. h \in {0, 32, 64} /\ (HwUsage <=> h # 0)
  BY HwAlignIs
<1>5. a = lcm(h, c)
  BY DEF stride_align, CpuBytes
<1>6. t \in {1, 2} /\ (t = 2 => h \in {0, 32} /\ (Cpu => c = 2))
  <2>1. info \in Rows
    BY DEF Given
  <2>2. t \in {1, 2} /\ (t = 2 =>
        is_yuv(info) /\ info.npln = 1 /\ info.bpp[1] = 16 /\ info.align_w_cpu = 1)
    BY <2>1, RowIs
  <2>3. t = 2 => p = 1
    BY <2>2
  <2> QED
    BY <1>3, <2>2, <2>3, HwAlignIs DEF CpuBytes
<1>7. Aligned(p, w) = IF a = 0 THEN n ELSE x \div t
  BY DEF Aligned, n
<1> HIDE DEF c, a, t, h, x
<1>8. CASE h = 0
  <2>1. a = c
    BY <1>3, <1>4, <1>5, <1>8, LcmIs
  <2>2. Aligned(p, w) = n
    <3>1. CASE c = 0
      BY <1>7, <2>1, <3>1
    <3>2. CASE c # 0
      <4>1. n * t \in Nat /\ (n * t) % c = 0
        BY <1>10, <1>3, <1>6, <3>2, MultiplesClosed
      <4>2. x = n * t
        BY <1>3, <2>1, <3>2, <4>1, AlignIs DEF x
      <4>3. x \div t = n
        BY <1>10, <1>6, <4>2
      <4> QED
        BY <1>7, <2>1, <3>2, <4>3
    <3> QED
      BY <3>1, <3>2
  <2> QED
    BY <1>2, <1>10, <1>3, <1>4, <1>8, <2>2 DEF n, h
<1>9. CASE h # 0
  <2>1. a \in Nat \ {0} /\ a % h = 0 /\ (c # 0 => a % c = 0)
    <3>1. h \in Nat /\ c \in Nat /\ h # 0
      BY <1>3, <1>4, <1>9
    <3>2. /\ lcm(h, c) \in Nat /\ lcm(h, c) # 0 /\ lcm(h, c) % h = 0
          /\ c # 0 => lcm(h, c) % c = 0
      BY <3>1, LcmIs, Zenon
    <3>3. a \in Nat /\ a # 0 /\ a % h = 0 /\ (c # 0 => a % c = 0)
      BY <1>5, <3>2, Zenon
    <3>4. a \in Nat \ {0}
      BY <3>3
    <3> QED
      BY <3>3, <3>4, Zenon
  <2>2. x \in Nat /\ x >= n * t /\ x % a = 0
    BY <1>10, <1>6, <2>1, AlignIs DEF x
  <2>3. x % h = 0 /\ (c # 0 => x % c = 0)
    <3>1. h \in Nat \ {0} /\ (c # 0 => c \in Nat \ {0})
      BY <1>3, <1>4, <1>9
    <3> QED
      BY <2>1, <2>2, <3>1, MultiplesClosed
  <2>4. CASE t = 1
    <3>1. Aligned(p, w) = x /\ x >= n
      BY <1>10, <1>7, <2>1, <2>2, <2>4
    <3>2. x % 16 = 0
      BY <1>4, <1>9, <2>2, <2>3
    <3>3. Cpu => x % CpuBytes(p) = 0
      BY <1>3, <2>3
    <3> QED
      BY <1>1, <1>2, <1>4, <1>9, <2>2, <2>3, <3>1, <3>2, <3>3 DEF n, h, a
  <2>5. CASE t = 2
    <3>1. h = 32 /\ x % 32 = 0
      BY <1>4, <1>6, <1>9, <2>3, <2>5
    <3>2. x >= n * 2 /\ Aligned(p, w) = x \div 2
      BY <1>7, <2>1, <2>2, <2>5
    <3>3. Aligned(p, w) \in Nat /\ Aligned(p, w) >= n /\ Aligned(p, w) % 16 = 0 /\ Aligned(p, w) % 2 = 0
      BY <1>10, <2>2, <3>1, <3>2
    <3>4. Cpu => CpuBytes(p) = 2
      BY <1>3, <1>6, <2>5
    <3>5. info.tile_size # 1
      BY <2>5 DEF t
    <3> QED
      BY <1>1, <1>2, <1>4, <1>9, <3>3, <3>4, <3>5 DEF n
  <2> QED
    BY <1>6, <2>4, <2>5
<1> QED
  BY <1>8, <1>9

-----------------------------------------------------------------------------
(***************************************************************************)
(* Strides and planes                                                      *)
(***************************************************************************)
\* What a plane takes, where it ends, and where the next one starts.
Body(p) == body_size(p, plane_info[p].w, plane_info[p].h, plane_info[p].stride)
Header(p) ==
  IF Afbc THEN afbc_buffer_align(((plane_info[p].w * plane_info[p].h) \div 256) * 16) ELSE 0
End(p) == IF p = 0 THEN 0 ELSE plane_info[p].offset + (Body(p) + Header(p))
Start(p) == IF type.type = "AFRC"
            THEN GRALLOC_ALIGN(End(p - 1), type.align[IF p = 1 THEN 1 ELSE 2]) ELSE End(p - 1)

\* Each plane was calculated from the dimensions and from the planes before it.
PlaneIs(p) ==
  /\ plane_info[p].w = get_pixel_w_h(p)[1] /\ plane_info[p].h = get_pixel_w_h(p)[2]
  /\ plane_info[p].stride = byte_stride(p, plane_info[p].w)
  /\ plane_info[p].offset = Start(p)

\* All of them.
AllPlanes == \A p \in 1..info.npln : PlaneIs(p)

\* byte_stride, of a linear plane.
LEMMA UncompressedStride ==
  ASSUME type.type = "UNCOMPRESSED", NEW p, NEW w
  PROVE  byte_stride(p, w) = IF IsSharedYv12 THEN update_yv12_stride(p, Aligned(p, w))
                             ELSE Aligned(p, w)
<1>1. ~Afbc
  BY DEF Afbc, AfbcTypes
<1> QED
  BY <1>1 DEF byte_stride, Aligned

\* The rows of a YV12 buffer that the CPU and others use.
LEMMA SharedStride ==
  ASSUME Given, type.type = "UNCOMPRESSED", IsSharedYv12, NEW p \in 1..info.npln,
         PlaneIs(1), PlaneIs(p)
  PROVE  /\ info.npln = 3 /\ info.tile_size = 1 /\ hw_align = 32 /\ CpuBytes(p) = 16
         /\ plane_info[p].stride \in Nat
         /\ plane_info[p].stride = IF p = 1 THEN plane_info[1].stride
                                   ELSE plane_info[1].stride \div 2
         /\ plane_info[1].stride \in Nat /\ plane_info[1].stride % 64 = 0
         /\ plane_info[p].stride % 32 = 0 /\ plane_info[p].stride % 16 = 0
         /\ plane_info[p].stride % stride_align(p) = 0
         /\ plane_info[1].stride >= plane_info[1].w /\ plane_info[1].w >= req.width
<1>1. /\ info.npln = 3 /\ info.tile_size = 1 /\ is_yuv(info) /\ info.sub = <<2, 2>>
      /\ \A q \in 1..3 : info.bpp[q] = 8 /\ CpuBytes(q) = 16
      /\ HwUsage /\ Cpu
  <2>1. info \in Rows /\ info.id = "YV12" /\ HwUsage /\ Cpu
    BY DEF Given, IsSharedYv12
  <2>2. /\ info.npln = 3 /\ is_yuv(info) /\ info.bpp = <<8, 8, 8>>
        /\ info.align_w_cpu = 16 /\ info.sub = <<2, 2>>
    BY <2>1, RowIs
  <2>3. info.tile_size = 1
    BY <2>1, <2>2, RowIs
  <2>4. \A q \in 1..3 : info.bpp[q] = 8
    BY <2>2
  <2>5. (8 * 16) \div 8 = 16
    OBVIOUS
  <2> QED
    BY <2>1, <2>2, <2>3, <2>4, <2>5 DEF CpuBytes
<1>2. hw_align = 32
  BY <1>1 DEF hw_align
<1> DEFINE a == lcm(32, 16)
           w == plane_info[1].w
           s == plane_info[1].stride
<1>3. \A q \in 1..3 : stride_align(q) = a
  <2>1. \A q \in 1..3 : (info.bpp[q] * info.align_w_cpu) \div 8 = 16
    BY <1>1 DEF CpuBytes
  <2> QED
    BY <1>1, <1>2, <2>1 DEF stride_align
<1>4. a \in Nat \ {0} /\ a % 32 = 0
  <2>1. 32 \in Nat /\ 16 \in Nat /\ 32 # 0
    OBVIOUS
  <2>2. a \in Nat /\ a # 0 /\ a % 32 = 0
    BY <2>1, LcmIs, Zenon
  <2> QED
    BY <2>2
<1> HIDE DEF a
<1>5. /\ w = get_pixel_w_h(1)[1] /\ s = GRALLOC_ALIGN(Aligned(1, w), 2 * a)
      /\ p # 1 => plane_info[p].stride = s \div 2
  <2>1. 1 \in 1..3
    OBVIOUS
  <2> QED
    BY <1>1, <1>3, <2>1, UncompressedStride DEF PlaneIs, update_yv12_stride
<1>6. w \in Nat /\ w >= req.width /\ Aligned(1, w) \in Nat /\ Aligned(1, w) >= w
  <2>1. w \in Nat /\ w * Sub(1, 1) >= Wanted(1)
    BY <1>1, <1>5, PixelsCover
  <2>2. Sub(1, 1) = 1 /\ Wanted(1) = req.width
    BY DEF Sub, Wanted
  <2>3. Aligned(1, w) \in Nat /\ Aligned(1, w) >= (w * info.bpp[1]) \div 8
    BY <1>1, <1>5, AlignedIs
  <2>4. (w * info.bpp[1]) \div 8 = w
    BY <1>1, <2>1
  <2> QED
    BY <2>1, <2>2, <2>3, <2>4
<1>7. 2 * a \in Nat \ {0}
  BY <1>4
<1>8. s \in Nat /\ s >= Aligned(1, w) /\ s % (2 * a) = 0
  <2>1. PICK d : d = 2 * a
    OBVIOUS
  <2>2. PICK x : x = Aligned(1, w)
    OBVIOUS
  <2>3. s = GRALLOC_ALIGN(x, d) /\ d \in Nat \ {0} /\ x \in Nat
    BY <1>5, <1>6, <1>7, <2>1, <2>2, Zenon
  <2>4. s \in Nat /\ s >= x /\ s % d = 0
    BY <2>3, AlignIs
  <2> QED
    BY <2>1, <2>2, <2>4, Zenon
<1>9. PICK k \in Nat : s = k * (2 * a)
  BY <1>7, <1>8, ModIsMultiple
<1>10. s \div 2 = k * a /\ s = 2 * (k * a) /\ s = (2 * k) * a /\ k * a \in Nat /\ 2 * k \in Nat
  <2>1. PICK v : v = k * a
    OBVIOUS
  <2>2. v \in Nat
    BY <1>4, <2>1
  <2>3. s = 2 * v
    BY <1>4, <1>9, <2>1
  <2>4. (2 * k) * a = 2 * v
    BY <1>4, <2>1
  <2> QED
    BY <2>1, <2>2, <2>3, <2>4
<1>11. (k * a) % a = 0 /\ s % a = 0
  BY <1>4, <1>10, MultipleMod
<1>12. (k * a) % 32 = 0 /\ s % 64 = 0
  <2>1. PICK m \in Nat : a = m * 32
    BY <1>4
  <2>2. k * a = (k * m) * 32 /\ k * m \in Nat
    BY <2>1
  <2>3. PICK v : v = k * m
    OBVIOUS
  <2> QED
    BY <1>10, <2>2, <2>3
<1>13. CASE p = 1
  BY <1>1, <1>2, <1>3, <1>6, <1>8, <1>11, <1>12, <1>13
<1>14. CASE p # 1
  BY <1>1, <1>2, <1>3, <1>5, <1>6, <1>8, <1>10, <1>11, <1>12, <1>14
<1> QED
  BY <1>13, <1>14

\* The rows of an uncompressed plane.
LEMMA StrideIs ==
  ASSUME Given, type.type = "UNCOMPRESSED", NEW p \in 1..info.npln, PlaneIs(1), PlaneIs(p)
  PROVE  LET s == plane_info[p].stride
         IN /\ s \in Nat
            /\ s * 8 >= Samples(p)[1] * info.bpp[p]
            /\ p = 1 => s * 8 >= req.width * info.bpp[p]
            /\ HwUsage => s % 16 = 0
            /\ HwUsage /\ info.tile_size = 1 => s % hw_align = 0
            /\ Cpu => s % CpuBytes(p) = 0
            /\ ~HwUsage => s * 8 = plane_info[p].w * info.bpp[p]
<1> DEFINE s == plane_info[p].stride
           w == plane_info[p].w
           b == info.bpp[p]
           n == Samples(p)[1]
<1>1. w = get_pixel_w_h(p)[1] /\ s = byte_stride(p, w)
  BY DEF PlaneIs
<1>2. /\ w \in Nat /\ n \in Nat /\ w >= n /\ b \in Nat
      /\ p = 1 => n = req.width /\ req.width \in Nat
  <2>1. p = 1 => n = req.width /\ req.width \in Nat
    BY DivUpOne DEF Samples, Given
  <2> QED
    BY <1>1, <2>1, PixelsCover, RowsAreBytes
<1>3. n * b <= w * b
  BY <1>2, TimesGrows
<1>4. CASE ~IsSharedYv12
  <2>1. s = Aligned(p, w)
    BY <1>1, <1>4, UncompressedStride
  <2>2. /\ s \in Nat /\ s * 8 >= w * b
        /\ HwUsage => s % 16 = 0
        /\ HwUsage /\ info.tile_size = 1 => s % hw_align = 0
        /\ Cpu => s % CpuBytes(p) = 0
        /\ ~HwUsage => s = (w * b) \div 8
    BY <1>1, <2>1, AlignedIs
  <2>3. ~HwUsage => s * 8 = w * b
    <3>1. (w * b) % 8 = 0
      BY <1>1, RowsAreBytes
    <3>2. PICK v : v = w * b
      OBVIOUS
    <3>3. v \in Nat
      BY <1>2, <3>2
    <3> QED
      BY <2>2, <3>1, <3>2, <3>3
  <2>4. s * 8 >= n * b
    <3>1. PICK u, v : u = n * b /\ v = w * b
      OBVIOUS
    <3>2. u \in Nat /\ v \in Nat
      BY <1>2, <3>1
    <3> QED
      BY <1>3, <2>2, <3>1, <3>2
  <2> HIDE DEF s, w, n, b
  <2> QED
    BY <1>2, <2>2, <2>3, <2>4 DEF s, w, n, b
<1>5. CASE IsSharedYv12
  <2>1. /\ s \in Nat /\ hw_align = 32 /\ CpuBytes(p) = 16 /\ info.npln = 3
        /\ s = IF p = 1 THEN plane_info[1].stride ELSE plane_info[1].stride \div 2
        /\ plane_info[1].stride \in Nat /\ plane_info[1].stride % 64 = 0 /\ s % 32 = 0 /\ s % 16 = 0
        /\ plane_info[1].stride >= req.width
        /\ HwUsage
    BY <1>5, SharedStride, PixelsCover DEF IsSharedYv12, Given, PlaneIs
  <2>2. b = 8 /\ info.sub = <<2, 2>> /\ is_yuv(info)
    BY <1>5, <2>1, RowIs DEF Given, IsSharedYv12
  <2>3. s >= n
    <3>1. CASE p = 1
      BY <1>2, <2>1, <3>1
    <3>2. CASE p # 1
      <4>1. n = DivUp(req.width, 2) /\ req.width \in Nat
        BY <2>2, <3>2 DEF Samples, Given
      <4>2. s * 2 >= req.width
        BY <2>1, <3>2, <4>1
      <4> QED
        BY <2>1, <4>1, <4>2, SamplesFit
    <3> QED
      BY <3>1, <3>2
  <2> HIDE DEF s, w, n, b
  <2> QED
    BY <1>2, <2>1, <2>2, <2>3 DEF s, w, n, b
<1> QED
  BY <1>4, <1>5

\* The layout of a buffer whose planes are all calculated.
Derived ==
  /\ Given /\ plane_info \in Seq([offset : Nat, w : Nat, h : Nat, stride : Nat])
  /\ DOMAIN plane_info = 1..info.npln /\ AllPlanes
  /\ size = IF req.layers > 1 THEN GRALLOC_ALIGN(End(info.npln), LayerAlign) * req.layers
            ELSE End(info.npln)
  /\ pixel_stride = IF info.bpp[1] = 0 THEN 0 ELSE (plane_info[1].stride * 8) \div info.bpp[1]

\* An element of a sequence.
LEMMA ElementTyped ==
  ASSUME NEW S, NEW q \in Seq(S), NEW p \in DOMAIN q
  PROVE  q[p] \in S
OBVIOUS

\* There is a first plane.
LEMMA FirstPlane == Given => 1 \in 1..info.npln
BY RowIs DEF Given

\* A luma row is a number of pixels, where pixels are bytes or rows are not rounded.
LEMMA RowIsPixels ==
  ASSUME Given, type.type = "UNCOMPRESSED", PlaneIs(1), WholePixels
  PROVE  (plane_info[1].stride * 8) % info.bpp[1] = 0
<1> DEFINE s == plane_info[1].stride
           b == info.bpp[1]
<1>1. /\ s \in Nat /\ (HwUsage => s % 16 = 0)
      /\ ~HwUsage => s * 8 = plane_info[1].w * b
  BY FirstPlane, StrideIs
<1>2. b \in Nat \ {0} /\ plane_info[1].w \in Nat
  BY FirstPlane, RowsAreBytes DEF PlaneIs
<1>3. CASE HwUsage
  <2>1. b \in {8, 16, 32, 64}
    BY <1>3 DEF WholePixels
  <2> HIDE DEF s, b
  <2> QED
    BY <1>1, <1>3, <2>1 DEF s, b
<1>4. CASE ~HwUsage
  BY <1>1, <1>2, <1>4, MultipleMod
<1> QED
  BY <1>3, <1>4

\* RowsFit, of a derived layout.
LEMMA RowsFitDerived ==
  ASSUME Derived, type.type = "UNCOMPRESSED"
  PROVE  /\ \A p \in DOMAIN plane_info :
              /\ plane_info[p].stride * 8 >= Samples(p)[1] * info.bpp[p]
              /\ plane_info[p].h >= Samples(p)[2]
              /\ HwUsage /\ info.tile_size = 1 => plane_info[p].stride % hw_align = 0
              /\ Cpu => plane_info[p].stride % ((info.bpp[p] * info.align_w_cpu) \div 8) = 0
         /\ pixel_stride >= req.width
         /\ WholePixels => pixel_stride * info.bpp[1] = plane_info[1].stride * 8
<1>1. Given /\ PlaneIs(1) /\ \A p \in DOMAIN plane_info : p \in 1..info.npln /\ PlaneIs(p)
  BY FirstPlane DEF Derived, AllPlanes
<1>2. ASSUME NEW p \in DOMAIN plane_info
      PROVE  /\ plane_info[p].stride * 8 >= Samples(p)[1] * info.bpp[p]
             /\ plane_info[p].h >= Samples(p)[2]
             /\ HwUsage /\ info.tile_size = 1 => plane_info[p].stride % hw_align = 0
             /\ Cpu => plane_info[p].stride % ((info.bpp[p] * info.align_w_cpu) \div 8) = 0
  <2>1. /\ plane_info[p].stride * 8 >= Samples(p)[1] * info.bpp[p]
        /\ HwUsage /\ info.tile_size = 1 => plane_info[p].stride % hw_align = 0
        /\ Cpu => plane_info[p].stride % CpuBytes(p) = 0
    BY <1>1, StrideIs
  <2>2. plane_info[p].h >= Samples(p)[2]
    BY <1>1, PixelsCover DEF PlaneIs
  <2> QED
    BY <2>1, <2>2, Zenon DEF CpuBytes
<1> DEFINE s == plane_info[1].stride
           b == info.bpp[1]
<1>3. b \in Nat \ {0} /\ req.width \in Nat
  BY <1>1, FirstPlane, RowsAreBytes DEF Given
<1>4. s \in Nat /\ s * 8 >= req.width * b
  BY <1>1, FirstPlane, StrideIs
<1>5. pixel_stride = (s * 8) \div b
  BY <1>3 DEF Derived
<1>6. WholePixels => (s * 8) % b = 0
  BY <1>1, RowIsPixels
<1> HIDE DEF s, b
<1>7. s * 8 \in Nat
  BY <1>4
<1>8. pixel_stride >= req.width
  <2>1. PICK x : x = s * 8
    OBVIOUS
  <2>2. x \in Nat /\ req.width * b <= x
    BY <1>3, <1>4, <1>7, <2>1
  <2>3. req.width <= x \div b
    BY <1>3, <2>2, DivBounds
  <2>4. x \div b \in Nat
    BY <1>3, <2>2, DivModIs
  <2> QED
    BY <1>3, <1>5, <2>1, <2>3, <2>4
<1>9. WholePixels => pixel_stride * b = s * 8
  BY <1>3, <1>5, <1>6, <1>7, ModIsMultiple
<1> QED
  BY <1>2, <1>8, <1>9 DEF s, b

\* Rounding halves up to 16 is the same before and after rounding up to 16.
LEMMA HalfRounds ==
  ASSUME NEW x \in Nat, x % 2 = 0
  PROVE  GRALLOC_ALIGN(x \div 2, 16) = GRALLOC_ALIGN(GRALLOC_ALIGN(x, 16) \div 2, 16)
BY DEF GRALLOC_ALIGN

\* The layout Android fixes for YV12.
LEMMA Yv12Derived ==
  ASSUME Derived, info.id = "YV12", type.type = "UNCOMPRESSED", Cpu
  PROVE  LET luma == plane_info[1]
             c_stride == GRALLOC_ALIGN(luma.stride \div 2, 16)
         IN /\ luma.stride % 16 = 0
            /\ \A p \in {2, 3} : plane_info[p].stride = c_stride
            /\ plane_info[2].offset = luma.stride * luma.h
            /\ plane_info[3].offset = plane_info[2].offset + c_stride * plane_info[2].h
<1> DEFINE s == plane_info[1].stride
           c == GRALLOC_ALIGN(s \div 2, 16)
<1>1. /\ Given /\ info \in Rows /\ is_yuv(info) /\ info.npln = 3 /\ info.bpp = <<8, 8, 8>>
      /\ info.align_w_cpu = 16 /\ info.sub = <<2, 2>> /\ info.tile_size = 1
  <2>1. Given /\ info \in Rows
    BY DEF Derived, Given
  <2>2. /\ is_yuv(info) /\ info.npln = 3 /\ info.bpp = <<8, 8, 8>>
        /\ info.align_w_cpu = 16 /\ info.sub = <<2, 2>>
    BY <2>1, RowIs
  <2> QED
    BY <2>1, <2>2, RowIs
<1>2. /\ \A p \in 1..3 : PlaneIs(p) /\ info.bpp[p] = 8
      /\ 1 \in 1..info.npln /\ 2 \in 1..info.npln /\ 3 \in 1..info.npln
  BY <1>1 DEF Derived, AllPlanes
<1>3. s \in Nat /\ s % 16 = 0 /\ \A p \in {2, 3} : plane_info[p].stride = c
  <2>1. CASE HwUsage
    <3>1. IsSharedYv12
      BY <2>1 DEF IsSharedYv12
    <3>2. /\ s \in Nat /\ s % 64 = 0
          /\ \A p \in {2, 3} : plane_info[p].stride = s \div 2
      BY <1>1, <1>2, <3>1, SharedStride
    <3>3. s % 16 = 0 /\ s \div 2 \in Nat /\ (s \div 2) % 16 = 0
      BY <3>2
    <3>4. c = s \div 2
      BY <3>3, AlignIs
    <3> QED
      BY <3>2, <3>3, <3>4
  <2>2. CASE ~HwUsage
    <3> DEFINE x == GRALLOC_ALIGN(dims[1], info.align[1])
    <3>1. ~IsSharedYv12
      BY <2>2 DEF IsSharedYv12
    <3>2. ASSUME NEW p \in 1..3
          PROVE  plane_info[p].stride = get_pixel_w_h(p)[1] /\ get_pixel_w_h(p)[1] \in Nat
      <4> DEFINE w == get_pixel_w_h(p)[1]
      <4>1. plane_info[p].stride = Aligned(p, w)
        BY <1>2, <3>1, UncompressedStride DEF PlaneIs
      <4>2. w \in Nat
        BY <1>1, PixelsCover
      <4>3. Aligned(p, w) = (w * 8) \div 8
        BY <1>1, <1>2, <2>2, AlignedIs
      <4> HIDE DEF w
      <4>4. (w * 8) \div 8 = w
        BY <4>2
      <4> QED
        BY <4>1, <4>2, <4>3, <4>4 DEF w
    <3>3. \A p \in 1..3 : Rounding(p, 1) = 16
      BY <1>1, RoundingIs, PixelAlignIs DEF Given
    <3>4. /\ get_pixel_w_h(1)[1] = GRALLOC_ALIGN(x, 16)
          /\ \A p \in {2, 3} : get_pixel_w_h(p)[1] = GRALLOC_ALIGN(x \div 2, 16)
      BY <1>1, <3>3 DEF get_pixel_w_h, Rounding
    <3>5. x \in Nat /\ x % 2 = 0
      <4>1. dims[1] \in Nat /\ info.align[1] \in Nat \ {0} /\ info.align[1] % 2 = 0
        BY <1>1, RowIs DEF Given
      <4>2. x \in Nat /\ x % info.align[1] = 0
        BY <4>1, AlignIs
      <4> HIDE DEF x
      <4> QED
        BY <4>1, <4>2, MultiplesClosed
    <3> HIDE DEF x
    <3>6. s = GRALLOC_ALIGN(x, 16) /\ s \in Nat /\ s % 16 = 0
      <4>1. s = GRALLOC_ALIGN(x, 16)
        BY <3>2, <3>4
      <4>2. 16 \in Nat \ {0}
        OBVIOUS
      <4>3. GRALLOC_ALIGN(x, 16) \in Nat /\ GRALLOC_ALIGN(x, 16) % 16 = 0
        BY <3>5, <4>2, AlignIs, Zenon
      <4> QED
        BY <4>1, <4>3, Zenon
    <3>7. c = GRALLOC_ALIGN(x \div 2, 16)
      BY <3>5, <3>6, HalfRounds
    <3> QED
      BY <3>2, <3>4, <3>6, <3>7
  <2> QED
    BY <2>1, <2>2
<1>4. \A p \in 1..3 : Body(p) = plane_info[p].stride * plane_info[p].h /\ Header(p) = 0
  BY DEF Body, Header, body_size, Afbc, AfbcTypes
<1>5. /\ plane_info[1].offset = 0 /\ plane_info[2].offset = End(1)
      /\ plane_info[3].offset = End(2)
  BY <1>2 DEF PlaneIs, Start, End
<1>6. /\ \A p \in 1..3 : plane_info[p].stride * plane_info[p].h \in Nat
      /\ plane_info[2].offset \in Nat
  <2>1. /\ plane_info \in Seq([offset : Nat, w : Nat, h : Nat, stride : Nat])
        /\ DOMAIN plane_info = 1..3
    BY <1>1 DEF Derived
  <2>2. \A p \in 1..3 : plane_info[p] \in [offset : Nat, w : Nat, h : Nat, stride : Nat]
    BY <2>1, ElementTyped
  <2>3. /\ plane_info[2].offset \in Nat
        /\ \A p \in 1..3 : plane_info[p].stride \in Nat /\ plane_info[p].h \in Nat
    BY <2>2
  <2> QED
    BY <2>3
<1>7. /\ plane_info[2].offset = plane_info[1].stride * plane_info[1].h
      /\ plane_info[3].offset = plane_info[2].offset + plane_info[2].stride * plane_info[2].h
  BY <1>4, <1>5, <1>6 DEF End
<1> QED
  BY <1>3, <1>7

-----------------------------------------------------------------------------
(***************************************************************************)
(* The asserts of calc_allocation_size                                     *)
(***************************************************************************)
\* What each assert that does not hold says.
LEMMA BrokenIs ==
  ASSUME NEW p, NEW w, NEW s
  PROVE  LET block == Block(p)
             br == BrokenAsserts(p, w, s)
         IN /\ br \subseteq {"bytes", "cpu_align", "blocks", "yv12", "zero_bpp", "pixel_stride"}
            /\ "bytes" \in br =>
                 /\ Afbc => (w * info.bpp_afbc[p]) % 8 # 0
                 /\ ~Afbc /\ type.type = "AFRC" =>
                      paging_tile_byte_stride(p, w) % (type.tile[2] * type.clump[p][2]) # 0
                 /\ ~Afbc /\ type.type # "AFRC" => (w * info.bpp[p]) % 8 # 0
            /\ "cpu_align" \in br =>
                 type.type = "UNCOMPRESSED" /\ Cpu /\ (info.bpp[p] * info.align_w_cpu) % 8 # 0
            /\ "blocks" \in br =>
                 /\ type.type = "BLOCK_LINEAR"
                 /\ ((block[1] * block[2] * info.bpp[p]) \div 8) % block[2] # 0
            /\ "yv12" \in br =>
                 /\ type.type = "UNCOMPRESSED" /\ IsSharedYv12 /\ p > 1
                 /\ ~(s % stride_align(p) = 0 /\ s % 16 = 0)
            /\ "zero_bpp" \in br => p = 1 /\ info.bpp[p] = 0
            /\ "pixel_stride" \in br => p = 1 /\ info.bpp[p] # 0 /\ (s * 8) % info.bpp[p] # 0
<1> DEFINE block == Block(p)
           bytes == CASE Afbc -> (w * info.bpp_afbc[p]) % 8 = 0
                      [] type.type = "AFRC" ->
                           paging_tile_byte_stride(p, w)
                             % (type.tile[2] * type.clump[p][2]) = 0
                      [] OTHER -> (w * info.bpp[p]) % 8 = 0
           cpu_align == type.type = "UNCOMPRESSED" /\ Cpu =>
                          (info.bpp[p] * info.align_w_cpu) % 8 = 0
           blocks == type.type = "BLOCK_LINEAR" =>
                       ((block[1] * block[2] * info.bpp[p]) \div 8) % block[2] = 0
           yv12 == type.type = "UNCOMPRESSED" /\ IsSharedYv12 /\ p > 1 =>
                     s % stride_align(p) = 0 /\ s % 16 = 0
           zero_bpp == p = 1 => info.bpp[p] # 0
           pixel == p = 1 /\ info.bpp[p] # 0 => (s * 8) % info.bpp[p] = 0
           holds == [bytes |-> bytes, cpu_align |-> cpu_align, blocks |-> blocks, yv12 |-> yv12,
                     zero_bpp |-> zero_bpp, pixel_stride |-> pixel]
           br == BrokenAsserts(p, w, s)
<1>1. br = {a \in DOMAIN holds : ~holds[a]}
  BY Zenon DEF BrokenAsserts
<1>2. /\ br \subseteq {"bytes", "cpu_align", "blocks", "yv12", "zero_bpp", "pixel_stride"}
      /\ ("bytes" \in br => ~bytes) /\ ("cpu_align" \in br => ~cpu_align)
      /\ ("blocks" \in br => ~blocks) /\ ("yv12" \in br => ~yv12)
      /\ ("zero_bpp" \in br => ~zero_bpp) /\ ("pixel_stride" \in br => ~pixel)
  <2> HIDE DEF bytes, cpu_align, blocks, yv12, zero_bpp, pixel, br
  <2> QED
    BY <1>1, Zenon
<1>3. ~bytes => /\ Afbc => (w * info.bpp_afbc[p]) % 8 # 0
                /\ ~Afbc /\ type.type = "AFRC" =>
                     paging_tile_byte_stride(p, w) % (type.tile[2] * type.clump[p][2]) # 0
                /\ ~Afbc /\ type.type # "AFRC" => (w * info.bpp[p]) % 8 # 0
  <2>1. Afbc => type.type # "AFRC"
    BY DEF Afbc, AfbcTypes
  <2> QED
    BY <2>1
<1> HIDE DEF bytes, br
<1> QED
  BY <1>2, <1>3 DEF br

\* The block of a block linear plane is 16 or 8 by 16 or 8.
LEMMA BlockIs ==
  ASSUME Given, type.type = "BLOCK_LINEAR", NEW p \in 1..info.npln
  PROVE  /\ info.tile_size = 1
         /\ Block(p) = <<16 \div Sub(p, 1), 16 \div Sub(p, 2)>>
         /\ Sub(p, 1) \in {1, 2} /\ Sub(p, 2) \in {1, 2}
         /\ info.bpp[p] \in Nat
<1>1. info \in Rows /\ "block_linear" \in info.flags
  BY DEF Given, TypeIs
<1>2. is_yuv(info) /\ info.sub[1] \in {1, 2} /\ info.sub[2] \in {1, 2} /\ info.tile_size = 1
      /\ info.bpp[p] \in Nat
  BY <1>1, RowIs
<1>3. 16 \div 1 = 16
  OBVIOUS
<1> QED
  BY <1>2, <1>3 DEF Block, Sub

\* Planes of blocks, which the CPU does not touch, are whole blocks wide and high.
LEMMA WidthIs ==
  ASSUME Given, ~Cpu, type.type # "UNCOMPRESSED", NEW p \in 1..info.npln, PlaneIs(p)
  PROVE  /\ info.tile_size = 1 /\ plane_info[p].w \in Nat /\ plane_info[p].h \in Nat
         /\ PixelAlign(p)[1] \in Nat \ {0} /\ PixelAlign(p)[2] \in Nat \ {0}
         /\ plane_info[p].w % PixelAlign(p)[1] = 0 /\ plane_info[p].h % PixelAlign(p)[2] = 0
<1>1. info \in Rows /\ TypeIs
  BY DEF Given
<1>2. info.tile_size = 1
  BY <1>1, RowIs DEF TypeIs
<1> QED
  BY <1>1, <1>2, PixelsCover, RoundingIs, PixelAlignIs DEF PlaneIs

\* Superblocks have 256 pixels.
LEMMA SuperblockIs ==
  \A p : get_afbc_sb_size(p) \in {<<64, 4>>, <<32, 8>>, <<16, 16>>}
<1> SUFFICES ASSUME NEW p PROVE get_afbc_sb_size(p) \in {<<64, 4>>, <<32, 8>>, <<16, 16>>}
  OBVIOUS
<1> DEFINE chroma == p > 1 /\ type.multi /\ is_yuv(info)
           sb == get_afbc_sb_size(p)
<1>1. sb = CASE chroma \/ type.type = "AFBC_EXTRAWIDEBLK" -> <<64, 4>>
             [] type.type = "AFBC_WIDEBLK" /\ ~chroma -> <<32, 8>>
             [] OTHER -> <<16, 16>>
  BY Zenon DEF get_afbc_sb_size
<1> HIDE DEF chroma, sb
<1>2. sb \in {<<64, 4>>, <<32, 8>>, <<16, 16>>}
  BY <1>1
<1> QED
  BY <1>2 DEF sb

\* calc_allocation_size: the asserts that hold for a plane.
LEMMA PlaneAsserts ==
  ASSUME Given, NEW p \in 1..info.npln, PlaneIs(1), PlaneIs(p),
         NEW br, br = BrokenAsserts(p, plane_info[p].w, plane_info[p].stride)
  PROVE  /\ "pixel_stride" \in br => type.type # "UNCOMPRESSED" \/ ~WholePixels
         /\ "zero_bpp" \in br => info.bpp[1] = 0 /\ type.type # "UNCOMPRESSED"
         /\ br \subseteq {"pixel_stride", "zero_bpp"} \/ CpuOnBlocks
<1> DEFINE w == plane_info[p].w
           s == plane_info[p].stride
           bpp == info.bpp[p]
<1>1. info \in Rows /\ TypeIs /\ w = get_pixel_w_h(p)[1] /\ w \in Nat
  BY PixelsCover DEF Given, PlaneIs
<1>2. /\ bpp \in Nat /\ info.bpp_afbc[p] \in Nat
  BY <1>1, RowIs
<1>3. type.type = "UNCOMPRESSED" => bpp > 0 /\ (bpp * info.align_w_cpu) % 8 = 0 /\ (w * bpp) % 8 = 0
  BY <1>1, RowIs, RowsAreBytes DEF TypeIs
<1>4. "pixel_stride" \in br => type.type # "UNCOMPRESSED" \/ ~WholePixels
  BY RowIsPixels, BrokenIs
<1>5. "zero_bpp" \in br => info.bpp[1] = 0 /\ type.type # "UNCOMPRESSED"
  BY <1>2, <1>3, BrokenIs
<1>6. ~CpuOnBlocks => "bytes" \notin br
  <2> SUFFICES ASSUME ~CpuOnBlocks, "bytes" \in br PROVE FALSE
    OBVIOUS
  <2>1. /\ Afbc => (w * info.bpp_afbc[p]) % 8 # 0
        /\ ~Afbc /\ type.type = "AFRC" =>
             paging_tile_byte_stride(p, w) % (type.tile[2] * type.clump[p][2]) # 0
        /\ ~Afbc /\ type.type # "AFRC" => (w * info.bpp[p]) % 8 # 0
    BY BrokenIs
  <2>2. type.type # "UNCOMPRESSED" => ~Cpu
    BY DEF CpuOnBlocks
  <2>3. CASE Afbc
    <3>1. type.type # "UNCOMPRESSED"
      BY <2>3 DEF Afbc, AfbcTypes
    <3>2. PixelAlign(p)[1] \in Nat \ {0} /\ w % PixelAlign(p)[1] = 0
      BY <2>2, <3>1, WidthIs
    <3>3. PixelAlign(p)[1] % get_afbc_sb_size(p)[1] = 0
      BY <1>1, <2>2, <2>3, <3>1, PixelAlignIs
    <3>4. get_afbc_sb_size(p)[1] \in {64, 32, 16}
      BY SuperblockIs
    <3>5. w % get_afbc_sb_size(p)[1] = 0
      <4>1. get_afbc_sb_size(p)[1] \in Nat \ {0}
        BY <3>4
      <4> QED
        BY <1>1, <3>2, <3>3, <4>1, MultiplesClosed, Zenon
    <3>6. w % 8 = 0
      BY <1>1, <3>4, <3>5
    <3> QED
      BY <1>1, <1>2, <2>1, <2>3, <3>6, MultiplesClosed
  <2>4. CASE ~Afbc /\ type.type = "AFRC"
    <3> DEFINE k == w \div (type.clump[p][1] * type.tile[1])
               cu == CodingUnit(p)
               t == type.tile[2] * type.clump[p][2]
    <3>1. /\ type.tile \in {<<8, 8>>, <<16, 4>>} /\ type.clump[p] \in {type.tile, <<8, 4>>, <<4, 4>>}
          /\ cu \in {16, 24, 32}
      BY <1>1, <2>4 DEF TypeIs, CodingUnit
    <3>2. type.clump[p][1] * type.tile[1] \in Nat \ {0} /\ t \in {16, 32, 64}
      BY <3>1
    <3>3. k \in Nat
      BY <1>1, <3>2, DivModIs
    <3> HIDE DEF k, cu, t
    <3>4. (k * 64 * cu) % t = 0
      <4>1. k * 64 * cu = (k * cu) * 64 /\ k * cu \in Nat
        BY <3>1, <3>3
      <4>2. PICK v : v = k * cu
        OBVIOUS
      <4>3. v \in Nat /\ k * 64 * cu = v * 64
        BY <4>1, <4>2
      <4>4. (v * 64) % t = 0
        BY <3>2, <4>3
      <4> QED
        BY <4>3, <4>4
    <3> QED
      BY <2>1, <2>4, <3>4 DEF paging_tile_byte_stride, k, cu, t
  <2>5. CASE type.type = "BLOCK_LINEAR"
    <3>1. w % 16 = 0
      BY <1>1, <2>2, <2>5, WidthIs, PixelAlignIs
    <3>2. w % 8 = 0
      BY <1>1, <3>1
    <3>3. (w * bpp) % 8 = 0
      BY <1>1, <1>2, <3>2, MultiplesClosed
    <3> QED
      BY <2>1, <2>5, <3>3 DEF Afbc, AfbcTypes
  <2>6. CASE type.type = "UNCOMPRESSED"
    BY <1>3, <2>1, <2>6 DEF Afbc, AfbcTypes
  <2> QED
    BY <1>1, <2>3, <2>4, <2>5, <2>6 DEF TypeIs
<1>7. "cpu_align" \notin br
  BY <1>3, BrokenIs
<1>8. "blocks" \notin br
  <2> SUFFICES ASSUME type.type = "BLOCK_LINEAR"
               PROVE  ((Block(p)[1] * Block(p)[2] * bpp) \div 8) % Block(p)[2] = 0
    BY BrokenIs
  <2>1. /\ Block(p)[1] \in {8, 16} /\ Block(p)[2] \in {8, 16}
    BY BlockIs
  <2> HIDE DEF bpp
  <2>2. PICK x \in {8, 16}, y \in {8, 16} : x = Block(p)[1] /\ y = Block(p)[2]
    BY <2>1
  <2>3. ((x * y * bpp) \div 8) % y = 0
    BY <1>2, <2>2
  <2> QED
    BY <2>2, <2>3
<1>9. "yv12" \notin br
  BY SharedStride, BrokenIs
<1>10. br \subseteq {"bytes", "cpu_align", "blocks", "yv12", "zero_bpp", "pixel_stride"}
  BY BrokenIs
<1> QED
  BY <1>4, <1>5, <1>6, <1>7, <1>8, <1>9, <1>10

-----------------------------------------------------------------------------
(***************************************************************************)
(* Each plane holds its samples                                            *)
(***************************************************************************)
\* A plane is typed, whatever its layout.
LEMMA PlaneTyped ==
  ASSUME Derived, NEW p \in 1..info.npln
  PROVE  /\ plane_info[p].offset \in Nat /\ plane_info[p].w \in Nat
         /\ plane_info[p].h \in Nat /\ plane_info[p].stride \in Nat
         /\ Given /\ PlaneIs(1) /\ PlaneIs(p) /\ Samples(p)[1] \in Nat /\ Samples(p)[2] \in Nat
         /\ plane_info[p].w >= Samples(p)[1] /\ plane_info[p].h >= Samples(p)[2]
         /\ info.bpp[p] \in Nat /\ info.bpp_afbc[p] \in Nat
<1>1. plane_info[p] \in [offset : Nat, w : Nat, h : Nat, stride : Nat]
  <2>1. /\ plane_info \in Seq([offset : Nat, w : Nat, h : Nat, stride : Nat])
        /\ p \in DOMAIN plane_info
    BY DEF Derived
  <2> QED
    BY <2>1, ElementTyped
<1>2. Given /\ PlaneIs(1) /\ PlaneIs(p)
  BY FirstPlane DEF Derived, AllPlanes
<1>3. info.bpp[p] \in Nat /\ info.bpp_afbc[p] \in Nat
  BY <1>2, RowIs DEF Given
<1> QED
  BY <1>1, <1>2, <1>3, PixelsCover DEF PlaneIs

\* A larger area holds more samples.
LEMMA ProductGrows ==
  ASSUME NEW a \in Nat, NEW b \in Nat, NEW c \in Nat, NEW d \in Nat, a <= c, b <= d
  PROVE  a * b <= c * d /\ a * b \in Nat /\ c * d \in Nat
<1>1. a * b <= c * b /\ c * b <= c * d
  BY TimesGrows
<1>2. a * b \in Nat /\ c * b \in Nat /\ c * d \in Nat
  OBVIOUS
<1> QED
  BY <1>1, <1>2

\* The rows of an uncompressed plane hold its samples.
LEMMA UncompressedHolds ==
  ASSUME Derived, type.type = "UNCOMPRESSED", NEW p \in 1..info.npln
  PROVE  Body(p) + Header(p) \in Nat /\ Holds(p) <= Body(p) + Header(p) /\ Holds(p) \in Nat
<1> DEFINE x == Samples(p)[1]
           y == Samples(p)[2]
           b == info.bpp[p]
           s == plane_info[p].stride
           h == plane_info[p].h
<1>1. x \in Nat /\ y \in Nat /\ b \in Nat /\ s \in Nat /\ h \in Nat /\ y <= h
  BY PlaneTyped
<1>2. x * b <= s * 8
  BY PlaneTyped, StrideIs
<1>3. Body(p) = s * h /\ Header(p) = 0 /\ Holds(p) = DivUp(x * y * b, 8)
  BY DEF Body, Header, Holds, body_size, Afbc, AfbcTypes
<1> HIDE DEF x, y, b, s, h
<1>4. x * b \in Nat /\ s * 8 \in Nat /\ s * h \in Nat /\ x * y * b \in Nat
  BY <1>1
<1>5. (x * b) * y <= (s * 8) * h
  BY <1>1, <1>2, <1>4, ProductGrows
<1>6. (x * b) * y = x * y * b /\ (s * 8) * h = (s * h) * 8
  BY <1>1
<1>7. x * y * b <= (s * h) * 8
  BY <1>5, <1>6
<1>8. DivUp(x * y * b, 8) \in Nat /\ DivUp(x * y * b, 8) <= s * h
  BY <1>4, <1>7, DivUpIs
<1> QED
  BY <1>3, <1>4, <1>8

\* The clumps of an AFRC plane hold its samples.
LEMMA AfrcHolds ==
  ASSUME Derived, type.type = "AFRC", ~Cpu, NEW p \in 1..info.npln
  PROVE  Body(p) + Header(p) \in Nat /\ Holds(p) <= Body(p) + Header(p) /\ Holds(p) \in Nat
<1> DEFINE x == Samples(p)[1]
           y == Samples(p)[2]
           w == plane_info[p].w
           h == plane_info[p].h
           c == type.clump[p][1]
           d == type.clump[p][2]
           u == CodingUnit(p)
<1>1. x \in Nat /\ y \in Nat /\ w \in Nat /\ h \in Nat /\ x <= w /\ y <= h
  BY PlaneTyped
<1>2. /\ type.tile \in {<<8, 8>>, <<16, 4>>} /\ type.clump[p] \in {type.tile, <<8, 4>>, <<4, 4>>}
      /\ u \in {16, 24, 32}
  BY PlaneTyped DEF Given, TypeIs, CodingUnit
<1>3. /\ type.tile[1] \in Nat \ {0} /\ type.tile[2] \in Nat \ {0}
      /\ c \in Nat \ {0} /\ d \in Nat \ {0} /\ u \in Nat
  BY <1>2
<1>4. w % (type.tile[1] * c) = 0 /\ h % (type.tile[2] * d) = 0
  <2>1. PixelAlign(p) = <<type.tile[1] * c, type.tile[2] * d>>
    BY PlaneTyped, PixelAlignIs DEF Given
  <2>2. w % PixelAlign(p)[1] = 0 /\ h % PixelAlign(p)[2] = 0
    BY PlaneTyped, WidthIs
  <2> QED
    BY <2>1, <2>2
<1>5. Holds(p) = DivUp(x, c) * DivUp(y, d) * u
  BY DEF Holds, Afbc, AfbcTypes
<1>6. Body(p) = (w \div c) * (h \div d) * u /\ Header(p) = 0
  BY DEF Body, Header, body_size, Afbc, AfbcTypes
<1>7. ASSUME NEW n \in Nat, NEW m \in Nat, NEW t \in Nat \ {0}, NEW k \in Nat \ {0},
             m <= n, n % (t * k) = 0
      PROVE  n \div k \in Nat /\ DivUp(m, k) \in Nat /\ DivUp(m, k) <= n \div k
  <2>1. PICK tk : tk = t * k
    OBVIOUS
  <2>2. tk \in Nat \ {0} /\ tk % k = 0
    BY <2>1, MultipleMod
  <2>3. n % k = 0
    BY <1>7, <2>1, <2>2, MultiplesClosed
  <2>4. n = (n \div k) * k /\ n \div k \in Nat
    BY <2>3, ModIsMultiple
  <2>5. m <= (n \div k) * k
    BY <1>7, <2>4
  <2> QED
    BY <2>4, <2>5, DivUpIs
<1> HIDE DEF x, y, w, h, c, d, u
<1>8. /\ w \div c \in Nat /\ DivUp(x, c) \in Nat /\ DivUp(x, c) <= w \div c
      /\ h \div d \in Nat /\ DivUp(y, d) \in Nat /\ DivUp(y, d) <= h \div d
  BY <1>1, <1>3, <1>4, <1>7
<1>9. /\ DivUp(x, c) * DivUp(y, d) <= (w \div c) * (h \div d)
      /\ DivUp(x, c) * DivUp(y, d) \in Nat /\ (w \div c) * (h \div d) \in Nat
  BY <1>8, ProductGrows
<1>10. /\ DivUp(x, c) * DivUp(y, d) * u <= (w \div c) * (h \div d) * u
       /\ DivUp(x, c) * DivUp(y, d) * u \in Nat /\ (w \div c) * (h \div d) * u \in Nat
  BY <1>3, <1>9, ProductGrows
<1> QED
  BY <1>5, <1>6, <1>10

\* The blocks of a block linear plane hold its samples.
LEMMA BlockLinearHolds ==
  ASSUME Derived, type.type = "BLOCK_LINEAR", ~Cpu, NEW p \in 1..info.npln
  PROVE  Body(p) + Header(p) \in Nat /\ Holds(p) <= Body(p) + Header(p) /\ Holds(p) \in Nat
<1> DEFINE x == Samples(p)[1]
           y == Samples(p)[2]
           b == info.bpp[p]
           W == plane_info[1].w \div 16
           H == plane_info[1].h \div 16
           i == Block(p)[1]
           j == Block(p)[2]
           s == plane_info[p].stride
<1>1. x \in Nat /\ y \in Nat /\ b \in Nat /\ Given
  BY PlaneTyped
<1>2. /\ W \in Nat /\ plane_info[1].w = W * 16 /\ plane_info[1].w >= req.width
      /\ H \in Nat /\ plane_info[1].h = H * 16 /\ plane_info[1].h >= req.height
      /\ req.width \in Nat /\ req.height \in Nat
  <2>1. /\ plane_info[1].w \in Nat /\ plane_info[1].h \in Nat
        /\ plane_info[1].w % PixelAlign(1)[1] = 0 /\ plane_info[1].h % PixelAlign(1)[2] = 0
    BY <1>1, FirstPlane, PlaneTyped, WidthIs
  <2>2. PixelAlign(1) = <<16, 16>>
    BY <1>1, FirstPlane, PixelAlignIs DEF Given
  <2>3. plane_info[1].w >= Samples(1)[1] /\ plane_info[1].h >= Samples(1)[2]
    BY <1>1, FirstPlane, PlaneTyped
  <2>4. /\ req.width \in Nat /\ req.height \in Nat
        /\ Samples(1)[1] = req.width /\ Samples(1)[2] = req.height
    BY <1>1, DivUpOne DEF Samples, Given
  <2> QED
    BY <2>1, <2>2, <2>3, <2>4
<1>3. /\ Sub(p, 1) \in {1, 2} /\ Sub(p, 2) \in {1, 2}
      /\ i = 16 \div Sub(p, 1) /\ j = 16 \div Sub(p, 2)
  BY <1>1, BlockIs
<1>4. /\ i * Sub(p, 1) = 16 /\ j * Sub(p, 2) = 16 /\ i \in {8, 16} /\ j \in {8, 16}
  BY <1>3
<1>5. x = DivUp(req.width, Sub(p, 1)) /\ y = DivUp(req.height, Sub(p, 2))
  BY DEF Samples, Sub
<1>6. s = (W * ((i * j * b) \div 8)) \div j
  <2>1. plane_info[p].w = IF p = 1 THEN plane_info[p].w ELSE plane_info[p].w
    OBVIOUS
  <2>2. s = byte_stride(p, plane_info[p].w) /\ ~Afbc
    BY PlaneTyped DEF PlaneIs, Afbc, AfbcTypes
  <2> QED
    BY <2>2 DEF byte_stride
<1>7. Body(p) = s * j * H /\ Header(p) = 0
  BY DEF Body, Header, body_size, Afbc, AfbcTypes
<1>8. Holds(p) = DivUp(x * y * b, 8)
  BY DEF Holds, Afbc, AfbcTypes
<1> HIDE DEF x, y, b, W, H, i, j, s
<1>9. x <= W * i /\ y <= H * j /\ W * i \in Nat /\ H * j \in Nat
  <2>1. (W * i) * Sub(p, 1) >= req.width /\ W * i \in Nat
    BY <1>2, <1>3, <1>4
  <2>2. (H * j) * Sub(p, 2) >= req.height /\ H * j \in Nat
    BY <1>2, <1>3, <1>4
  <2> QED
    BY <1>2, <1>3, <1>5, <2>1, <2>2, SamplesFit
<1>10. s * 8 = W * i * b /\ s \in Nat
  <2>1. PICK v : v = W * b
    OBVIOUS
  <2>2. v \in Nat
    BY <1>1, <1>2, <2>1
  <2>3. W * ((i * j * b) \div 8) = v * ((i * j) \div 8)
    <3>1. (i * j * b) \div 8 = ((i * j) \div 8) * b
      BY <1>1, <1>4
    <3>2. (i * j) \div 8 \in Nat
      BY <1>4
    <3>3. PICK k \in Nat : k = (i * j) \div 8
      BY <3>2
    <3> QED
      BY <1>1, <1>2, <2>1, <3>1, <3>3
  <2>4. s = (v * ((i * j) \div 8)) \div j
    BY <1>6, <2>3
  <2>5. s * 8 = v * i /\ s \in Nat
    BY <1>4, <2>2, <2>4
  <2>6. v * i = W * i * b
    BY <1>1, <1>2, <1>4, <2>1
  <2> QED
    BY <2>5, <2>6
<1>11. (x * y) * b <= ((W * i) * (H * j)) * b
  <2>1. x * y <= (W * i) * (H * j) /\ x * y \in Nat /\ (W * i) * (H * j) \in Nat
    BY <1>1, <1>9, ProductGrows
  <2> QED
    BY <1>1, <2>1, TimesGrows
<1>12. ((W * i) * (H * j)) * b = (s * j * H) * 8
  <2>1. ((W * i) * (H * j)) * b = (W * i * b) * (H * j)
    BY <1>1, <1>2, <1>4
  <2>2. (s * j * H) * 8 = (s * 8) * (H * j)
    BY <1>2, <1>4, <1>10
  <2> QED
    BY <1>10, <2>1, <2>2
<1>13. s * j * H \in Nat /\ x * y * b \in Nat /\ x * y * b <= (s * j * H) * 8
  <2>1. s * j * H \in Nat /\ x * y * b \in Nat
    BY <1>1, <1>2, <1>4, <1>10
  <2> QED
    BY <2>1, <1>11, <1>12
<1>14. DivUp(x * y * b, 8) \in Nat /\ DivUp(x * y * b, 8) <= s * j * H
  BY <1>13, DivUpIs
<1> QED
  BY <1>7, <1>8, <1>13, <1>14

\* afbc_buffer_align rounds up to 1024 bytes, with tiled headers to 4096.
LEMMA AfbcAlignIs ==
  ASSUME NEW n \in Nat
  PROVE  /\ afbc_buffer_align(n) \in Nat /\ afbc_buffer_align(n) >= n
         /\ afbc_buffer_align(n) % 1024 = 0
         /\ type.tiled => afbc_buffer_align(n) % 4096 = 0
<1>1. CASE type.tiled
  <2>1. afbc_buffer_align(n) = GRALLOC_ALIGN(n, 4096)
    BY <1>1 DEF afbc_buffer_align
  <2>2. 4096 \in Nat \ {0}
    OBVIOUS
  <2>3. PICK v : v = GRALLOC_ALIGN(n, 4096)
    OBVIOUS
  <2>4. v \in Nat /\ v >= n /\ v % 4096 = 0
    BY <2>2, <2>3, AlignIs
  <2>5. v % 1024 = 0
    BY <2>4
  <2> QED
    BY <2>1, <2>3, <2>4, <2>5
<1>2. CASE ~type.tiled
  <2>1. afbc_buffer_align(n) = GRALLOC_ALIGN(n, 1024)
    BY <1>2 DEF afbc_buffer_align
  <2> QED
    BY <1>2, <2>1, AlignIs
<1> QED
  BY <1>1, <1>2

\* The superblocks of an AFBC plane and their header hold its samples.
LEMMA AfbcHolds ==
  ASSUME Derived, Afbc, ~Cpu, NEW p \in 1..info.npln
  PROVE  Body(p) + Header(p) \in Nat /\ Holds(p) <= Body(p) + Header(p) /\ Holds(p) \in Nat
<1> DEFINE x == Samples(p)[1]
           y == Samples(p)[2]
           w == plane_info[p].w
           h == plane_info[p].h
           b == info.bpp_afbc[p]
           sb == get_afbc_sb_size(p)
           least == DivUp(x * y * b, 8)
           block == GRALLOC_ALIGN((b * sb[1] * sb[2]) \div 8, 128)
           n == (w * h) \div 256
           body == IF info.npln > 1 /\ p <= 2 THEN afbc_buffer_align(n * block) ELSE n * block
<1>1. /\ x \in Nat /\ y \in Nat /\ w \in Nat /\ h \in Nat /\ x <= w /\ y <= h /\ b \in Nat
      /\ Given
  BY PlaneTyped
<1>15. type.type \notin {"AFRC", "BLOCK_LINEAR", "UNCOMPRESSED"}
  BY DEF Afbc, AfbcTypes
<1>2. /\ Holds(p) = DivUp(x * y, 256) * 16 + (IF type.front_safe THEN 2 ELSE 1) * least
      /\ Header(p) = afbc_buffer_align(n * 16)
      /\ Body(p) = IF type.front_safe THEN body + afbc_buffer_align(body) ELSE body
  <2>1. Holds(p) = DivUp(x * y, 256) * 16 + (IF type.front_safe THEN 2 ELSE 1) * least
    <3> DEFINE whole == DivUp(x * y, 256) * 16 + (IF type.front_safe THEN 2 ELSE 1) * least
               clumps == DivUp(x, type.clump[p][1]) * DivUp(y, type.clump[p][2]) * CodingUnit(p)
               pixels == DivUp(x * y * info.bpp[p], 8)
    <3>1. Holds(p) = CASE Afbc -> whole [] type.type = "AFRC" -> clumps [] OTHER -> pixels
      BY Zenon DEF Holds
    <3> HIDE DEF whole, clumps, pixels
    <3>2. Holds(p) = whole
      BY <1>15, <3>1
    <3> QED
      BY <3>2 DEF whole
  <2>2. Header(p) = afbc_buffer_align(n * 16)
    BY DEF Header
  <2>3. Body(p) = IF type.front_safe THEN body + afbc_buffer_align(body) ELSE body
    <3> DEFINE whole == IF type.front_safe THEN body + afbc_buffer_align(body) ELSE body
               clumps == (w \div type.clump[p][1]) * (h \div type.clump[p][2]) * CodingUnit(p)
               luma_h == IF p = 1 THEN h ELSE plane_info[1].h
               blocks == plane_info[p].stride * Block(p)[2] * (luma_h \div 16)
               pixels == plane_info[p].stride * h
    <3>1. Body(p) = CASE Afbc -> whole [] type.type = "AFRC" -> clumps
                      [] type.type = "BLOCK_LINEAR" -> blocks
                      [] type.type = "UNCOMPRESSED" -> pixels
      BY Zenon DEF Body, body_size
    <3> HIDE DEF whole, clumps, blocks, pixels
    <3>2. Body(p) = whole
      BY <1>15, <3>1
    <3> QED
      BY <3>2 DEF whole
  <2> QED
    BY <2>1, <2>2, <2>3
<1>3. sb[1] \in {64, 32, 16} /\ sb[2] = 256 \div sb[1] /\ sb[1] * sb[2] = 256
  BY SuperblockIs
<1>4. w % sb[1] = 0 /\ h % sb[2] = 0
  <2>1. type.type # "UNCOMPRESSED"
    BY DEF Afbc, AfbcTypes
  <2>2. /\ PixelAlign(p)[1] \in Nat \ {0} /\ PixelAlign(p)[2] \in Nat \ {0}
        /\ w % PixelAlign(p)[1] = 0 /\ h % PixelAlign(p)[2] = 0
    BY <2>1, PlaneTyped, WidthIs
  <2>3. PixelAlign(p)[1] % sb[1] = 0 /\ PixelAlign(p)[2] % sb[2] = 0
    BY <1>1, PixelAlignIs DEF Given
  <2>4. sb[1] \in Nat \ {0} /\ sb[2] \in Nat \ {0}
    BY <1>3
  <2> QED
    <3>1. w \in Nat /\ h \in Nat
      BY <1>1
    <3>2. ASSUME NEW m \in Nat, NEW i \in Nat \ {0}, NEW k \in Nat \ {0}, m % i = 0, i % k = 0
          PROVE  m % k = 0
      BY <3>2, MultiplesClosed
    <3> HIDE DEF w, h, sb
    <3> QED
      BY <2>2, <2>3, <2>4, <3>1, <3>2, Zenon
<1> HIDE DEF x, y, w, h, b, sb, least, block, n, body
<1>5. n \in Nat /\ w * h = n * 256
  <2>1. sb[1] \in Nat \ {0} /\ sb[2] \in Nat \ {0}
    BY <1>3
  <2>2. PICK i \in Nat, j \in Nat : w = i * sb[1] /\ h = j * sb[2]
    BY <1>1, <1>4, <2>1, ModIsMultiple
  <2>3. w * h = (i * j) * (sb[1] * sb[2])
    BY <2>1, <2>2
  <2>4. i * j \in Nat /\ w * h = (i * j) * 256
    BY <1>3, <2>3
  <2>5. PICK m : m = i * j
    OBVIOUS
  <2>6. m \in Nat /\ w * h = m * 256
    BY <2>4, <2>5
  <2>7. n = m
    BY <2>6 DEF n
  <2> QED
    BY <2>6, <2>7
<1>6. block \in Nat /\ block >= b * 32
  <2>1. b * sb[1] * sb[2] = b * 256
    BY <1>1, <1>3
  <2>2. (b * 256) \div 8 = b * 32 /\ b * 32 \in Nat
    BY <1>1
  <2>3. block = GRALLOC_ALIGN(b * 32, 128)
    BY <2>1, <2>2 DEF block
  <2>4. 128 \in Nat \ {0}
    OBVIOUS
  <2> QED
    BY <2>2, <2>3, <2>4, AlignIs
<1>7. x * y \in Nat /\ x * y <= n * 256
  BY <1>1, <1>5, ProductGrows
<1>8. DivUp(x * y, 256) \in Nat /\ DivUp(x * y, 256) <= n
  BY <1>5, <1>7, DivUpIs
<1>9. least \in Nat /\ least <= n * block /\ n * block \in Nat
  <2>1. (x * y) * b <= (n * 256) * b /\ (x * y) * b \in Nat
    BY <1>1, <1>5, <1>7, TimesGrows
  <2>2. (n * 256) * b = (n * (b * 32)) * 8
    BY <1>1, <1>5
  <2>3. n * (b * 32) \in Nat
    BY <1>1, <1>5
  <2>4. PICK z : z = (x * y) * b
    OBVIOUS
  <2>5. z \in Nat /\ z <= (n * (b * 32)) * 8
    BY <2>1, <2>2, <2>4
  <2>6. DivUp(z, 8) \in Nat /\ DivUp(z, 8) <= n * (b * 32)
    BY <2>3, <2>5, DivUpIs
  <2>7. n * (b * 32) <= n * block /\ n * block \in Nat
    BY <1>1, <1>5, <1>6, ProductGrows
  <2>8. least = DivUp(z, 8)
    BY <2>4 DEF least
  <2>9. PICK k, l : k = n * (b * 32) /\ l = n * block
    OBVIOUS
  <2> QED
    BY <2>3, <2>6, <2>7, <2>8, <2>9
<1>10. body \in Nat /\ least <= body
  <2>1. PICK k : k = n * block
    OBVIOUS
  <2>2. k \in Nat /\ least \in Nat /\ least <= k
    BY <1>9, <2>1
  <2>3. afbc_buffer_align(k) \in Nat /\ afbc_buffer_align(k) >= k
    BY <2>2, AfbcAlignIs
  <2>4. body \in {k, afbc_buffer_align(k)}
    BY <2>1 DEF body
  <2> QED
    BY <2>2, <2>3, <2>4
<1>11. Header(p) \in Nat /\ Header(p) >= DivUp(x * y, 256) * 16
  <2>1. n * 16 \in Nat /\ n * 16 >= DivUp(x * y, 256) * 16
    BY <1>5, <1>8
  <2>2. afbc_buffer_align(n * 16) \in Nat /\ afbc_buffer_align(n * 16) >= n * 16
    BY <2>1, AfbcAlignIs
  <2> QED
    BY <1>2, <1>8, <2>1, <2>2
<1>12. afbc_buffer_align(body) \in Nat /\ afbc_buffer_align(body) >= body
  BY <1>10, AfbcAlignIs
<1>13. CASE type.front_safe
  <2>1. Body(p) = body + afbc_buffer_align(body) /\ Holds(p) = DivUp(x * y, 256) * 16 + 2 * least
    BY <1>2, <1>13
  <2> QED
    BY <1>8, <1>9, <1>10, <1>11, <1>12, <2>1
<1>14. CASE ~type.front_safe
  <2>1. Body(p) = body /\ Holds(p) = DivUp(x * y, 256) * 16 + 1 * least
    BY <1>2, <1>14
  <2> QED
    BY <1>8, <1>9, <1>10, <1>11, <2>1
<1> QED
  BY <1>13, <1>14

-----------------------------------------------------------------------------
(***************************************************************************)
(* Planes and layers follow each other                                     *)
(***************************************************************************)
\* Each plane holds its samples, whatever its type.
LEMMA PlaneHolds ==
  ASSUME Derived, ~CpuOnBlocks, NEW p \in 1..info.npln
  PROVE  Body(p) + Header(p) \in Nat /\ Holds(p) <= Body(p) + Header(p) /\ Holds(p) \in Nat
<1>1. Given /\ (type.type = "UNCOMPRESSED" \/ ~Cpu)
  BY DEF Derived, CpuOnBlocks
<1>2. Afbc \/ type.type \in {"AFRC", "BLOCK_LINEAR", "UNCOMPRESSED"}
  BY <1>1 DEF Given, TypeIs
<1>3. Afbc => type.type # "UNCOMPRESSED"
  BY DEF Afbc, AfbcTypes
<1> QED
  BY <1>1, <1>2, <1>3, UncompressedHolds, AfrcHolds, BlockLinearHolds, AfbcHolds

\* A plane ends after its samples.
LEMMA EndIs ==
  ASSUME Derived, ~CpuOnBlocks, NEW p \in 1..info.npln
  PROVE  /\ End(p) = plane_info[p].offset + (Body(p) + Header(p)) /\ End(p) \in Nat
         /\ plane_info[p].offset \in Nat /\ plane_info[p].offset + Holds(p) <= End(p)
<1>1. End(p) = plane_info[p].offset + (Body(p) + Header(p))
  BY DEF End
<1>2. plane_info[p].offset \in Nat
  BY PlaneTyped
<1>3. Body(p) + Header(p) \in Nat /\ Holds(p) <= Body(p) + Header(p) /\ Holds(p) \in Nat
  BY PlaneHolds
<1> DEFINE bh == Body(p) + Header(p)
<1> HIDE DEF bh
<1>4. End(p) = plane_info[p].offset + bh /\ bh \in Nat /\ Holds(p) <= bh
  BY <1>1, <1>3 DEF bh
<1> QED
  BY <1>1, <1>2, <1>3, <1>4

\* The units of an AFRC plane and what its start has to be a multiple of.
LEMMA AfrcAlignIs ==
  ASSUME Given, type.type = "AFRC", NEW k \in {1, 2}
  PROVE  /\ type.align[k] \in {512, 1024, 2048}
         /\ type.align[k] = afrc_plane_alignment_requirement(type.cu[k])
BY DEF Given, TypeIs, afrc_plane_alignment_requirement

\* The next plane starts at the end of the last or, AFRC, after it.
LEMMA NextStarts ==
  ASSUME Derived, ~CpuOnBlocks, NEW p \in 1..info.npln, p + 1 \in 1..info.npln
  PROVE  /\ plane_info[p + 1].offset >= End(p)
         /\ type.type # "AFRC" => plane_info[p + 1].offset = End(p)
<1>1. plane_info[p + 1].offset = Start(p + 1) /\ Given
  BY PlaneTyped DEF PlaneIs
<1>2. p + 1 - 1 = p /\ p + 1 # 1
  OBVIOUS
<1>3. End(p) \in Nat
  BY EndIs
<1>4. CASE type.type = "AFRC"
  <2>1. plane_info[p + 1].offset = GRALLOC_ALIGN(End(p), type.align[2])
    BY <1>1, <1>2, <1>4 DEF Start
  <2>2. type.align[2] \in Nat \ {0}
    BY <1>1, <1>4, AfrcAlignIs
  <2> QED
    BY <1>3, <1>4, <2>1, <2>2, AlignIs
<1>5. CASE type.type # "AFRC"
  BY <1>1, <1>2, <1>3, <1>5 DEF Start
<1> QED
  BY <1>4, <1>5

\* What each layer takes.
LEMMA LayerIs ==
  ASSUME Derived, ~CpuOnBlocks
  PROVE  LET layer == size \div req.layers
         IN /\ layer \in Nat /\ layer >= End(info.npln)
            /\ req.layers > 1 => layer = GRALLOC_ALIGN(End(info.npln), LayerAlign)
<1> DEFINE e == End(info.npln)
           l == GRALLOC_ALIGN(e, LayerAlign)
<1>1. info.npln \in 1..info.npln /\ req.layers \in Nat \ {0}
  <2>1. info.npln \in 1..3
    BY RowIs DEF Derived, Given
  <2>2. req.layers \in Nat \ {0}
    BY DEF Derived, Given
  <2> QED
    BY <2>1, <2>2
<1>2. e \in Nat
  BY <1>1, EndIs
<1>3. LayerAlign \in Nat \ {0}
  BY DEF LayerAlign
<1>4. l \in Nat /\ l >= e
  BY <1>2, <1>3, AlignIs
<1>5. size = IF req.layers > 1 THEN l * req.layers ELSE e
  BY DEF Derived
<1> HIDE DEF e, l
<1>6. CASE req.layers > 1
  <2>1. size \div req.layers = l
    BY <1>1, <1>4, <1>5, <1>6, MultipleMod
  <2> QED
    BY <1>4, <1>6, <2>1 DEF e, l
<1>7. CASE ~(req.layers > 1)
  <2>1. req.layers = 1
    BY <1>1, <1>7
  <2> QED
    BY <1>2, <1>5, <1>7, <2>1 DEF e
<1> QED
  BY <1>6, <1>7

\* PlanesFit, of a derived layout.
LEMMA PlanesFitDerived ==
  ASSUME Derived, ~CpuOnBlocks
  PROVE  Fits(size \div req.layers)
<1> SUFFICES ASSUME NEW p \in DOMAIN plane_info
             PROVE  plane_info[p].offset + Holds(p) <=
                      (IF p < info.npln THEN plane_info[p + 1].offset ELSE size \div req.layers)
  BY DEF Fits
<1>1. p \in 1..info.npln /\ info.npln \in 1..3
  BY RowIs DEF Derived, Given
<1>2. /\ End(p) \in Nat /\ plane_info[p].offset \in Nat /\ Holds(p) \in Nat
      /\ plane_info[p].offset + Holds(p) <= End(p)
  BY <1>1, EndIs, PlaneHolds
<1>3. CASE p < info.npln
  <2>1. p + 1 \in 1..info.npln
    BY <1>1, <1>3
  <2>2. plane_info[p + 1].offset \in Nat /\ plane_info[p + 1].offset >= End(p)
    BY <1>1, <2>1, NextStarts, PlaneTyped
  <2> QED
    BY <1>2, <1>3, <2>2
<1>4. CASE ~(p < info.npln)
  <2>1. p = info.npln
    BY <1>1, <1>4
  <2>2. size \div req.layers \in Nat /\ size \div req.layers >= End(p)
    BY <2>1, LayerIs
  <2> QED
    BY <1>2, <1>4, <2>2
<1> QED
  BY <1>3, <1>4

\* What the pieces of a layout are multiples of, its planes start at multiples of.
LEMMA StartsAligned ==
  ASSUME Derived, ~CpuOnBlocks, type.type # "AFRC", NEW g \in Nat \ {0},
         \A p \in 1..info.npln : p < info.npln => (Body(p) + Header(p)) % g = 0
  PROVE  /\ \A p \in 1..info.npln : plane_info[p].offset % g = 0
         /\ (Body(info.npln) + Header(info.npln)) % g = 0 => End(info.npln) % g = 0
<1>1. info.npln \in 1..3
  BY RowIs DEF Derived, Given
<1>2. plane_info[1].offset = 0
  <2>1. PlaneIs(1)
    BY FirstPlane DEF Derived, AllPlanes
  <2> QED
    BY <2>1 DEF PlaneIs, Start, End
<1>3. ASSUME NEW p \in 1..info.npln, plane_info[p].offset % g = 0, (Body(p) + Header(p)) % g = 0
      PROVE  End(p) % g = 0
  <2>1. PICK bh : bh = Body(p) + Header(p)
    OBVIOUS
  <2>2. End(p) = plane_info[p].offset + bh /\ bh \in Nat /\ bh % g = 0 /\ plane_info[p].offset \in Nat
    BY <1>3, <2>1, EndIs, PlaneHolds
  <2> QED
    BY <1>3, <2>2, MultiplesClosed
<1>4. ASSUME NEW p \in 1..info.npln, p < info.npln, plane_info[p].offset % g = 0
      PROVE  plane_info[p + 1].offset % g = 0
  <2>1. p + 1 \in 1..info.npln
    BY <1>1, <1>4
  <2>2. plane_info[p + 1].offset = End(p)
    BY <2>1, NextStarts
  <2> QED
    BY <1>3, <1>4, <2>2
<1>5. 1 <= info.npln => plane_info[1].offset % g = 0
  BY <1>2
<1>6. 2 <= info.npln => plane_info[2].offset % g = 0
  <2>1. 1 + 1 = 2
    OBVIOUS
  <2> QED
    BY <1>1, <1>4, <1>5, <2>1
<1>7. 3 <= info.npln => plane_info[3].offset % g = 0
  <2>1. 2 + 1 = 3
    OBVIOUS
  <2> QED
    BY <1>1, <1>4, <1>6, <2>1
<1>8. ASSUME NEW p \in 1..info.npln PROVE plane_info[p].offset % g = 0
  <2>1. p \in {1, 2, 3} /\ p <= info.npln
    BY <1>1
  <2> QED
    BY <1>5, <1>6, <1>7, <2>1
<1>9. info.npln \in 1..info.npln
  BY <1>1
<1> QED
  BY <1>3, <1>8, <1>9

\* All but the last plane of an AFBC buffer of several take whole pages of headers.
LEMMA AfbcAligned ==
  ASSUME Derived, Afbc, NEW p \in 1..info.npln, p < info.npln
  PROVE  (Body(p) + Header(p)) % (IF type.tiled THEN 4096 ELSE 128) = 0
<1> DEFINE w == plane_info[p].w
           h == plane_info[p].h
           b == info.bpp_afbc[p]
           sb == get_afbc_sb_size(p)
           block == GRALLOC_ALIGN((b * sb[1] * sb[2]) \div 8, 128)
           n == (w * h) \div 256
           body == afbc_buffer_align(n * block)
           g == IF type.tiled THEN 4096 ELSE 128
<1>1. /\ w \in Nat /\ h \in Nat /\ b \in Nat /\ info.npln > 1 /\ p <= 2
  <2>1. info.npln \in 1..3
    BY RowIs DEF Derived, Given
  <2> QED
    BY <2>1, PlaneTyped
<1>2. type.type \notin {"AFRC", "BLOCK_LINEAR", "UNCOMPRESSED"}
  BY DEF Afbc, AfbcTypes
<1>3. /\ Header(p) = afbc_buffer_align(n * 16)
      /\ Body(p) = IF type.front_safe THEN body + afbc_buffer_align(body) ELSE body
  <2>1. Header(p) = afbc_buffer_align(n * 16)
    BY DEF Header
  <2>2. Body(p) = IF type.front_safe THEN body + afbc_buffer_align(body) ELSE body
    <3> DEFINE part == IF info.npln > 1 /\ p <= 2 THEN afbc_buffer_align(n * block) ELSE n * block
               whole == IF type.front_safe THEN part + afbc_buffer_align(part) ELSE part
               clumps == (w \div type.clump[p][1]) * (h \div type.clump[p][2]) * CodingUnit(p)
               luma_h == IF p = 1 THEN h ELSE plane_info[1].h
               blocks == plane_info[p].stride * Block(p)[2] * (luma_h \div 16)
               pixels == plane_info[p].stride * h
    <3>1. Body(p) = CASE Afbc -> whole [] type.type = "AFRC" -> clumps
                      [] type.type = "BLOCK_LINEAR" -> blocks
                      [] type.type = "UNCOMPRESSED" -> pixels
      BY Zenon DEF Body, body_size
    <3>2. part = body
      BY <1>1
    <3> HIDE DEF whole, clumps, blocks, pixels, part, body
    <3>3. Body(p) = whole
      BY <1>2, <3>1
    <3> QED
      BY <3>2, <3>3 DEF whole
  <2> QED
    BY <2>1, <2>2
<1>4. n * 16 \in Nat /\ n * block \in Nat
  <2>1. sb[1] \in Nat /\ sb[2] \in Nat
    BY SuperblockIs
  <2> HIDE DEF w, h, b, sb
  <2>2. PICK x, y : x = w * h /\ y = b * sb[1] * sb[2]
    OBVIOUS
  <2>3. x \in Nat /\ y \in Nat
    BY <1>1, <2>1, <2>2
  <2>4. x \div 256 \in Nat /\ y \div 8 \in Nat
    BY <2>3
  <2>5. n \in Nat /\ y \div 8 \in Nat
    BY <2>2, <2>4
  <2>6. block \in Nat
    <3>1. 128 \in Nat \ {0} /\ block = GRALLOC_ALIGN(y \div 8, 128)
      BY <2>2
    <3> QED
      BY <2>5, <3>1, AlignIs
  <2> HIDE DEF n, block
  <2> QED
    BY <2>5, <2>6
<1>5. g \in Nat \ {0}
  OBVIOUS
<1> HIDE DEF n, block, g
<1>6. ASSUME NEW x \in Nat PROVE afbc_buffer_align(x) \in Nat /\ afbc_buffer_align(x) % g = 0
  <2>1. /\ afbc_buffer_align(x) \in Nat /\ afbc_buffer_align(x) % 1024 = 0
        /\ type.tiled => afbc_buffer_align(x) % 4096 = 0
    BY AfbcAlignIs
  <2>2. PICK v : v = afbc_buffer_align(x)
    OBVIOUS
  <2>3. v \in Nat /\ v % 1024 = 0 /\ (type.tiled => v % 4096 = 0)
    BY <2>1, <2>2
  <2>4. v % 128 = 0
    BY <2>3
  <2> QED
    BY <2>2, <2>3, <2>4 DEF g
<1>7. body \in Nat /\ body % g = 0 /\ Header(p) \in Nat /\ Header(p) % g = 0
  BY <1>3, <1>4, <1>6
<1> HIDE DEF body
<1>8. afbc_buffer_align(body) \in Nat /\ afbc_buffer_align(body) % g = 0
  BY <1>6, <1>7
<1>9. Body(p) \in Nat /\ Body(p) % g = 0
  <2>1. PICK c : c = afbc_buffer_align(body)
    OBVIOUS
  <2>2. body + c \in Nat /\ (body + c) % g = 0
    BY <1>5, <1>7, <1>8, <2>1, MultiplesClosed
  <2> QED
    BY <1>3, <1>7, <2>1, <2>2
<1>10. (Body(p) + Header(p)) % g = 0
  BY <1>5, <1>7, <1>9, MultiplesClosed
<1> QED
  BY <1>10 DEF g

\* The rows of uncompressed planes keep the alignment of the hardware.
LEMMA UncompressedAligned ==
  ASSUME Derived, type.type = "UNCOMPRESSED", info.tile_size = 1, NEW p \in 1..info.npln
  PROVE  /\ Max({1, hw_align}) \in Nat \ {0}
         /\ (Body(p) + Header(p)) % Max({1, hw_align}) = 0
<1> DEFINE g == Max({1, hw_align})
           s == plane_info[p].stride
           h == plane_info[p].h
<1>1. g = IF HwUsage THEN hw_align ELSE 1
  BY HwAlignIs, MaxOfTwo
<1>2. g \in Nat \ {0}
  BY <1>1, HwAlignIs
<1>3. s \in Nat /\ h \in Nat /\ (HwUsage => s % hw_align = 0)
  BY PlaneTyped, StrideIs
<1>4. s % g = 0
  BY <1>1, <1>3
<1>5. Body(p) = s * h /\ Header(p) = 0
  BY DEF Body, Header, body_size, Afbc, AfbcTypes
<1> HIDE DEF g, s, h
<1>6. s * h \in Nat /\ (s * h) % g = 0
  <2>1. \A y \in Nat : (s * y) % g = 0
    BY <1>2, <1>3, <1>4, MultiplesClosed
  <2> QED
    BY <1>3, <2>1
<1>7. Body(p) + Header(p) = s * h
  BY <1>5, <1>6
<1> QED
  BY <1>2, <1>6, <1>7 DEF g

\* LayersAligned, of a derived layout.
LEMMA LayersAlignedDerived ==
  ASSUME Derived, ~CpuOnBlocks, info.tile_size = 1,
         NEW p \in DOMAIN plane_info, NEW layer \in 0..(req.layers - 1),
         layer = 0 \/ type.type # "AFRC"
  PROVE  (layer * (size \div req.layers) + plane_info[p].offset) % StartAlign(p) = 0
<1> DEFINE l == size \div req.layers
           o == plane_info[p].offset
           e == End(info.npln)
           a == StartAlign(p)
<1>1. /\ p \in 1..info.npln /\ Given /\ PlaneIs(p) /\ req.layers \in Nat \ {0}
      /\ info.npln \in 1..info.npln
  <2>1. info.npln \in 1..3
    BY RowIs DEF Derived, Given
  <2> QED
    <3>1. p \in 1..info.npln /\ Given
      BY DEF Derived
    <3>2. PlaneIs(p) /\ req.layers \in Nat \ {0}
      BY <3>1, PlaneTyped DEF Given
    <3> QED
      BY <2>1, <3>1, <3>2
<1>2. layer \in Nat /\ (layer # 0 => req.layers > 1)
  BY <1>1
<1>3. o \in Nat /\ e \in Nat /\ l \in Nat /\ (req.layers > 1 => l = GRALLOC_ALIGN(e, LayerAlign))
  BY <1>1, EndIs, LayerIs
<1>4. a \in Nat \ {0} /\ o % a = 0 /\ (layer # 0 => l % a = 0)
  <2>1. CASE Afbc
    <3>1. a = IF type.tiled THEN 4096 ELSE 128
      <4> DEFINE afbc == IF type.tiled THEN 4096 ELSE 128
                 afrc == afrc_plane_alignment_requirement(CodingUnit(p))
                 linear == Max({1, hw_align})
      <4>1. a = CASE Afbc -> afbc [] type.type = "AFRC" -> afrc
                  [] type.type = "UNCOMPRESSED" -> linear [] OTHER -> 1
        BY Zenon DEF StartAlign
      <4>2. type.type \notin {"AFRC", "UNCOMPRESSED"}
        BY <2>1 DEF Afbc, AfbcTypes
      <4> HIDE DEF afbc, afrc, linear
      <4>3. a = afbc
        BY <2>1, <4>1, <4>2
      <4> QED
        BY <4>3 DEF afbc
    <3>2. a \in Nat \ {0} /\ LayerAlign = a
      BY <2>1, <3>1 DEF LayerAlign
    <3>3. type.type # "AFRC" /\ \A q \in 1..info.npln : q < info.npln => (Body(q) + Header(q)) % a = 0
      BY <2>1, <3>1, AfbcAligned DEF Afbc, AfbcTypes
    <3> HIDE DEF a, o, l, e
    <3>4. o % a = 0
      BY <1>1, <3>2, <3>3, StartsAligned DEF o
    <3>5. GRALLOC_ALIGN(e, a) % a = 0
      BY <1>3, <3>2, AlignIs
    <3> QED
      BY <1>2, <1>3, <3>2, <3>4, <3>5
  <2>2. CASE type.type = "AFRC"
    <3> DEFINE k == IF p = 1 THEN 1 ELSE 2
    <3>1. a = afrc_plane_alignment_requirement(type.cu[k]) /\ layer = 0
      BY <2>2 DEF StartAlign, CodingUnit, Afbc, AfbcTypes
    <3>2. type.align[k] \in {512, 1024, 2048} /\ a = type.align[k]
      BY <1>1, <2>2, <3>1, AfrcAlignIs
    <3>3. o = GRALLOC_ALIGN(End(p - 1), type.align[k])
      BY <1>1, <2>2 DEF PlaneIs, Start
    <3>4. End(p - 1) \in Nat
      <4>1. CASE p = 1
        BY <4>1 DEF End
      <4>2. CASE p # 1
        <5>1. p - 1 \in 1..info.npln
          BY <1>1, <4>2
        <5> QED
          BY <5>1, EndIs
      <4> QED
        BY <4>1, <4>2
    <3>5. a \in Nat \ {0} /\ o = GRALLOC_ALIGN(End(p - 1), a)
      BY <3>2, <3>3
    <3> HIDE DEF a, o, k
    <3>6. o % a = 0
      BY <3>4, <3>5, AlignIs
    <3> QED
      BY <3>1, <3>5, <3>6
  <2>3. CASE type.type = "UNCOMPRESSED"
    <3>1. a = Max({1, hw_align})
      BY <2>3 DEF StartAlign, Afbc, AfbcTypes
    <3>2. a \in Nat \ {0} /\ \A q \in 1..info.npln : (Body(q) + Header(q)) % a = 0
      BY <1>1, <2>3, <3>1, UncompressedAligned
    <3> HIDE DEF a, o, l, e
    <3>3. o % a = 0 /\ e % a = 0
      BY <1>1, <2>3, <3>2, StartsAligned DEF o, e
    <3>4. layer # 0 => l = e
      <4>1. LayerAlign = 1
        BY <2>3 DEF LayerAlign, Afbc, AfbcTypes
      <4>2. e % 1 = 0 /\ 1 \in Nat \ {0}
        BY <1>3
      <4>3. GRALLOC_ALIGN(e, 1) = e
        BY <1>3, <4>2, AlignIs
      <4> QED
        BY <1>2, <1>3, <4>1, <4>3
    <3> QED
      BY <3>2, <3>3, <3>4
  <2>4. CASE ~Afbc /\ type.type \notin {"AFRC", "UNCOMPRESSED"}
    <3>1. a = 1
      BY <2>4 DEF StartAlign
    <3>2. 1 \in Nat \ {0} /\ o % 1 = 0 /\ l % 1 = 0
      BY <1>3
    <3> QED
      BY <3>1, <3>2
  <2> QED
    BY <2>1, <2>2, <2>3, <2>4
<1> HIDE DEF l, o, e, a
<1>5. layer * l \in Nat /\ (layer * l) % a = 0
  <2>1. CASE layer = 0
    <3>1. layer * l = 0
      BY <1>3, <2>1
    <3> QED
      BY <1>4, <3>1
  <2>2. CASE layer # 0
    <3>1. l % a = 0
      BY <1>4, <2>2
    <3>2. \A y \in Nat : (y * l) % a = 0
      BY <1>3, <1>4, <3>1, MultiplesClosed
    <3> QED
      BY <1>2, <1>3, <3>2
  <2> QED
    BY <2>1, <2>2
<1>6. (layer * l + o) % a = 0
  BY <1>3, <1>4, <1>5, MultiplesClosed
<1> QED
  BY <1>6 DEF l, o, a

-----------------------------------------------------------------------------
(***************************************************************************)
(* Every plane is calculated from the ones before it                       *)
(***************************************************************************)
\* What is recorded of a plane.
Planes == [offset : Nat, w : Nat, h : Nat, stride : Nat]

\* The types exclude each other.
LEMMA AfbcIsNone == Afbc => type.type \notin {"AFRC", "BLOCK_LINEAR", "UNCOMPRESSED"}
BY DEF Afbc, AfbcTypes

\* A quotient is a number.
LEMMA DivIsNat == \A a \in Nat, b \in Nat \ {0} : a \div b \in Nat
BY DivModIs

\* What is calculated for a plane is numbers, whether or not the CPU is on it.
LEMMA StrideIsNat ==
  ASSUME Given, NEW p \in 1..info.npln, NEW w, w = get_pixel_w_h(p)[1],
         p > 1 => plane_info[1].stride \in Nat /\ plane_info[1].w \in Nat
  PROVE  byte_stride(p, w) \in Nat
<1>1. w \in Nat /\ info.bpp[p] \in Nat /\ info.bpp_afbc[p] \in Nat
  BY PixelsCover, RowIs DEF Given
<1>2. CASE Afbc
  <2>1. byte_stride(p, w) = (w * info.bpp_afbc[p]) \div 8
    BY <1>2, AfbcIsNone DEF byte_stride
  <2>2. w * info.bpp_afbc[p] \in Nat
    BY <1>1
  <2> QED
    BY <2>1, <2>2, DivIsNat
<1>3. CASE type.type = "AFRC"
  <2> DEFINE c == type.clump[p][1] * type.tile[1]
             d == type.tile[2] * type.clump[p][2]
             u == CodingUnit(p)
  <2>1. byte_stride(p, w) = ((w \div c) * 64 * u) \div d
    BY <1>3, AfbcIsNone DEF byte_stride, paging_tile_byte_stride
  <2>2. /\ type.tile \in {<<8, 8>>, <<16, 4>>} /\ type.clump[p] \in {type.tile, <<8, 4>>, <<4, 4>>}
        /\ u \in {16, 24, 32}
    BY <1>3 DEF Given, TypeIs, CodingUnit
  <2>3. c \in Nat \ {0} /\ d \in Nat \ {0} /\ u \in Nat
    BY <2>2
  <2> HIDE DEF c, d, u
  <2>4. w \div c \in Nat
    BY <1>1, <2>3, DivIsNat
  <2>5. (w \div c) * 64 * u \in Nat
    BY <2>3, <2>4
  <2> QED
    BY <2>1, <2>3, <2>5, DivIsNat
<1>4. CASE type.type = "BLOCK_LINEAR"
  <2> DEFINE luma_w == IF p = 1 THEN w ELSE plane_info[1].w
             i == Block(p)[1]
             j == Block(p)[2]
             b == info.bpp[p]
  <2>1. byte_stride(p, w) = ((luma_w \div 16) * ((i * j * b) \div 8)) \div j
    BY <1>4, AfbcIsNone DEF byte_stride
  <2>2. i \in {8, 16} /\ j \in {8, 16} /\ luma_w \in Nat
    BY <1>1, <1>4, BlockIs
  <2> HIDE DEF luma_w, i, j, b
  <2>3. i * j * b \in Nat /\ j \in Nat \ {0}
    BY <1>1, <2>2 DEF b
  <2>4. luma_w \div 16 \in Nat /\ (i * j * b) \div 8 \in Nat
    BY <2>2, <2>3, DivIsNat
  <2>5. (luma_w \div 16) * ((i * j * b) \div 8) \in Nat
    BY <2>4
  <2> QED
    BY <2>1, <2>3, <2>5, DivIsNat
<1>5. CASE type.type = "UNCOMPRESSED"
  <2>1. Aligned(p, w) \in Nat
    BY <1>5, AlignedIs
  <2>2. CASE ~IsSharedYv12
    BY <1>5, <2>1, <2>2, UncompressedStride
  <2>3. CASE IsSharedYv12 /\ p > 1
    <3>1. byte_stride(p, w) = plane_info[1].stride \div 2
      BY <1>5, <2>3, UncompressedStride DEF update_yv12_stride
    <3> QED
      BY <2>3, <3>1, DivIsNat
  <2>4. CASE IsSharedYv12 /\ p = 1
    <3>1. byte_stride(p, w) = GRALLOC_ALIGN(Aligned(p, w), 2 * stride_align(p))
      BY <1>5, <2>4, UncompressedStride DEF update_yv12_stride
    <3>2. hw_align \in Nat /\ hw_align # 0 /\ CpuBytes(p) \in Nat
      BY <1>5, <2>4, HwAlignIs, RowsAreBytes DEF IsSharedYv12
    <3>3. stride_align(p) = lcm(hw_align, CpuBytes(p))
      BY <2>4 DEF stride_align, CpuBytes, IsSharedYv12
    <3>4. stride_align(p) \in Nat /\ stride_align(p) # 0
      <4>1. PICK a, b : a = hw_align /\ b = CpuBytes(p)
        OBVIOUS
      <4>2. a \in Nat /\ b \in Nat /\ a # 0
        BY <3>2, <4>1
      <4>3. lcm(a, b) \in Nat /\ lcm(a, b) # 0
        BY <4>2, LcmIs
      <4> QED
        BY <3>3, <4>1, <4>3
    <3>5. 2 * stride_align(p) \in Nat \ {0}
      BY <3>4
    <3>6. PICK d : d = 2 * stride_align(p)
      OBVIOUS
    <3> QED
      BY <2>1, <3>1, <3>5, <3>6, AlignIs
  <2> QED
    BY <2>2, <2>3, <2>4
<1> QED
  BY <1>2, <1>3, <1>4, <1>5 DEF Given, TypeIs

\* So is the number of bytes of a plane.
LEMMA BodyIsNat ==
  ASSUME Given, NEW p \in 1..info.npln, NEW w \in Nat, NEW h \in Nat, NEW s \in Nat,
         p > 1 => plane_info[1].h \in Nat
  PROVE  body_size(p, w, h, s) \in Nat
<1>1. info.bpp[p] \in Nat /\ info.bpp_afbc[p] \in Nat
  BY RowIs DEF Given
<1> DEFINE sb == get_afbc_sb_size(p)
           block == GRALLOC_ALIGN((info.bpp_afbc[p] * sb[1] * sb[2]) \div 8, 128)
           n == ((w * h) \div 256) * block
           body == IF info.npln > 1 /\ p <= 2 THEN afbc_buffer_align(n) ELSE n
           whole == IF type.front_safe THEN body + afbc_buffer_align(body) ELSE body
           clumps == (w \div type.clump[p][1]) * (h \div type.clump[p][2]) * CodingUnit(p)
           luma_h == IF p = 1 THEN h ELSE plane_info[1].h
           blocks == s * Block(p)[2] * (luma_h \div 16)
           pixels == s * h
<1>2. body_size(p, w, h, s) =
        CASE Afbc -> whole [] type.type = "AFRC" -> clumps
          [] type.type = "BLOCK_LINEAR" -> blocks [] type.type = "UNCOMPRESSED" -> pixels
  BY Zenon DEF body_size
<1>3. CASE Afbc
  <2>1. sb[1] \in Nat /\ sb[2] \in Nat
    BY SuperblockIs
  <2> HIDE DEF sb
  <2>2. (w * h) \div 256 \in Nat
    <3>1. w * h \in Nat
      OBVIOUS
    <3> QED
      BY <3>1, DivIsNat
  <2>3. block \in Nat
    <3>1. info.bpp_afbc[p] * sb[1] * sb[2] \in Nat
      BY <1>1, <2>1
    <3>2. (info.bpp_afbc[p] * sb[1] * sb[2]) \div 8 \in Nat /\ 128 \in Nat \ {0}
      BY <3>1, DivIsNat
    <3> QED
      BY <3>2, AlignIs
  <2> HIDE DEF block
  <2>4. n \in Nat
    BY <2>2, <2>3
  <2> HIDE DEF n
  <2>5. body \in Nat
    BY <2>4, AfbcAlignIs
  <2> HIDE DEF body
  <2>6. whole \in Nat
    <3>1. afbc_buffer_align(body) \in Nat
      BY <2>5, AfbcAlignIs
    <3> QED
      BY <2>5, <3>1
  <2> HIDE DEF whole, clumps, blocks, pixels
  <2>7. body_size(p, w, h, s) = whole
    BY <1>2, <1>3, AfbcIsNone
  <2> QED
    BY <2>6, <2>7
<1> HIDE DEF whole, clumps, blocks, pixels
<1>4. CASE type.type = "AFRC"
  <2>1. body_size(p, w, h, s) = clumps
    BY <1>2, <1>4, AfbcIsNone
  <2>2. /\ type.tile \in {<<8, 8>>, <<16, 4>>} /\ type.clump[p] \in {type.tile, <<8, 4>>, <<4, 4>>}
        /\ CodingUnit(p) \in {16, 24, 32}
    BY <1>4 DEF Given, TypeIs, CodingUnit
  <2>3. PICK c \in Nat \ {0}, d \in Nat \ {0} : c = type.clump[p][1] /\ d = type.clump[p][2]
    BY <2>2
  <2>4. PICK i \in Nat, j \in Nat : i = w \div c /\ j = h \div d
    BY <2>3, DivIsNat
  <2>5. PICK u \in Nat : u = CodingUnit(p)
    BY <2>2
  <2>6. clumps = i * j * u
    BY <2>3, <2>4, <2>5 DEF clumps
  <2> QED
    BY <2>1, <2>6
<1>5. CASE type.type = "BLOCK_LINEAR"
  <2>1. body_size(p, w, h, s) = blocks
    BY <1>2, <1>5, AfbcIsNone
  <2>2. PICK j \in Nat : j = Block(p)[2]
    <3>1. Block(p)[2] \in {8, 16}
      BY <1>5, BlockIs
    <3> QED
      BY <3>1
  <2>3. PICK i \in Nat : i = luma_h \div 16
    BY DivIsNat
  <2>4. blocks = s * j * i
    BY <2>2, <2>3 DEF blocks
  <2> QED
    BY <2>1, <2>4
<1>6. CASE type.type = "UNCOMPRESSED"
  <2>1. body_size(p, w, h, s) = s * h
    BY <1>2, <1>6, AfbcIsNone DEF pixels
  <2> QED
    BY <2>1
<1> QED
  BY <1>3, <1>4, <1>5, <1>6 DEF Given, TypeIs

\* What a plane is calculated from, the first one and itself, stays.
Stays(p) == /\ UNCHANGED <<req, info, type, dims>>
            /\ plane_info'[1] = plane_info[1] /\ plane_info'[p] = plane_info[p]

\* What is calculated from a request, its format and its dimensions stays with them.
LEMMA PixelsStay ==
  ASSUME UNCHANGED <<req, info, type, dims>>, NEW p
  PROVE  get_pixel_w_h(p)' = get_pixel_w_h(p)
BY DEF get_pixel_w_h, PixelAlign, get_afbc_sb_size, Cpu, Afbc

\* So does a stride; those of chroma planes also depend on the luma plane.
LEMMA StrideStays ==
  ASSUME UNCHANGED <<req, info, type, dims>>, NEW p, NEW w, p = 1 \/ plane_info'[1] = plane_info[1],
         plane_info'[p].w = w
  PROVE  byte_stride(p, plane_info[p].w)' = byte_stride(p, w)
BY DEF byte_stride, update_yv12_stride, stride_align, hw_align, HwUsage, Cpu, IsSharedYv12,
       CodingUnit, Block, paging_tile_byte_stride, Afbc

\* So do the bytes of a plane,
LEMMA BodyStays ==
  ASSUME UNCHANGED <<req, info, type, dims>>, NEW p, NEW w, NEW h, NEW s,
         p = 1 \/ plane_info'[1] = plane_info[1],
         plane_info'[p].w = w, plane_info'[p].h = h, plane_info'[p].stride = s
  PROVE  /\ Body(p)' = body_size(p, w, h, s)
         /\ Header(p)' = IF Afbc THEN afbc_buffer_align(((w * h) \div 256) * 16) ELSE 0
BY DEF Body, Header, body_size, get_afbc_sb_size, afbc_buffer_align, CodingUnit, Block, Afbc

\* the asserts that do not hold for it,
LEMMA BrokenStays ==
  ASSUME UNCHANGED <<req, info, type, dims>>, NEW p, NEW w, NEW s,
         p = 1 \/ plane_info'[1] = plane_info[1],
         plane_info'[p].w = w, plane_info'[p].stride = s
  PROVE  BrokenAsserts(p, plane_info[p].w, plane_info[p].stride)' = BrokenAsserts(p, w, s)
BY DEF BrokenAsserts, stride_align, hw_align, HwUsage, Cpu, IsSharedYv12,
       CodingUnit, Block, paging_tile_byte_stride, Afbc

\* where it ends,
LEMMA EndStays ==
  ASSUME NEW p, p = 0 \/ Stays(p)
  PROVE  UNCHANGED <<req, info, type, dims>> => End(p)' = End(p)
<1>1. CASE p = 0
  BY <1>1 DEF End
<1>2. CASE p # 0
  <2>1. Stays(p)
    BY <1>2
  <2>2. Body(p)' = Body(p) /\ Header(p)' = Header(p)
    BY <2>1, BodyStays DEF Stays, Body, Header
  <2> QED
    BY <1>2, <2>1, <2>2 DEF End, Stays
<1> QED
  BY <1>1, <1>2

\* where it starts,
LEMMA StartStays ==
  ASSUME UNCHANGED <<req, info, type, dims>>, NEW p, End(p - 1)' = End(p - 1)
  PROVE  Start(p)' = Start(p)
BY DEF Start

\* and that it was calculated from all that.
LEMMA PlaneStays ==
  ASSUME NEW p \in Nat \ {0}, Stays(p), p > 1 => Stays(p - 1), PlaneIs(p)
  PROVE  PlaneIs(p)'
<1>1. /\ UNCHANGED <<req, info, type, dims>>
      /\ plane_info'[1] = plane_info[1] /\ plane_info'[p] = plane_info[p]
  BY DEF Stays
<1>2. p - 1 = 0 \/ Stays(p - 1)
  OBVIOUS
<1>3. End(p - 1)' = End(p - 1)
  BY <1>1, <1>2, EndStays
<1>4. Start(p)' = Start(p)
  BY <1>1, <1>3, StartStays
<1>5. get_pixel_w_h(p)' = get_pixel_w_h(p)
  BY <1>1, PixelsStay
<1>6. byte_stride(p, plane_info[p].w)' = byte_stride(p, plane_info[p].w)
  BY <1>1, StrideStays
<1> QED
  BY <1>1, <1>4, <1>5, <1>6 DEF PlaneIs

-----------------------------------------------------------------------------
(***************************************************************************)
(* The invariant of the layout                                             *)
(***************************************************************************)
\* Where dimensions have been aligned.
LaidOut == {"planes", "derived", "done", "crashed"}

\* The first n planes are calculated, each from the dimensions and the planes before it.
PlanesInv ==
  \E n \in 0..info.npln :
    /\ plane_info \in Seq(Planes) /\ Len(plane_info) = n
    /\ \A p \in 1..n : PlaneIs(p)
    /\ \A a \in broken : \E p \in 1..n :
         a \in BrokenAsserts(p, plane_info[p].w, plane_info[p].stride)
    /\ n > 0 => pixel_stride = IF info.bpp[1] = 0 THEN 0
                               ELSE (plane_info[1].stride * 8) \div info.bpp[1]
    /\ pc = "planes" => size = End(n) /\ size \in Nat
    /\ pc \in {"derived", "done"} => n = info.npln
    /\ pc = "derived" =>
         size = IF req.layers > 1 THEN GRALLOC_ALIGN(End(n), LayerAlign) * req.layers ELSE End(n)

\* What is known of the layout at each step of mali_gralloc_derive_format_and_size.
LayoutInv ==
  /\ req.width \in Nat \ {0} /\ req.height \in Nat \ {0} /\ req.layers \in Nat \ {0}
  /\ pc \in LaidOut \cup {"derive", "align"} => info \in Rows
  /\ pc \in LaidOut \cup {"align"} => TypeIs
  /\ pc \notin LaidOut => /\ dims = <<req.width, req.height>> /\ plane_info = << >>
                          /\ size = 0 /\ broken = {}
  /\ pc \in LaidOut => Given /\ PlanesInv

\* A request starts with no layout.
LEMMA LayoutInit == Init => LayoutInv
<1> SUFFICES ASSUME Init PROVE LayoutInv
  OBVIOUS
<1>1. PICK i \in DOMAIN Requests : req \in Requests[i]
  BY DEF Init
<1>2. req.width \in Nat \ {0} /\ req.height \in Nat \ {0} /\ req.layers \in Nat \ {0}
  BY <1>1, RequestsAreTyped
<1> QED
  BY <1>2 DEF Init, LayoutInv, LaidOut

\* A format that is derived from has a row in the table.
LEMMA InfoStep ==
  ASSUME LayoutInv, PhaseInv, ChosenInv, NEW f, Proceed(f),
         f = Invalid \/ f.base \in FormatIds,
         UNCHANGED <<req, layout>>, pc \in {"select", "search"}
  PROVE  LayoutInv'
<1>1. pc' \in {"derive", "failed"} /\ (pc' = "derive" => info' \in Rows)
  <2>1. pc' = "derive" => f # Invalid /\ info' = get_format_info[f.base]
    BY DEF Proceed
  <2>2. pc' = "derive" => \E i \in DOMAIN formats : info' = formats[i]
    <3>1. ASSUME f.base \in FormatIds
          PROVE  \E i \in DOMAIN formats : get_format_info[f.base] = formats[i]
      <4>1. PICK i \in DOMAIN formats : f.base = formats[i].id
        BY <3>1, RowsAreSound
      <4> QED
        BY <4>1, TablesAgree
    <3> QED
      BY <2>1, <3>1
  <2> QED
    BY <2>2 DEF Proceed, Rows
<1>2. pc \notin LaidOut /\ pc' \notin LaidOut \cup {"align"}
  BY <1>1 DEF LaidOut
<1>3. /\ dims = <<req.width, req.height>> /\ plane_info = << >> /\ size = 0 /\ broken = {}
  BY <1>2 DEF LayoutInv
<1>4. Rows' = Rows
  BY DEF Rows
<1> QED
  BY <1>1, <1>2, <1>3, <1>4 DEF LayoutInv, layout

\* mali_gralloc_adjust_dimensions never makes a buffer smaller.
LEMMA AdjustIs ==
  ASSUME NEW row, NEW f, NEW usage, NEW w \in Nat, NEW h \in Nat,
         NEW d, d = mali_gralloc_adjust_dimensions(row, f, usage, w, h)
  PROVE  d \in Nat \X Nat /\ d[1] >= w /\ d[2] >= h
<1> DEFINE producers == get_producers(usage)
           h1 == IF "VPU" \in producers /\ is_afbc(f) /\ is_yuv(row) /\ row.sub = <<2, 2>>
                 THEN h + (IF AFBC_TILED_HEADERS \in f.mods THEN 16 ELSE 32) ELSE h
           pad == "GPU" \in producers /\ is_afbc(f)
           w2 == IF pad THEN GRALLOC_ALIGN(w, 16) ELSE w
           h2 == IF pad THEN GRALLOC_ALIGN(h1, 16) ELSE h1
           decoder == need_do_width_height_align(usage, w2, h2)
           w3 == IF decoder THEN GRALLOC_ALIGN(w2, 64) ELSE w2
           h3 == IF decoder /\ "PRIVATE_3" \notin usage THEN GRALLOC_ALIGN(h2, 64) ELSE h2
<1>1. d = <<w3, h3>>
  BY DEF mali_gralloc_adjust_dimensions
<1>2. h1 \in Nat /\ h1 >= h
  OBVIOUS
<1>3. 16 \in Nat \ {0} /\ 64 \in Nat \ {0}
  OBVIOUS
<1> HIDE DEF h1
<1>4. w2 \in Nat /\ w2 >= w /\ h2 \in Nat /\ h2 >= h1
  BY <1>2, <1>3, AlignIs
<1> HIDE DEF w2, h2
<1>5. w3 \in Nat /\ w3 >= w2 /\ h3 \in Nat /\ h3 >= h2
  BY <1>3, <1>4, AlignIs
<1> HIDE DEF w3, h3
<1> QED
  BY <1>1, <1>2, <1>4, <1>5

\* Neither do the dimensions that the video driver asks for.
LEMMA DimsStep ==
  ASSUME LayoutInv, AlignDimensions
  PROVE  LayoutInv'
<1>1. /\ pc = "align" /\ pc' = "planes" /\ info \in Rows /\ TypeIs
      /\ req.width \in Nat \ {0} /\ req.height \in Nat \ {0} /\ req.layers \in Nat \ {0}
      /\ dims = <<req.width, req.height>> /\ plane_info = << >> /\ size = 0 /\ broken = {}
      /\ UNCHANGED <<req, info, type, plane_info, size, broken>>
  BY DEF LayoutInv, AlignDimensions, LaidOut, chosen
<1>2. dims' \in Nat \X Nat /\ dims'[1] >= req.width /\ dims'[2] >= req.height
  <2>1. PICK a \in (IF "USING_SLOT" \in req.usage THEN DecoderAligns ELSE {}) \cup {<<0, 0>>} :
          dims' = IF 0 \notin {a[1], a[2]}
                  THEN <<GRALLOC_ALIGN(dims[1], a[1]), GRALLOC_ALIGN(dims[2], a[2])>>
                  ELSE mali_gralloc_adjust_dimensions(info, alloc_format, req.usage, dims[1], dims[2])
    BY DEF AlignDimensions
  <2>2. a[1] \in Nat /\ a[2] \in Nat
    BY DecoderAlignsAreNumbers
  <2>3. dims[1] = req.width /\ dims[2] = req.height /\ req.width \in Nat /\ req.height \in Nat
    BY <1>1
  <2>4. CASE 0 \notin {a[1], a[2]}
    <3>1. a[1] \in Nat \ {0} /\ a[2] \in Nat \ {0}
      BY <2>2, <2>4
    <3>2. /\ GRALLOC_ALIGN(dims[1], a[1]) \in Nat /\ GRALLOC_ALIGN(dims[1], a[1]) >= dims[1]
          /\ GRALLOC_ALIGN(dims[2], a[2]) \in Nat /\ GRALLOC_ALIGN(dims[2], a[2]) >= dims[2]
      BY <2>3, <3>1, AlignIs
    <3> QED
      BY <2>1, <2>3, <2>4, <3>2
  <2>5. CASE ~(0 \notin {a[1], a[2]})
    <3>1. dims' = mali_gralloc_adjust_dimensions(info, alloc_format, req.usage, req.width, req.height)
      BY <2>1, <2>3, <2>5
    <3> QED
      BY <2>3, <3>1, AdjustIs
  <2> QED
    BY <2>4, <2>5
<1>3. TypeIs'
  BY <1>1 DEF TypeIs, Afbc
<1>4. Given'
  BY <1>1, <1>2, <1>3 DEF Given, Rows
<1>5. PlanesInv'
  <2>1. /\ plane_info' \in Seq(Planes) /\ Len(plane_info') = 0 /\ size' = 0 /\ broken' = {}
    BY <1>1
  <2>2. End(0)' = 0
    BY DEF End
  <2>3. 0 \in 0..info'.npln
    BY <1>1, RowIs
  <2>4. Planes' = Planes
    BY DEF Planes
  <2> QED
    BY <1>1, <2>1, <2>2, <2>3, <2>4 DEF PlanesInv
<1> QED
  BY <1>1, <1>3, <1>4, <1>5 DEF LayoutInv, LaidOut, Rows

\* What the search or a framebuffer's flags choose has a row,
LEMMA ChooseStep ==
  ASSUME LayoutInv, PhaseInv, ChosenInv, ChooseFormat
  PROVE  LayoutInv'
<1> DEFINE g == IF own.grade # best.grade /\ MayRemap THEN best.format ELSE own.format
           f == ForcedForFramebuffer(req, g)
<1>1. Proceed(f) /\ UNCHANGED <<req, layout>> /\ pc = "search"
  BY DEF ChooseFormat
<1>2. SearchInv
  BY <1>1 DEF PhaseInv
<1>3. \A offer \in {best, own} : offer.format = Invalid \/ offer.format.base \in FormatIds
  <2>1. \A offer \in {best, own} :
          offer = None \/ \E i \in DOMAIN formats : offer = Offer(formats[i]) /\ Grade(i) > 0
    BY <1>2 DEF SearchInv, Considered
  <2>2. \A i \in DOMAIN formats : Grade(i) > 0 => Offer(formats[i]).format.base \in FormatIds
    BY OfferFacts, RowsAreSound DEF Grade
  <2>3. None.format = Invalid
    BY DEF None
  <2> QED
    BY <2>1, <2>2, <2>3
<1>4. g = Invalid \/ g.base \in FormatIds
  BY <1>3
<1> HIDE DEF g
<1>5. f = Invalid \/ f.base \in FormatIds
  BY <1>4, RowsAreSound DEF ForcedForFramebuffer, from_android
<1> HIDE DEF f
<1> QED
  BY <1>1, <1>5, InfoStep

\* and so has a forced format.
LEMMA SelectStep ==
  ASSUME LayoutInv, PhaseInv, ChosenInv, SelectForcedFormat \/ RefuseRequest
  PROVE  LayoutInv'
<1>1. CASE SelectForcedFormat
  <2>1. select_forced_format(req) = Invalid \/ select_forced_format(req).base \in FormatIds
    BY DEF select_forced_format, get_internal_format
  <2> QED
    BY <1>1, <2>1, InfoStep DEF SelectForcedFormat
<1>2. CASE RefuseRequest
  BY <1>2, InfoStep DEF RefuseRequest
<1> QED
  BY <1>1, <1>2

\* The search itself touches nothing of the layout.
LEMMA SearchingStep ==
  ASSUME LayoutInv, StartSearch \/ ConsiderCandidate
  PROVE  LayoutInv'
<1>1. /\ UNCHANGED <<req, layout>> /\ pc \notin LaidOut
      /\ pc' = "search"
  BY DEF StartSearch, ConsiderCandidate, LaidOut
<1> QED
  BY <1>1 DEF LayoutInv, LaidOut, layout

\* TypeFacts, as an implication.
LEMMA TypeDerived ==
  /\ info \in Rows /\ type = get_alloc_type(info, alloc_format, req.usage)
  /\ type # NoType /\ validate_format(info, type, req.height)
  => TypeIs
BY TypeFacts

\* DeriveType gives a type that fits the row.
LEMMA DeriveStep ==
  ASSUME LayoutInv, DeriveType
  PROVE  LayoutInv'
<1>1. (/\ info \in Rows /\ type = get_alloc_type(info, alloc_format, req.usage)
       /\ type # NoType /\ validate_format(info, type, req.height)
       => TypeIs)'
  BY TypeDerived, PTL
<1>2. /\ UNCHANGED <<req, layout, alloc_format, info>> /\ pc = "derive" /\ info \in Rows
      /\ type' = get_alloc_type(info, alloc_format, req.usage)
      /\ pc' \in {"align", "failed"}
      /\ pc' = "align" => type' # NoType /\ validate_format(info, type', req.height)
  BY DEF DeriveType, LayoutInv, chosen
<1>3. pc' = "align" => TypeIs'
  BY <1>1, <1>2 DEF Rows, get_alloc_type, validate_format
<1> QED
  BY <1>2, <1>3 DEF LayoutInv, LaidOut, layout, Rows

\* The last steps change only the size, as PlanesInv says.
LEMMA AfterStep ==
  ASSUME LayoutInv, pc \in LaidOut, UNCHANGED <<req, info, type, dims, plane_info>>,
         UNCHANGED <<pixel_stride, broken>>,
         \/ UNCHANGED <<pc, size>>
         \/ FinishLayout
         \/ set_fixed_buffer_size
  PROVE  LayoutInv'
<1>1. Given /\ PlanesInv
  BY DEF LayoutInv
<1>2. PICK n \in 0..info.npln :
    /\ plane_info \in Seq(Planes) /\ Len(plane_info) = n
    /\ \A p \in 1..n : PlaneIs(p)
    /\ \A a \in broken : \E p \in 1..n :
         a \in BrokenAsserts(p, plane_info[p].w, plane_info[p].stride)
    /\ n > 0 => pixel_stride = IF info.bpp[1] = 0 THEN 0
                               ELSE (plane_info[1].stride * 8) \div info.bpp[1]
    /\ pc = "planes" => size = End(n) /\ size \in Nat
    /\ pc \in {"derived", "done"} => n = info.npln
    /\ pc = "derived" =>
         size = IF req.layers > 1 THEN GRALLOC_ALIGN(End(n), LayerAlign) * req.layers ELSE End(n)
  BY <1>1 DEF PlanesInv
<1>3. n \in Nat
  BY <1>2, <1>1, RowIs DEF Given
<1>4. \A p : Stays(p)
  BY DEF Stays
<1>5. \A p \in 1..n : PlaneIs(p)'
  <2> SUFFICES ASSUME NEW p \in 1..n PROVE PlaneIs(p)'
    OBVIOUS
  <2>1. p \in Nat \ {0} /\ PlaneIs(p)
    BY <1>2, <1>3
  <2> QED
    BY <1>4, <2>1, PlaneStays
<1>6. End(n)' = End(n)
  BY <1>4, EndStays
<1>7. \A p \in 1..n : BrokenAsserts(p, plane_info[p].w, plane_info[p].stride)' =
                      BrokenAsserts(p, plane_info[p].w, plane_info[p].stride)
  BY BrokenStays
<1>8. Planes' = Planes /\ LayerAlign' = LayerAlign
  BY DEF Planes, LayerAlign, Afbc
<1>9. Given' /\ TypeIs'
  BY <1>1 DEF Given, TypeIs, Rows, Afbc
<1>10. /\ pc' \in LaidOut
       /\ pc' = "planes" => size' = End(n) /\ size' \in Nat
       /\ pc' \in {"derived", "done"} => n = info.npln
       /\ pc' = "derived" =>
            size' = IF req.layers > 1 THEN GRALLOC_ALIGN(End(n), LayerAlign) * req.layers ELSE End(n)
  <2>1. CASE UNCHANGED <<pc, size>>
    BY <1>2, <2>1
  <2>2. CASE FinishLayout
    BY <1>2, <2>2 DEF FinishLayout, LayerSize, LaidOut
  <2>3. CASE set_fixed_buffer_size
    BY <1>2, <2>3 DEF set_fixed_buffer_size, LaidOut
  <2> QED
    BY <2>1, <2>2, <2>3
<1>11. PlanesInv'
  BY <1>2, <1>5, <1>6, <1>7, <1>8, <1>10 DEF PlanesInv
<1> QED
  BY <1>1, <1>9, <1>10, <1>11 DEF LayoutInv, LaidOut, Given

\* What CalcPlane makes of plane p.
CalculatedAs(p, start, w, h, s, header) ==
  /\ start \in Nat /\ w \in Nat /\ h \in Nat /\ s \in Nat /\ header \in Nat
  /\ w = get_pixel_w_h(p)[1] /\ h = get_pixel_w_h(p)[2]
  /\ s = byte_stride(p, w)
  /\ start = IF type.type = "AFRC"
             THEN GRALLOC_ALIGN(size, type.align[IF p = 1 THEN 1 ELSE 2]) ELSE size
  /\ header = IF Afbc THEN afbc_buffer_align(((w * h) \div 256) * 16) ELSE 0
  /\ body_size(p, w, h, s) \in Nat
  /\ plane_info' = Append(plane_info, [offset |-> start, w |-> w, h |-> h, stride |-> s])
  /\ size' = start + body_size(p, w, h, s) + header
  /\ broken' = broken \cup BrokenAsserts(p, w, s)
  /\ pixel_stride' = IF p > 1 THEN pixel_stride
                     ELSE IF info.bpp[1] = 0 THEN 0 ELSE (s * 8) \div info.bpp[1]

\* What CalcPlane calculates is numbers, and follows from the planes before it.
LEMMA CalcPlaneIs ==
  ASSUME Given, PlanesInv, CalcPlane,
         NEW n, n = Len(plane_info), NEW p, p = n + 1
  PROVE  \E start, w, h, s, header : CalculatedAs(p, start, w, h, s, header)
<1> DEFINE w == get_pixel_w_h(p)[1]
           h == get_pixel_w_h(p)[2]
           s == byte_stride(p, w)
           start == IF type.type = "AFRC"
                    THEN GRALLOC_ALIGN(size, type.align[IF p = 1 THEN 1 ELSE 2]) ELSE size
           header == IF Afbc THEN afbc_buffer_align(((w * h) \div 256) * 16) ELSE 0
<1>1. /\ pc = "planes" /\ p <= info.npln
      /\ plane_info' = Append(plane_info, [offset |-> start, w |-> w, h |-> h, stride |-> s])
      /\ size' = start + body_size(p, w, h, s) + header
      /\ broken' = broken \cup BrokenAsserts(p, w, s)
      /\ pixel_stride' = IF p > 1 THEN pixel_stride
                         ELSE IF info.bpp[1] = 0 THEN 0 ELSE (s * 8) \div info.bpp[1]
  <2>1. Len(plane_info) + 1 = p
    OBVIOUS
  <2> QED
    BY <2>1 DEF CalcPlane
<1>2. n \in Nat /\ plane_info \in Seq(Planes) /\ size \in Nat
  BY <1>1 DEF PlanesInv
<1>3. p \in Nat /\ p \in 1..info.npln
  BY <1>1, <1>2, RowIs DEF Given
<1>4. p > 1 => plane_info[1] \in Planes
  <2>1. p > 1 => 1 \in DOMAIN plane_info
    BY <1>2, <1>3
  <2> QED
    BY <1>2, <2>1, ElementTyped
<1>5. w \in Nat /\ h \in Nat
  BY <1>3, PixelsCover
<1>6. s \in Nat
  BY <1>3, <1>4, StrideIsNat DEF Planes
<1> HIDE DEF w, h, s
<1>7. body_size(p, w, h, s) \in Nat
  BY <1>3, <1>4, <1>5, <1>6, BodyIsNat DEF Planes
<1>8. start \in Nat
  <2>1. CASE type.type = "AFRC"
    <3>1. PICK a : a = type.align[IF p = 1 THEN 1 ELSE 2]
      OBVIOUS
    <3>2. a \in Nat \ {0}
      <4>1. \A k \in {1, 2} : type.align[k] \in {512, 1024, 2048}
        BY <2>1, AfrcAlignIs
      <4>2. a \in {512, 1024, 2048}
        BY <3>1, <4>1
      <4> QED
        BY <4>2
    <3> QED
      BY <1>2, <2>1, <3>1, <3>2, AlignIs
  <2> QED
    BY <1>2, <2>1
<1>9. header \in Nat
  <2>1. w * h \in Nat
    BY <1>5
  <2>2. (w * h) \div 256 \in Nat
    BY <2>1, DivIsNat
  <2>3. ((w * h) \div 256) * 16 \in Nat
    BY <2>2
  <2> QED
    BY <2>3, AfbcAlignIs
<1>10. /\ w = get_pixel_w_h(p)[1] /\ h = get_pixel_w_h(p)[2] /\ s = byte_stride(p, w)
       /\ start = IF type.type = "AFRC"
                  THEN GRALLOC_ALIGN(size, type.align[IF p = 1 THEN 1 ELSE 2]) ELSE size
       /\ header = IF Afbc THEN afbc_buffer_align(((w * h) \div 256) * 16) ELSE 0
  BY DEF w, h, s
<1> HIDE DEF start, header
<1>11. CalculatedAs(p, start, w, h, s, header)
  BY <1>1, <1>5, <1>6, <1>7, <1>8, <1>9, <1>10 DEF CalculatedAs
<1> QED
  BY <1>11, Zenon

\* Append adds a last element and leaves the others.
LEMMA AppendIs ==
  ASSUME NEW S, NEW q \in Seq(S), NEW x \in S
  PROVE  /\ Append(q, x) \in Seq(S) /\ Len(Append(q, x)) = Len(q) + 1
         /\ Append(q, x)[Len(q) + 1] = x
         /\ \A i \in 1..Len(q) : Append(q, x)[i] = q[i]
OBVIOUS

\* CalcPlane adds a plane calculated from the ones before it.
LEMMA CalcStep ==
  ASSUME LayoutInv, CalcPlane
  PROVE  LayoutInv'
<1>1. /\ UNCHANGED <<req, info, type, dims>> /\ pc = "planes" /\ pc' \in {"planes", "crashed"}
      /\ Given /\ PlanesInv
  BY DEF CalcPlane, LayoutInv, LaidOut, chosen
<1>2. PICK n \in 0..info.npln :
        /\ plane_info \in Seq(Planes) /\ Len(plane_info) = n
        /\ \A p \in 1..n : PlaneIs(p)
        /\ \A a \in broken : \E p \in 1..n :
             a \in BrokenAsserts(p, plane_info[p].w, plane_info[p].stride)
        /\ n > 0 => pixel_stride = IF info.bpp[1] = 0 THEN 0
                                   ELSE (plane_info[1].stride * 8) \div info.bpp[1]
        /\ size = End(n) /\ size \in Nat
  BY <1>1 DEF PlanesInv
<1>3. PICK p : p = n + 1
  OBVIOUS
<1>4. n \in Nat /\ p \in Nat \ {0} /\ p \in 1..info.npln /\ p - 1 = n
  BY <1>1, <1>2, <1>3, RowIs DEF Given, CalcPlane
<1>5. PICK start, w, h, s, header : CalculatedAs(p, start, w, h, s, header)
  <2>1. n = Len(plane_info)
    BY <1>2
  <2> QED
    BY <1>1, <1>3, <2>1, CalcPlaneIs, Zenon
<1>6. /\ start \in Nat /\ w \in Nat /\ h \in Nat /\ s \in Nat /\ header \in Nat
      /\ w = get_pixel_w_h(p)[1] /\ h = get_pixel_w_h(p)[2]
      /\ s = byte_stride(p, w)
      /\ start = IF type.type = "AFRC"
                 THEN GRALLOC_ALIGN(size, type.align[IF p = 1 THEN 1 ELSE 2]) ELSE size
      /\ header = IF Afbc THEN afbc_buffer_align(((w * h) \div 256) * 16) ELSE 0
      /\ body_size(p, w, h, s) \in Nat
      /\ plane_info' = Append(plane_info, [offset |-> start, w |-> w, h |-> h, stride |-> s])
      /\ size' = start + body_size(p, w, h, s) + header
      /\ broken' = broken \cup BrokenAsserts(p, w, s)
      /\ pixel_stride' = IF p > 1 THEN pixel_stride
                         ELSE IF info.bpp[1] = 0 THEN 0 ELSE (s * 8) \div info.bpp[1]
  BY <1>5 DEF CalculatedAs
<1>7. start \in Nat /\ w \in Nat /\ h \in Nat /\ s \in Nat /\ header \in Nat
  BY <1>6
<1>8. /\ plane_info' \in Seq(Planes) /\ Len(plane_info') = p
      /\ plane_info'[p] = [offset |-> start, w |-> w, h |-> h, stride |-> s]
      /\ \A i \in 1..n : plane_info'[i] = plane_info[i]
  <2>1. PICK x : x = [offset |-> start, w |-> w, h |-> h, stride |-> s]
    OBVIOUS
  <2>2. x \in Planes
    BY <1>7, <2>1 DEF Planes
  <2> QED
    <3>1. plane_info' = Append(plane_info, x)
      BY <1>6, <2>1
    <3>2. /\ Append(plane_info, x) \in Seq(Planes) /\ Len(Append(plane_info, x)) = Len(plane_info) + 1
          /\ Append(plane_info, x)[Len(plane_info) + 1] = x
          /\ \A i \in 1..Len(plane_info) : Append(plane_info, x)[i] = plane_info[i]
      BY <1>2, <2>2, AppendIs
    <3> QED
      BY <1>2, <1>3, <2>1, <3>1, <3>2
<1>9. plane_info'[p].w = w /\ plane_info'[p].h = h /\ plane_info'[p].stride = s
      /\ plane_info'[p].offset = start
  BY <1>8
<1>10. p = 1 \/ plane_info'[1] = plane_info[1]
  BY <1>3, <1>4, <1>8
<1>11. \A i \in 1..n : Stays(i)
  BY <1>1, <1>4, <1>8 DEF Stays
<1>12. End(n)' = End(n)
  <2>1. n = 0 \/ Stays(n)
    BY <1>4, <1>11
  <2> QED
    BY <1>1, <2>1, EndStays
<1>13. PlaneIs(p)'
  <2>1. get_pixel_w_h(p)' = get_pixel_w_h(p)
    BY <1>1, PixelsStay
  <2>2. byte_stride(p, plane_info[p].w)' = byte_stride(p, w)
    BY <1>1, <1>9, <1>10, StrideStays
  <2>3. Start(p)' = start
    <3>1. Start(p)' = Start(p)
      BY <1>1, <1>4, <1>12, StartStays
    <3> QED
      BY <1>2, <1>4, <1>6, <3>1 DEF Start
  <2> QED
    BY <1>6, <1>9, <2>1, <2>2, <2>3 DEF PlaneIs
<1>14. \A i \in 1..n : PlaneIs(i)'
  <2> SUFFICES ASSUME NEW i \in 1..n PROVE PlaneIs(i)'
    OBVIOUS
  <2>1. i \in Nat \ {0} /\ PlaneIs(i) /\ Stays(i) /\ (i > 1 => Stays(i - 1))
    BY <1>2, <1>4, <1>11
  <2> QED
    BY <2>1, PlaneStays
<1>15. \A i \in 1..p : PlaneIs(i)'
  BY <1>3, <1>4, <1>13, <1>14
<1>16. BrokenAsserts(p, plane_info[p].w, plane_info[p].stride)' = BrokenAsserts(p, w, s)
  BY <1>1, <1>9, <1>10, BrokenStays
<1>17. \A a \in broken' : \E i \in 1..p :
         a \in BrokenAsserts(i, plane_info[i].w, plane_info[i].stride)'
  <2> SUFFICES ASSUME NEW a \in broken'
               PROVE  \E i \in 1..p :
                        a \in BrokenAsserts(i, plane_info[i].w, plane_info[i].stride)'
    OBVIOUS
  <2>1. CASE a \in BrokenAsserts(p, w, s)
    BY <1>4, <1>16, <2>1
  <2>2. CASE a \in broken
    <3>1. PICK i \in 1..n : a \in BrokenAsserts(i, plane_info[i].w, plane_info[i].stride)
      BY <1>2, <2>2
    <3>2. plane_info'[1] = plane_info[1] /\ plane_info'[i] = plane_info[i]
      BY <1>11 DEF Stays
    <3>3. BrokenAsserts(i, plane_info[i].w, plane_info[i].stride)' =
          BrokenAsserts(i, plane_info[i].w, plane_info[i].stride)
      BY <1>1, <3>2, BrokenStays
    <3> QED
      BY <1>3, <1>4, <3>1, <3>3
  <2> QED
    BY <1>6, <2>1, <2>2
<1>18. pixel_stride' = IF info.bpp[1] = 0 THEN 0
                       ELSE (plane_info'[1].stride * 8) \div info.bpp[1]
  BY <1>2, <1>3, <1>4, <1>6, <1>9, <1>10
<1>19. size' = End(p)' /\ size' \in Nat
  <2>1. Body(p)' = body_size(p, w, h, s) /\ Header(p)' = header
    <3>1. /\ Body(p)' = body_size(p, w, h, s)
          /\ Header(p)' = IF Afbc THEN afbc_buffer_align(((w * h) \div 256) * 16) ELSE 0
      BY <1>1, <1>9, <1>10, BodyStays
    <3> QED
      BY <1>6, <3>1
  <2>2. End(p)' = start + (body_size(p, w, h, s) + header)
    BY <1>4, <1>9, <2>1 DEF End
  <2>3. PICK b \in Nat : b = body_size(p, w, h, s)
    BY <1>6
  <2>4. size' = start + b + header /\ End(p)' = start + (b + header)
    BY <1>6, <2>2, <2>3
  <2> QED
    BY <1>7, <2>3, <2>4
<1>20. Planes' = Planes
  BY DEF Planes
<1>21. PlanesInv'
  <2>1. p \in 0..info.npln
    BY <1>4
  <2> QED
    BY <1>1, <1>8, <1>15, <1>17, <1>18, <1>19, <1>20, <2>1 DEF PlanesInv
<1>22. Given' /\ TypeIs'
  BY <1>1 DEF Given, TypeIs, Rows, Afbc
<1> QED
  BY <1>1, <1>21, <1>22 DEF LayoutInv, LaidOut, Given

\* Every step keeps the invariant.
LEMMA LayoutStep ==
  ASSUME LayoutInv, PhaseInv, ChosenInv, [Next]_vars
  PROVE  LayoutInv'
<1>1. CASE SelectForcedFormat \/ RefuseRequest
  BY <1>1, SelectStep
<1>2. CASE StartSearch \/ ConsiderCandidate
  BY <1>2, SearchingStep
<1>3. CASE ChooseFormat
  BY <1>3, ChooseStep
<1>4. CASE DeriveType
  BY <1>4, DeriveStep
<1>5. CASE AlignDimensions
  BY <1>5, DimsStep
<1>6. CASE CalcPlane
  BY <1>6, CalcStep
<1>7. CASE FinishLayout \/ set_fixed_buffer_size
  BY <1>7, AfterStep DEF FinishLayout, set_fixed_buffer_size, LaidOut, chosen
<1>8. CASE UNCHANGED vars
  <2>1. UNCHANGED <<pc, req, info, type, dims, plane_info, size, pixel_stride, broken>>
    BY <1>8 DEF vars, chosen, layout
  <2>2. CASE pc \in LaidOut
    BY <2>1, <2>2, AfterStep
  <2>3. CASE pc \notin LaidOut
    BY <2>1, <2>3 DEF LayoutInv, LaidOut, TypeIs, Rows, Afbc
  <2> QED
    BY <2>2, <2>3
<1> QED
  BY <1>1, <1>2, <1>3, <1>4, <1>5, <1>6, <1>7, <1>8 DEF Next

\* When a layout is derived, all its planes are calculated.
LEMMA DerivedLayout ==
  ASSUME LayoutInv, pc = "derived"
  PROVE  Derived
<1>1. Given /\ PlanesInv /\ pc \in {"derived", "done"} /\ pc # "planes"
  BY DEF LayoutInv, LaidOut
<1>2. PICK n \in 0..info.npln :
        /\ plane_info \in Seq(Planes) /\ Len(plane_info) = n
        /\ \A p \in 1..n : PlaneIs(p)
        /\ n > 0 => pixel_stride = IF info.bpp[1] = 0 THEN 0
                                   ELSE (plane_info[1].stride * 8) \div info.bpp[1]
        /\ n = info.npln
        /\ size = IF req.layers > 1 THEN GRALLOC_ALIGN(End(n), LayerAlign) * req.layers ELSE End(n)
  BY <1>1 DEF PlanesInv
<1>3. n > 0
  BY <1>1, <1>2, RowIs DEF Given
<1>4. DOMAIN plane_info = 1..n
  BY <1>2
<1> QED
  BY <1>1, <1>2, <1>3, <1>4 DEF Derived, AllPlanes, Planes

\* calc_allocation_size gives every uncompressed buffer rows that hold the requested width,
\* start where hardware and CPU want them, and are counted in whole pixels where they can be,
\* for every request, usage, size and decoder alignment.
THEOREM RowsAreRight == Spec => []RowsFit
<1>1. LayoutInv => RowsFit
  BY DerivedLayout, RowsFitDerived DEF RowsFit
<1> QED
  BY <1>1, PhaseInit, PhaseStep, ChosenInit, ChosenStep, LayoutInit, LayoutStep, PTL DEF Spec

\* update_yv12_stride gives a YV12 buffer that the CPU uses the layout Android fixes for it,
\* whatever the size, and whatever else uses it.
THEOREM Yv12IsAndroids == Spec => []Yv12Layout
<1>1. LayoutInv => Yv12Layout
  BY DerivedLayout, Yv12Derived DEF Yv12Layout
<1> QED
  BY <1>1, PhaseInit, PhaseStep, ChosenInit, ChosenStep, LayoutInit, LayoutStep, PTL DEF Spec

\* calc_allocation_size: every plane of every layer holds the requested image before the next
\* plane or layer starts, for every format, type and size, unless the CPU is on compressed blocks.
THEOREM EveryPlaneFits == Spec => []PlanesFit
<1>1. LayoutInv => PlanesFit
  BY DerivedLayout, PlanesFitDerived DEF PlanesFit
<1> QED
  BY <1>1, PhaseInit, PhaseStep, ChosenInit, ChosenStep, LayoutInit, LayoutStep, PTL DEF Spec

\* calc_allocation_size: the planes of every layer start where their producers and consumers
\* need them, for every number of layers and every size.
THEOREM EveryLayerIsAligned == Spec => []LayersAligned
<1>1. LayoutInv => LayersAligned
  BY DerivedLayout, LayersAlignedDerived DEF LayersAligned
<1> QED
  BY <1>1, PhaseInit, PhaseStep, ChosenInit, ChosenStep, LayoutInit, LayoutStep, PTL DEF Spec

\* An assert that does not hold is one of the known ones of some plane.
LEMMA BrokenAreKnown ==
  ASSUME LayoutInv
  PROVE  AssertsHold
<1>1. CASE pc \notin LaidOut
  BY <1>1 DEF LayoutInv, AssertsHold
<1>2. CASE pc \in LaidOut
  <2>1. Given /\ PlanesInv
    BY <1>2 DEF LayoutInv
  <2>2. PICK n \in 0..info.npln :
          /\ \A p \in 1..n : PlaneIs(p)
          /\ \A a \in broken : \E p \in 1..n :
               a \in BrokenAsserts(p, plane_info[p].w, plane_info[p].stride)
    BY <2>1 DEF PlanesInv
  <2>3. ASSUME NEW a \in broken
        PROVE  /\ a = "pixel_stride" => type.type # "UNCOMPRESSED" \/ ~WholePixels
               /\ a = "zero_bpp" => info.bpp[1] = 0 /\ type.type # "UNCOMPRESSED"
               /\ a \in {"pixel_stride", "zero_bpp"} \/ CpuOnBlocks
    <3>1. PICK p \in 1..n : a \in BrokenAsserts(p, plane_info[p].w, plane_info[p].stride)
      BY <2>2
    <3>2. p \in 1..info.npln /\ PlaneIs(p) /\ PlaneIs(1)
      BY <2>1, <2>2, RowIs DEF Given
    <3>3. PICK br : br = BrokenAsserts(p, plane_info[p].w, plane_info[p].stride)
      OBVIOUS
    <3> QED
      BY <2>1, <3>1, <3>2, <3>3, PlaneAsserts
  <2> QED
    BY <2>3 DEF AssertsHold
<1> QED
  BY <1>1, <1>2

\* The asserts of calc_allocation_size hold for every request, but for the ones named.
THEOREM AssertsAreKept == Spec => []AssertsHold
  BY BrokenAreKnown, PhaseInit, PhaseStep, ChosenInit, ChosenStep, LayoutInit, LayoutStep, PTL
  DEF Spec

=============================================================================
