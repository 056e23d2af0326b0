----------------------------- MODULE Engines_proofs -----------------------------
(***************************************************************************)
(* What the engines promise for any artefact, context, profile, sighting,  *)
(* inventory and CycloneDX document of the schemas.                        *)
(*                                                                         *)
(* A pure engine is asked one question that never changes (QuestionStays), *)
(* so a theorem about it is a lemma about its operators for the inputs the *)
(* assumptions of Engines allow; the lemmas follow the engine's own steps. *)
(* Ingest is a loop: its theorems rest on IngestInv, which says of every   *)
(* finding and of every gap which component it comes from (IngestTraced)   *)
(* and counts the components read so far (IngestCounted).  Without the     *)
(* first, a finding might overwrite another and the counts would not add   *)
(* up.                                                                     *)
(***************************************************************************)
EXTENDS Engines, DependencyGraph_proofs

-----------------------------------------------------------------------------
(* What is asked never changes, and the stateful engines run as they do    *)
(* alone.                                                                  *)

Machines == {[kind |-> "ingest"], [kind |-> "waves"], [kind |-> "inherit"]}
QuestionOK == Pure \/ question \in Machines

LEMMA QuestionStays == EnginesSpec => []QuestionOK
<1>1. EnginesInit => QuestionOK
  BY DEF EnginesInit, QuestionOK, Machines
<1>2. QuestionOK /\ [EnginesNext]_engineVars => QuestionOK'
  BY DEF QuestionOK, Machines, Pure, RiskQuestions, AdviceQuestions, GateQuestions, ComparisonQuestions,
         ExportQuestions, DiffQuestions, engineVars, EnginesNext, Asked, Asking, Assess, Advise, Gate, Compare,
         Export, Diff, Ingest, Plan, Inherit
<1>3. QED
  BY <1>1, <1>2, PTL DEF EnginesSpec

LEMMA IngestRuns == EnginesSpec => IngestSpec
<1>1. EnginesInit => IngestInit
  BY DEF EnginesInit, IngestParked
<1>2. [EnginesNext]_engineVars => [IngestNext]_ingestVars
  BY DEF engineVars, EnginesNext, Asked, Asking, Assess, Advise, Gate, Compare, Export, Diff, Ingest, Plan, Inherit
<1>3. QED
  BY <1>1, <1>2, PTL DEF EnginesSpec, IngestSpec

LEMMA PlanRuns == EnginesSpec => PlanSpec
<1>1. EnginesInit => PlanInit
  BY DEF EnginesInit, PlanParked
<1>2. [EnginesNext]_engineVars => [PlanNext]_planVars
  BY DEF engineVars, EnginesNext, Asked, Asking, Assess, Advise, Gate, Compare, Export, Diff, Ingest, Plan, Inherit
<1>3. QED
  BY <1>1, <1>2, PTL DEF EnginesSpec, PlanSpec

LEMMA InheritRuns == EnginesSpec => InheritSpec
<1>1. EnginesInit => InheritInit
  BY DEF EnginesInit, InheritParked
<1>2. [EnginesNext]_engineVars => [InheritNext]_inheritVars
  BY DEF engineVars, EnginesNext, Asked, Asking, Assess, Advise, Gate, Compare, Export, Diff, Ingest, Plan, Inherit
<1>3. QED
  BY <1>1, <1>2, PTL DEF EnginesSpec, InheritSpec

-----------------------------------------------------------------------------
(* Ingest. *)
(* The component an id, or a gap, comes from is its last entry. *)
KeptFrom(k) ==
  /\ document.components[k].kind = "cryptographic-asset"
  /\ Ingestible(document.components[k], k)
LostAt(k) ==
  /\ document.components[k].kind = "cryptographic-asset"
  /\ ~Ingestible(document.components[k], k)
CryptoBefore(n) == {i \in 1..(n - 1) : document.components[i].kind = "cryptographic-asset"}

IngestTyped ==
  /\ document \in Documents /\ position \in 0..(Len(document.components) + 1)
  /\ position > 0 => Problems(document) = {}
  /\ skipped \in Nat /\ scans \in 1..MaxScans
  /\ IsFiniteSet(DOMAIN artefacts)
  /\ gaps \in Seq(Nat) /\ Len(gaps) <= skipped
IngestTraced ==
  /\ \A id \in DOMAIN artefacts : \E k \in 1..(position - 1) :
       id[5] = k /\ id = artefacts[id].id /\ artefacts[id] = Artefact(document.components[k], k) /\ KeptFrom(k)
  /\ \A i \in DOMAIN gaps : gaps[i] \in 1..(position - 1) /\ LostAt(gaps[i])
IngestCounted ==
  IF position = 0 THEN DOMAIN artefacts = {} /\ skipped = 0 /\ gaps = << >>
  ELSE /\ Cardinality(DOMAIN artefacts) + skipped = position - 1
       /\ Cardinality(DOMAIN artefacts) + Len(gaps) = Cardinality(CryptoBefore(position))
IngestInv == IngestTyped /\ IngestTraced /\ IngestCounted

\* A document of the run is a sequence of components of the schema.
LEMMA ComponentsTyped ==
  ASSUME NEW d \in Documents
  PROVE  /\ d.components \in Seq(ComponentRecords) /\ Len(d.components) \in Nat
         /\ \A k \in 1..Len(d.components) : d.components[k] \in ComponentRecords
<1>1. d.components \in Seq(ComponentRecords)
  BY DocumentsParsed
<1>2. QED
  BY <1>1, LenProperties, ElementOfSeq

(* One more component read. *)
LEMMA CryptoGrows ==
  ASSUME NEW n \in Nat \ {0}
  PROVE  /\ IsFiniteSet(CryptoBefore(n)) /\ Cardinality(CryptoBefore(n)) \in Nat
         /\ document.components[n].kind = "cryptographic-asset"
              => Cardinality(CryptoBefore(n + 1)) = Cardinality(CryptoBefore(n)) + 1
         /\ document.components[n].kind # "cryptographic-asset"
              => Cardinality(CryptoBefore(n + 1)) = Cardinality(CryptoBefore(n))
<1>1. IsFiniteSet(1..(n - 1))
  BY FS_Interval
<1>2. CryptoBefore(n) \subseteq 1..(n - 1)
  BY DEF CryptoBefore
<1>3. IsFiniteSet(CryptoBefore(n)) /\ Cardinality(CryptoBefore(n)) \in Nat
  BY <1>1, <1>2, FS_Subset, FS_CardinalityType
<1>4. CASE document.components[n].kind = "cryptographic-asset"
  <2>1. CryptoBefore(n + 1) = CryptoBefore(n) \cup {n} /\ n \notin CryptoBefore(n)
    BY <1>4 DEF CryptoBefore
  <2>2. QED
    BY <2>1, <1>3, <1>4, FS_AddElement
<1>5. CASE document.components[n].kind # "cryptographic-asset"
  <2>1. CryptoBefore(n + 1) = CryptoBefore(n)
    BY <1>5 DEF CryptoBefore
  <2>2. QED
    BY <2>1, <1>3, <1>5
<1>6. QED
  BY <1>3, <1>4, <1>5

LEMMA IngestInvInit == IngestInit => IngestInv
<1> SUFFICES ASSUME IngestInit PROVE IngestInv
  OBVIOUS
<1>1. Len(document.components) \in Nat
  BY ComponentsTyped DEF IngestInit
<1>2. IngestTyped
  BY <1>1, FS_EmptySet, ScansBounded DEF IngestInit, IngestTyped
<1>3. QED
  BY <1>2 DEF IngestInit, IngestInv, IngestTraced, IngestCounted

LEMMA IdentityOf ==
  ASSUME NEW c, NEW k, Ingestible(c, k)
  PROVE  /\ DOMAIN BuildEvidence(c) # {}
         /\ Artefact(c, k).id =
              <<AssetTypeFromWire(c.wire, c.hint), c.name, First(BuildEvidence(c)).path,
                First(BuildEvidence(c)).line, k>>
<1>1. DOMAIN BuildEvidence(c) # {}
  BY DEF Ingestible, ArtefactAccepted, Artefact
<1>2. QED
  BY <1>1 DEF Artefact, ComputeArtefactId

\* A kept component adds one finding under an id nobody has.
LEMMA KeepArtefactKeepsInv == IngestInv /\ KeepArtefact => IngestInv'
<1> SUFFICES ASSUME IngestInv, KeepArtefact PROVE IngestInv'
  OBVIOUS
<1> DEFINE a == Artefact(document.components[position], position)
<1>0. /\ document' = document /\ position' = position + 1 /\ skipped' = skipped /\ gaps' = gaps /\ scans' = scans
      /\ KeptFrom(position) /\ position \in Nat \ {0} /\ position < Len(document.components) + 1
      /\ Len(document.components) \in Nat /\ document \in Documents
  BY ComponentsTyped DEF KeepArtefact, KeptFrom, Reading, Done, Current, IngestInv, IngestTyped
<1>1. a.id = <<AssetTypeFromWire(document.components[position].wire, document.components[position].hint),
              document.components[position].name,
              First(BuildEvidence(document.components[position])).path,
              First(BuildEvidence(document.components[position])).line, position>>
  BY <1>0, IdentityOf DEF KeptFrom
<1>2. a.id[5] = position
  BY <1>1
<1>3. a.id \notin DOMAIN artefacts
  BY <1>2, <1>0 DEF IngestInv, IngestTraced
<1>4. artefacts' = [id \in DOMAIN artefacts \cup {a.id} |-> IF id = a.id THEN a ELSE artefacts[id]]
  BY <1>3 DEF KeepArtefact, Current
<1>5. DOMAIN artefacts' = DOMAIN artefacts \cup {a.id}
  BY <1>4
<1>6. IsFiniteSet(DOMAIN artefacts') /\ Cardinality(DOMAIN artefacts') = Cardinality(DOMAIN artefacts) + 1
      /\ Cardinality(DOMAIN artefacts) \in Nat
  <2>1. IsFiniteSet(DOMAIN artefacts)
    BY DEF IngestInv, IngestTyped
  <2>2. /\ IsFiniteSet(DOMAIN artefacts \cup {a.id})
        /\ Cardinality(DOMAIN artefacts \cup {a.id}) = Cardinality(DOMAIN artefacts) + 1
        /\ Cardinality(DOMAIN artefacts) \in Nat
    BY <1>3, <2>1, FS_AddElement, FS_CardinalityType
  <2>3. QED
    BY <1>5, <2>2
<1>7. IngestTyped'
  BY <1>0, <1>6 DEF IngestInv, IngestTyped, Problems
<1>8. \A k : KeptFrom(k)' = KeptFrom(k) /\ LostAt(k)' = LostAt(k)
  BY <1>0 DEF KeptFrom, LostAt
<1>9. IngestTraced'
  <2>1. ASSUME NEW id \in DOMAIN artefacts'
        PROVE \E k \in 1..(position' - 1) :
                /\ id[5] = k /\ id = artefacts'[id].id /\ KeptFrom(k)
                /\ artefacts'[id] = Artefact(document.components[k], k)
    <3>1. CASE id = a.id
      BY <3>1, <1>0, <1>2, <1>4
    <3>2. CASE id # a.id
      <4>1. id \in DOMAIN artefacts /\ artefacts'[id] = artefacts[id]
        BY <3>2, <2>1, <1>4, <1>5
      <4>2. QED
        BY <4>1, <1>0 DEF IngestInv, IngestTraced
    <3>3. QED
      BY <3>1, <3>2
  <2>2. QED
    BY <2>1, <1>8, <1>0 DEF IngestInv, IngestTraced
<1>10. CryptoBefore(position)' = CryptoBefore(position + 1)
  BY <1>0 DEF CryptoBefore
<1>11. Cardinality(CryptoBefore(position + 1)) = Cardinality(CryptoBefore(position)) + 1
       /\ Cardinality(CryptoBefore(position)) \in Nat
  BY <1>0, CryptoGrows DEF KeptFrom
<1>12. Len(gaps) \in Nat /\ skipped \in Nat
  BY DEF IngestInv, IngestTyped
<1>13. IngestCounted'
  <2>1. Cardinality(DOMAIN artefacts) + skipped = position - 1
        /\ Cardinality(DOMAIN artefacts) + Len(gaps) = Cardinality(CryptoBefore(position))
    BY <1>0 DEF IngestInv, IngestCounted
  <2>2. Cardinality(DOMAIN artefacts') + skipped' = position' - 1 /\ position' # 0
    BY <2>1, <1>0, <1>6, <1>12
  <2>3. Cardinality(DOMAIN artefacts') + Len(gaps') = Cardinality(CryptoBefore(position + 1))
    BY <2>1, <1>0, <1>6, <1>11, <1>12
  <2>4. QED
    BY <2>2, <2>3, <1>10 DEF IngestCounted
<1>14. QED
  BY <1>7, <1>9, <1>13 DEF IngestInv

\* A component that is no cryptographic asset is counted and nothing else.
LEMMA SkipComponentKeepsInv == IngestInv /\ SkipComponent => IngestInv'
<1> SUFFICES ASSUME IngestInv, SkipComponent PROVE IngestInv'
  OBVIOUS
<1>0. /\ document' = document /\ position' = position + 1 /\ skipped' = skipped + 1 /\ gaps' = gaps /\ scans' = scans
      /\ artefacts' = artefacts
      /\ position \in Nat \ {0} /\ position < Len(document.components) + 1
      /\ Len(document.components) \in Nat /\ document \in Documents
      /\ document.components[position].kind # "cryptographic-asset"
  BY ComponentsTyped DEF SkipComponent, Reading, Done, Current, IngestInv, IngestTyped
<1>1. Len(gaps) \in Nat /\ skipped \in Nat /\ Cardinality(DOMAIN artefacts) \in Nat
  BY FS_CardinalityType DEF IngestInv, IngestTyped
<1>2. IngestTyped'
  BY <1>0, <1>1 DEF IngestInv, IngestTyped, Problems
<1>3. \A k : KeptFrom(k)' = KeptFrom(k) /\ LostAt(k)' = LostAt(k)
  BY <1>0 DEF KeptFrom, LostAt
<1>4. 1..(position - 1) \subseteq 1..(position' - 1)
  BY <1>0
<1>5. IngestTraced'
  BY <1>0, <1>3, <1>4 DEF IngestInv, IngestTraced
<1>6. CryptoBefore(position)' = CryptoBefore(position + 1)
  BY <1>0 DEF CryptoBefore
<1>7. Cardinality(CryptoBefore(position + 1)) = Cardinality(CryptoBefore(position))
  BY <1>0, CryptoGrows
<1>8. IngestCounted'
  BY <1>0, <1>1, <1>6, <1>7 DEF IngestInv, IngestCounted
<1>9. QED
  BY <1>2, <1>5, <1>8 DEF IngestInv

\* A refused component is counted and named among the gaps.
LEMMA RecordGapKeepsInv == IngestInv /\ RecordGap => IngestInv'
<1> SUFFICES ASSUME IngestInv, RecordGap PROVE IngestInv'
  OBVIOUS
<1>0. /\ document' = document /\ position' = position + 1 /\ skipped' = skipped + 1 /\ scans' = scans
      /\ artefacts' = artefacts /\ gaps' = Append(gaps, position)
      /\ position \in Nat \ {0} /\ position < Len(document.components) + 1
      /\ Len(document.components) \in Nat /\ document \in Documents
      /\ LostAt(position)
  BY ComponentsTyped DEF RecordGap, Reading, Done, Current, IngestInv, IngestTyped, LostAt
<1>1. Len(gaps) \in Nat /\ skipped \in Nat /\ Cardinality(DOMAIN artefacts) \in Nat /\ gaps \in Seq(Nat)
  BY FS_CardinalityType DEF IngestInv, IngestTyped
<1>2. gaps' \in Seq(Nat) /\ Len(gaps') = Len(gaps) + 1
      /\ \A i \in DOMAIN gaps' : gaps'[i] = IF i = Len(gaps) + 1 THEN position ELSE gaps[i]
  BY <1>0, <1>1, AppendProperties
<1>3. IngestTyped'
  BY <1>0, <1>1, <1>2 DEF IngestInv, IngestTyped, Problems
<1>4. \A k : KeptFrom(k)' = KeptFrom(k) /\ LostAt(k)' = LostAt(k)
  BY <1>0 DEF KeptFrom, LostAt
<1>5. 1..(position - 1) \subseteq 1..(position' - 1) /\ position \in 1..(position' - 1)
  BY <1>0
<1>6. \A i \in DOMAIN gaps' : gaps'[i] \in 1..(position' - 1) /\ LostAt(gaps'[i])
  <2>1. \A i \in DOMAIN gaps' : i = Len(gaps) + 1 \/ i \in DOMAIN gaps
    BY <1>1, <1>2
  <2>2. QED
    BY <2>1, <1>0, <1>2, <1>5 DEF IngestInv, IngestTraced
<1>7. IngestTraced'
  BY <1>0, <1>4, <1>5, <1>6 DEF IngestInv, IngestTraced
<1>8. CryptoBefore(position)' = CryptoBefore(position + 1)
  BY <1>0 DEF CryptoBefore
<1>9. Cardinality(CryptoBefore(position + 1)) = Cardinality(CryptoBefore(position)) + 1
      /\ Cardinality(CryptoBefore(position)) \in Nat
  BY <1>0, CryptoGrows DEF LostAt
<1>10. IngestCounted'
  <2>1. Cardinality(DOMAIN artefacts) + skipped = position - 1
        /\ Cardinality(DOMAIN artefacts) + Len(gaps) = Cardinality(CryptoBefore(position))
    BY <1>0 DEF IngestInv, IngestCounted
  <2>2. Cardinality(DOMAIN artefacts') + skipped' = position' - 1 /\ position' # 0
    BY <2>1, <1>0, <1>1
  <2>3. Cardinality(DOMAIN artefacts') + Len(gaps') = Cardinality(CryptoBefore(position + 1))
    BY <2>1, <1>0, <1>1, <1>2, <1>9
  <2>4. QED
    BY <2>2, <2>3, <1>8 DEF IngestCounted
<1>11. QED
  BY <1>3, <1>7, <1>10 DEF IngestInv

\* Reading starts with nothing found.
LEMMA ValidateDocumentKeepsInv == IngestInv /\ ValidateDocument => IngestInv'
<1> SUFFICES ASSUME IngestInv, ValidateDocument PROVE IngestInv'
  OBVIOUS
<1>0. /\ document' = document /\ position = 0 /\ position' = 1 /\ skipped' = skipped /\ gaps' = gaps /\ scans' = scans
      /\ artefacts' = artefacts /\ Len(document.components) \in Nat /\ document \in Documents
      /\ Problems(document) = {} /\ DOMAIN artefacts = {} /\ gaps = << >> /\ skipped = 0
  BY ComponentsTyped DEF ValidateDocument, IngestInv, IngestTyped, IngestCounted
<1>1. IngestTyped'
  BY <1>0 DEF IngestInv, IngestTyped, Problems
<1>2. CryptoBefore(position)' = {}
  BY <1>0 DEF CryptoBefore
<1>3. IngestCounted'
  BY <1>0, <1>2, FS_EmptySet DEF IngestCounted
<1>4. IngestTraced'
  BY <1>0 DEF IngestTraced
<1>5. QED
  BY <1>1, <1>3, <1>4 DEF IngestInv

\* A later scan of the target starts over with its own document.
LEMMA RescanTargetKeepsInv == IngestInv /\ RescanTarget => IngestInv'
<1> SUFFICES ASSUME IngestInv, RescanTarget PROVE IngestInv'
  OBVIOUS
<1>1. Len(document'.components) \in Nat
  BY ComponentsTyped DEF RescanTarget
<1>2. IngestTyped'
  BY <1>1, FS_EmptySet, ScansBounded DEF RescanTarget, IngestInv, IngestTyped
<1>3. QED
  BY <1>2 DEF RescanTarget, IngestInv, IngestTraced, IngestCounted

LEMMA IngestInvHolds == IngestSpec => []IngestInv
<1>1. ASSUME IngestInv, [IngestNext]_ingestVars PROVE IngestInv'
  <2>1. CASE UNCHANGED ingestVars
    BY <1>1, <2>1 DEF ingestVars, IngestInv, IngestTyped, IngestTraced, IngestCounted, KeptFrom, LostAt, CryptoBefore
  <2>2. QED
    BY <1>1, <2>1, KeepArtefactKeepsInv, SkipComponentKeepsInv, RecordGapKeepsInv, ValidateDocumentKeepsInv,
       RescanTargetKeepsInv DEF IngestNext
<1>2. QED
  BY <1>1, IngestInvInit, PTL DEF IngestSpec

-----------------------------------------------------------------------------
LEMMA WholeNumbersPass ==
  ASSUME NEW n \in Int
  PROVE  /\ PositiveInt(n) \in (Nat \ {0}) \cup {Absent}
         /\ PositiveInt(PositiveInt(n)) = PositiveInt(n)
  BY DEF PositiveInt, Absent

LEMMA EvidenceOf ==
  ASSUME NEW c \in ComponentRecords
  PROVE  /\ DOMAIN BuildEvidence(c) = Located(c)
         /\ \A i \in Located(c) :
              /\ i \in DOMAIN c.places /\ c.places[i] \in Occurrence
              /\ BuildEvidence(c)[i].path = c.places[i].path
              /\ BuildEvidence(c)[i].line = PositiveInt(c.places[i].line)
              /\ c.places[i].line \in Int
<1>1. c.places \in Seq(Occurrence)
  BY DEF ComponentRecords
<1>2. \A i \in DOMAIN c.places : c.places[i] \in Occurrence
  BY <1>1, ElementOfSeq, LenProperties
<1>3. QED
  BY <1>2 DEF BuildEvidence, Located, Occurrence

LEMMA KnownTypes == \A w, h : AssetTypeFromWire(w, h) \in AssetTypes
  BY DEF AssetTypeFromWire, AssetTypes

LEMMA IngestTypesFollow == IngestInv => IngestTypeOK
<1> SUFFICES ASSUME IngestInv PROVE IngestTypeOK
  OBVIOUS
<1>1. ASSUME NEW id \in DOMAIN artefacts
      PROVE  /\ artefacts[id].type \in AssetTypes /\ id = artefacts[id].id
             /\ \A i \in DOMAIN artefacts[id].evidence :
                  artefacts[id].evidence[i].line \in (Nat \ {0}) \cup {Absent}
  <2>1. PICK k \in 1..(position - 1) :
          id = artefacts[id].id /\ artefacts[id] = Artefact(document.components[k], k)
    BY DEF IngestInv, IngestTraced
  <2>2. document.components[k] \in ComponentRecords
    BY ComponentsTyped DEF IngestInv, IngestTyped
  <2>3. artefacts[id].evidence = BuildEvidence(document.components[k])
        /\ artefacts[id].type = AssetTypeFromWire(document.components[k].wire, document.components[k].hint)
    BY <2>1 DEF Artefact
  <2>4. QED
    BY <2>1, <2>2, <2>3, EvidenceOf, WholeNumbersPass, KnownTypes
<1>2. QED
  BY <1>1 DEF IngestInv, IngestTyped, IngestTypeOK

LEMMA NothingIsDropped == IngestInv => NothingDroppedSilently
<1> SUFFICES ASSUME IngestInv, position > 0 PROVE NothingDroppedSilently
  BY DEF NothingDroppedSilently
<1>1. position \in Nat
  BY ComponentsTyped DEF IngestInv, IngestTyped
<1>2. Cardinality(1..(position - 1)) = position - 1
  BY <1>1, FS_Interval
<1>3. QED
  BY <1>1, <1>2 DEF IngestInv, IngestCounted, NothingDroppedSilently, CryptoBefore

\* BuildDetail gives a detail of the asset's own type, or none.
LEMMA DetailFits ==
  ASSUME NEW t, NEW c
  PROVE  BuildDetail(t, c).type \in {"none", t}
         /\ (BuildDetail(t, c).type = "certificate" => BuildDetail(t, c).validity = c.validity)
<1>1. NoDetail.type = "none"
  BY DEF NoDetail
<1>2. AlgorithmDetail(c).type \in {"none", "algorithm"}
  BY <1>1 DEF AlgorithmDetail
<1>3. KeyDetail(c).type \in {"none", "key"}
  BY <1>1 DEF KeyDetail
<1>4. CertificateDetail(c).type = "certificate" /\ CertificateDetail(c).validity = c.validity
  BY DEF CertificateDetail
<1>5. ProtocolDetail(c).type = "protocol"
  BY DEF ProtocolDetail
<1>6. CloudServiceDetail(c).type \in {"none", "cloud_service"}
  BY <1>1 DEF CloudServiceDetail
<1>7. HardwareModuleDetail(c).type = "none"
  BY <1>1 DEF HardwareModuleDetail
<1>8. /\ t = "algorithm" => BuildDetail(t, c) = AlgorithmDetail(c)
      /\ t = "key" => BuildDetail(t, c) = KeyDetail(c)
      /\ t = "certificate" => BuildDetail(t, c) = CertificateDetail(c)
      /\ t = "protocol" => BuildDetail(t, c) = ProtocolDetail(c)
      /\ t = "cloud_service" => BuildDetail(t, c) = CloudServiceDetail(c)
      /\ t = "hardware_module" => BuildDetail(t, c) = HardwareModuleDetail(c)
      /\ t = "library" => BuildDetail(t, c).type = "library"
      /\ t \notin {"algorithm", "key", "certificate", "protocol", "cloud_service", "hardware_module", "library"}
           => BuildDetail(t, c) = NoDetail
  BY DEF BuildDetail
<1>9. QED
  BY <1>1, <1>2, <1>3, <1>4, <1>5, <1>6, <1>7, <1>8

\* A detail that holds its parameter set holds it as a text, if the component gave it as one.
LEMMA DetailQuoted ==
  ASSUME NEW t, NEW c, c.quoted \/ t \notin {"algorithm", "protocol", "cloud_service"},
         BuildDetail(t, c).type \in {"algorithm", "protocol", "cloud_service"}
  PROVE  BuildDetail(t, c).quoted
<1>1. BuildDetail(t, c).type \in {"none", t}
  BY DetailFits
<1>2. c.quoted /\ t \in {"algorithm", "protocol", "cloud_service"} /\ BuildDetail(t, c).type = t
  BY <1>1
<1>3. CASE t = "algorithm"
  <2>1. BuildDetail(t, c) = AlgorithmDetail(c)
    BY <1>3 DEF BuildDetail
  <2>2. AlgorithmDetail(c) # NoDetail
    BY <2>1, <1>2, <1>3 DEF NoDetail
  <2>3. AlgorithmDetail(c).quoted = (KeptParameterSet(c) = Absent \/ c.quoted)
    BY <2>2 DEF AlgorithmDetail
  <2>4. QED
    BY <2>1, <2>3, <1>2, Zenon
<1>4. CASE t = "protocol"
  BY <1>2, <1>4 DEF BuildDetail, ProtocolDetail
<1>5. CASE t = "cloud_service"
  <2>1. BuildDetail(t, c) = CloudServiceDetail(c)
    BY <1>5 DEF BuildDetail
  <2>2. CloudServiceDetail(c) # NoDetail
    BY <2>1, <1>2, <1>5 DEF NoDetail
  <2>3. CloudServiceDetail(c).quoted = (c.parameterSet = Absent \/ c.quoted)
    BY <2>2 DEF CloudServiceDetail
  <2>4. QED
    BY <2>1, <2>3, <1>2, Zenon
<1>6. QED
  BY <1>2, <1>3, <1>4, <1>5

\* What makes a named component with a relative location a gap all the same.
IllDated(c) == c.validity \in {"inverted", "incomparable"}
HeldUnquoted(c) ==
  ~c.quoted /\ AssetTypeFromWire(c.wire, c.hint) \in {"algorithm", "protocol", "cloud_service"}

\* No validator refuses a named, located, well dated component with relative paths.
LEMMA SoundComponentIsAccepted ==
  ASSUME NEW c \in ComponentRecords, NEW k, c.name # "", Located(c) # {}, ~IllDated(c), ~HeldUnquoted(c),
         \A j \in Located(c) : ~AbsolutePath(c.places[j].path)
  PROVE  Ingestible(c, k)
<1> DEFINE t == AssetTypeFromWire(c.wire, c.hint)
<1>1. /\ Artefact(c, k).evidence = BuildEvidence(c) /\ Artefact(c, k).type = t
      /\ Artefact(c, k).algorithm = AlgorithmOf(t, c) /\ Artefact(c, k).detail = BuildDetail(t, c)
  BY DEF Artefact
<1> HIDE DEF t
<1> DEFINE a == Artefact(c, k)
<1> HIDE DEF a
<1>2. DOMAIN a.evidence # {} /\ \A i \in DOMAIN a.evidence : ~AbsolutePath(a.evidence[i].path)
  BY <1>1, EvidenceOf DEF a
<1>3. a.type = "library" => a.algorithm = "none"
  BY <1>1 DEF AlgorithmOf, a
<1>4. /\ a.detail.type \in {"none", a.type}
      /\ a.detail.type = "certificate" => a.detail.validity \notin {"inverted", "incomparable"}
  <2>1. a.detail = BuildDetail(t, c) /\ a.type = t
    BY <1>1 DEF a
  <2>2. BuildDetail(t, c).type \in {"none", t}
        /\ (BuildDetail(t, c).type = "certificate" => BuildDetail(t, c).validity = c.validity)
    BY ONLY DetailFits
  <2>3. QED
    BY <2>1, <2>2 DEF IllDated
<1>5. a.detail.type \in {"algorithm", "protocol", "cloud_service"} => a.detail.quoted
  <2>1. a.detail = BuildDetail(t, c) /\ (c.quoted \/ t \notin {"algorithm", "protocol", "cloud_service"})
    BY <1>1 DEF a, HeldUnquoted, t
  <2>2. QED
    BY <2>1, DetailQuoted
<1>6. ArtefactAccepted(a)
  BY <1>2, <1>3, <1>4, <1>5 DEF ArtefactAccepted
<1>7. QED
  BY <1>6 DEF Ingestible, a

LEMMA SoundOnesSurvive == IngestInv => SoundComponentsSurvive
<1> SUFFICES ASSUME IngestInv, NEW i \in DOMAIN gaps
             PROVE  LET c == document.components[gaps[i]]
                    IN \/ c.name = "" \/ Located(c) = {} \/ IllDated(c) \/ HeldUnquoted(c)
                       \/ \E j \in DOMAIN c.places : AbsolutePath(c.places[j].path)
  BY DEF SoundComponentsSurvive, IllDated, HeldUnquoted
<1> DEFINE c == document.components[gaps[i]]
<1>1. ~Ingestible(c, gaps[i]) /\ gaps[i] \in 1..(position - 1)
  BY DEF IngestInv, IngestTraced, LostAt
<1>2. c \in ComponentRecords
  BY <1>1, ComponentsTyped DEF IngestInv, IngestTyped
<1> HIDE DEF c
<1>3. \A j \in Located(c) : j \in DOMAIN c.places
  BY <1>2, EvidenceOf
<1>4. c.name = "" \/ Located(c) = {} \/ IllDated(c) \/ HeldUnquoted(c)
      \/ \E j \in DOMAIN c.places : AbsolutePath(c.places[j].path)
  BY <1>1, <1>2, <1>3, SoundComponentIsAccepted
<1>5. QED
  BY <1>4 DEF c

LEMMA WireTypesRoundTrip ==
  ASSUME NEW t \in AssetTypes
  PROVE  AssetTypeFromWire(WireType(t), ExportedHint(t)) = t
  BY DEF AssetTypes, AssetTypeFromWire, WireType, ExportedHint, NeedsHint

\* The one number of an algorithm that is exported, and what it is read back as.
LEMMA AlgorithmDetailReturns ==
  ASSUME NEW c \in ComponentRecords, NEW e, AlgorithmDetail(c).type = "algorithm",
         e.keySize = Absent, e.parameterSet = ExportedParameterSet(AlgorithmDetail(c)),
         e.mode = AlgorithmDetail(c).mode
  PROVE  LET d == AlgorithmDetail(c)  f == AlgorithmDetail(e)
         IN /\ f.type = "algorithm" /\ f.mode = d.mode
            /\ FirstKnown(f.set, f.size) = FirstKnown(d.set, d.size)
            /\ d.set = Absent => f.size = d.size
<1> DEFINE n == FirstKnown(KeptParameterSet(c), KeySize(c))
<1>1. c.keySize \in Int /\ c.parameterSet \in Int
  BY DEF ComponentRecords
<1>2. KeySize(c) \in (Nat \ {0}) \cup {Absent} /\ KeptParameterSet(c) \in Int
  BY <1>1, WholeNumbersPass DEF KeySize, FirstKnown, KeptParameterSet, Absent
<1>3. /\ AlgorithmDetail(c).size = KeySize(c) /\ AlgorithmDetail(c).set = KeptParameterSet(c)
      /\ AlgorithmDetail(c).mode = c.mode /\ (n # Absent \/ c.mode # "none")
  BY DEF AlgorithmDetail, NoDetail, FirstKnown
<1>4. e.parameterSet = n /\ e.mode = c.mode /\ n \in Int
  BY <1>2, <1>3 DEF ExportedParameterSet, FirstKnown
<1>5. PositiveInt(e.keySize) = Absent
  BY DEF PositiveInt, Absent
<1>6. KeySize(e) = PositiveInt(n) /\ KeptParameterSet(e) = IF PositiveInt(n) # Absent THEN Absent ELSE n
  BY <1>4, <1>5 DEF KeySize, FirstKnown, KeptParameterSet, SetIsTheKeySize
<1>7. PositiveInt(n) # Absent => PositiveInt(n) = n
  BY DEF PositiveInt
<1>8. FirstKnown(KeptParameterSet(e), KeySize(e)) = n
  BY <1>6, <1>7 DEF FirstKnown
<1>9. KeptParameterSet(c) = Absent => KeySize(e) = KeySize(c)
  BY <1>2, <1>6 DEF FirstKnown, PositiveInt, Absent
<1> HIDE DEF n
<1>10. KeySize(e) # Absent \/ KeptParameterSet(e) # Absent \/ e.mode # "none"
  BY <1>3, <1>4, <1>8 DEF FirstKnown
<1>11. /\ AlgorithmDetail(e).type = "algorithm" /\ AlgorithmDetail(e).mode = e.mode
       /\ AlgorithmDetail(e).size = KeySize(e) /\ AlgorithmDetail(e).set = KeptParameterSet(e)
  BY <1>10 DEF AlgorithmDetail
<1>12. QED
  BY <1>3, <1>4, <1>8, <1>9, <1>11 DEF n

\* Writing a finding as a component and reading it back gives the finding.
LEMMA ReexportKeeps ==
  ASSUME NEW c \in ComponentRecords, NEW k, Ingestible(c, k)
  PROVE  LET a == Artefact(c, k)
             b == Artefact(ExportComponent(a), 1)
         IN /\ ArtefactAccepted(b)
            /\ <<b.type, b.name, b.algorithm, b.primitive>> = <<a.type, a.name, a.algorithm, a.primitive>>
            /\ ExportedOccurrences(b) = ExportedOccurrences(a)
            /\ a.detail.type = "algorithm" =>
                 /\ b.detail.type = "algorithm" /\ b.detail.mode = a.detail.mode
                 /\ FirstKnown(b.detail.set, b.detail.size) = FirstKnown(a.detail.set, a.detail.size)
                 /\ a.detail.set = Absent => b.detail.size = a.detail.size
<1> DEFINE a == Artefact(c, k)
           e == ExportComponent(a)
           b == Artefact(e, 1)
           t == AssetTypeFromWire(c.wire, c.hint)
<1>1. /\ a.type = t /\ a.name = c.name /\ a.algorithm = AlgorithmOf(t, c) /\ a.primitive = c.primitive
      /\ a.detail = BuildDetail(t, c) /\ a.evidence = BuildEvidence(c)
  BY DEF Artefact
<1>2. /\ e.name = a.name /\ e.wire = WireType(a.type) /\ e.hint = ExportedHint(a.type)
      /\ e.algorithm = a.algorithm /\ e.primitive = a.primitive /\ e.keySize = Absent
      /\ e.parameterSet = ExportedParameterSet(a.detail) /\ e.validity = "none" /\ e.quoted
      /\ e.mode = (IF a.detail.type = "algorithm" THEN a.detail.mode ELSE "none")
      /\ e.places = ExportedOccurrences(a)
  BY DEF ExportComponent
<1>3. AssetTypeFromWire(e.wire, e.hint) = t
  BY <1>1, <1>2, KnownTypes, WireTypesRoundTrip
<1>4. /\ b.type = t /\ b.name = e.name /\ b.algorithm = AlgorithmOf(t, e) /\ b.primitive = e.primitive
      /\ b.detail = BuildDetail(t, e) /\ b.evidence = BuildEvidence(e)
  BY <1>3 DEF Artefact
<1>5. ArtefactAccepted(a)
  BY DEF Ingestible
<1> HIDE DEF a, b, e, t
<1>6. DOMAIN e.places = Located(c)
      /\ \A i \in Located(c) : /\ e.places[i].path = c.places[i].path
                               /\ e.places[i].line = PositiveInt(c.places[i].line)
  BY <1>1, <1>2, EvidenceOf DEF ExportedOccurrences
<1>7. Located(e) = Located(c)
  BY <1>6 DEF Located
<1>8. DOMAIN b.evidence = Located(c)
      /\ \A i \in Located(c) : /\ b.evidence[i].path = a.evidence[i].path
                               /\ b.evidence[i].line = a.evidence[i].line
  <2>1. DOMAIN b.evidence = Located(c)
        /\ \A i \in Located(c) : /\ b.evidence[i].path = e.places[i].path
                                 /\ b.evidence[i].line = PositiveInt(e.places[i].line)
    BY <1>4, <1>7 DEF BuildEvidence
  <2>2. QED
    BY <2>1, <1>1, <1>6, EvidenceOf, WholeNumbersPass
<1>9. DOMAIN a.evidence = Located(c)
  BY <1>1, EvidenceOf
<1>10. ExportedOccurrences(b) = ExportedOccurrences(a)
  BY <1>8, <1>9 DEF ExportedOccurrences
<1>11. b.algorithm = a.algorithm
  <2>1. CASE t = "library"
    BY <2>1, <1>1, <1>4 DEF AlgorithmOf
  <2>2. CASE t # "library"
    BY <2>2, <1>1, <1>2, <1>4 DEF AlgorithmOf, ResolveAlgorithm
  <2>3. QED
    BY <2>1, <2>2
<1>12. ArtefactAccepted(b)
  <2>1. b.detail.type \in {"none", t} /\ (b.detail.type = "certificate" => b.detail.validity = "none")
    BY <1>2, <1>4, DetailFits
  <2>2. b.detail.type \in {"algorithm", "protocol", "cloud_service"} => b.detail.quoted
    BY <1>2, <1>4, DetailQuoted
  <2>3. QED
    BY <2>1, <2>2, <1>1, <1>4, <1>5, <1>8, <1>9, <1>11 DEF ArtefactAccepted
<1>13. ASSUME a.detail.type = "algorithm"
       PROVE  /\ b.detail.type = "algorithm" /\ b.detail.mode = a.detail.mode
              /\ FirstKnown(b.detail.set, b.detail.size) = FirstKnown(a.detail.set, a.detail.size)
              /\ a.detail.set = Absent => b.detail.size = a.detail.size
  <2>1. t = "algorithm"
    BY <1>13, <1>1, DetailFits
  <2>2. a.detail = AlgorithmDetail(c) /\ b.detail = AlgorithmDetail(e)
    BY <2>1, <1>1, <1>4 DEF BuildDetail
  <2>3. QED
    BY <2>2, <1>2, <1>13, AlgorithmDetailReturns
<1>14. QED
  BY <1>1, <1>2, <1>4, <1>10, <1>11, <1>12, <1>13 DEF a, b, e

LEMMA ReexportsFollow == IngestInv => ReexportKeepsTheFinding
<1> SUFFICES ASSUME IngestInv, NEW id \in DOMAIN artefacts
             PROVE  LET a == artefacts[id]
                        b == Artefact(ExportComponent(a), 1)
                    IN /\ ArtefactAccepted(b)
                       /\ <<b.type, b.name, b.algorithm, b.primitive>> = <<a.type, a.name, a.algorithm, a.primitive>>
                       /\ ExportedOccurrences(b) = ExportedOccurrences(a)
                       /\ a.detail.type = "algorithm" =>
                            /\ b.detail.type = "algorithm" /\ b.detail.mode = a.detail.mode
                            /\ FirstKnown(b.detail.set, b.detail.size) = FirstKnown(a.detail.set, a.detail.size)
                            /\ a.detail.set = Absent => b.detail.size = a.detail.size
  BY DEF ReexportKeepsTheFinding
<1>1. PICK k \in 1..(position - 1) :
        artefacts[id] = Artefact(document.components[k], k) /\ Ingestible(document.components[k], k)
  BY DEF IngestInv, IngestTraced, KeptFrom
<1>2. document.components[k] \in ComponentRecords
  BY ComponentsTyped DEF IngestInv, IngestTyped
<1>3. QED
  BY <1>1, <1>2, ReexportKeeps

-----------------------------------------------------------------------------
(* Least and greatest numbers. *)
Below == {p \in Nat \X Nat : p[1] < p[2]}

LEMMA LeastNat ==
  ASSUME NEW S \in SUBSET Nat, S # {}
  PROVE  \E m \in S : \A n \in S : m <= n
<1>1. IsWellFoundedOn(Below, Nat)
  BY NatLessThanWellFounded DEF OpToRel, Below
<1>2. PICK m \in S : \A y \in S : <<y, m>> \notin Below
  BY <1>1, WFMin
<1>3. ASSUME NEW n \in S, ~(m <= n) PROVE FALSE
  <2>1. <<n, m>> \in Below
    BY <1>3 DEF Below
  <2>2. QED
    BY <2>1, <1>2
<1>4. QED
  BY <1>3

LEMMA MinOf ==
  ASSUME NEW S \in SUBSET Nat, S # {}
  PROVE  Min(S) \in S /\ \A n \in S : Min(S) <= n
<1>1. \E m \in S : \A n \in S : m <= n
  BY LeastNat
<1>2. QED
  BY <1>1 DEF Min

\* Taking an element away leaves a smaller finite set: the least one without a greatest number is none.
LEMMA MaxOf ==
  ASSUME NEW S \in SUBSET Nat, IsFiniteSet(S), S # {}
  PROVE  Max(S) \in S /\ \A n \in S : n <= Max(S)
<1> DEFINE Greatest(T, m) == m \in T /\ \A n \in T : n <= m
           Bad == {T \in FiniteSubsetsOf(S) : T # {} /\ \A m \in T : ~Greatest(T, m)}
<1>1. Bad = {}
  <2> SUFFICES ASSUME Bad # {} PROVE FALSE
    OBVIOUS
  <2>1. Bad \subseteq FiniteSubsetsOf(S)
    OBVIOUS
  <2>2. PICK T \in Bad : \A U \in Bad : <<U, T>> \notin StrictSubsetOrdering(S)
    <3> HIDE DEF Bad
    <3>1. QED
      BY <2>1, FS_StrictSubsetOrderingWellFounded, WFMin
  <2>3. T \subseteq S /\ IsFiniteSet(T) /\ T # {} /\ \A m \in T : ~Greatest(T, m)
    BY DEF FiniteSubsetsOf
  <2>4. PICK u \in T : TRUE
    BY <2>3
  <2>5. T \ {u} \subseteq S /\ IsFiniteSet(T \ {u}) /\ T \ {u} # T
    BY <2>3, FS_RemoveElement
  <2>6. <<T \ {u}, T>> \in StrictSubsetOrdering(S)
    BY <2>3, <2>5 DEF StrictSubsetOrdering
  <2>7. T \ {u} \notin Bad
    BY <2>2, <2>6
  <2>8. T \ {u} = {} \/ \E m \in T \ {u} : Greatest(T \ {u}, m)
    BY <2>5, <2>7 DEF FiniteSubsetsOf
  <2>9. CASE T \ {u} = {}
    <3>1. Greatest(T, u)
      BY <2>3, <2>9
    <3>2. QED
      BY <3>1, <2>3
  <2>10. ASSUME NEW m \in T \ {u}, Greatest(T \ {u}, m) PROVE FALSE
    <3>1. m \in Nat /\ u \in Nat /\ \A n \in T : n \in Nat
      BY <2>3
    <3>2. CASE u <= m
      <4>1. Greatest(T, m)
        BY <3>1, <3>2, <2>10
      <4>2. QED
        BY <4>1, <2>3
    <3>3. CASE m <= u
      <4>1. Greatest(T, u)
        BY <3>1, <3>3, <2>10
      <4>2. QED
        BY <4>1, <2>3
    <3>4. QED
      BY <3>1, <3>2, <3>3
  <2>11. QED
    BY <2>8, <2>9, <2>10
<1>2. PICK m \in S : Greatest(S, m)
  BY <1>1 DEF FiniteSubsetsOf
<1>3. \E x \in S : \A y \in S : x >= y
  BY <1>2
<1>4. Max(S) \in S /\ \A y \in S : Max(S) >= y
  BY <1>3 DEF Max
<1>5. QED
  BY <1>4

-----------------------------------------------------------------------------
(* Track B. *)
Maybe == Nat \cup {Absent}
IsRequirement(m) == m.qubits \in Nat /\ m.gates \in Nat

\* The twenty points of the capability curve: one a year, with its numbers where it has them.
LEMMA CurveFacts ==
  /\ Len(CapabilityCurve) = 20
  /\ \A i \in 1..20 : /\ CapabilityCurve[i].year = 2025 + i
                      /\ CapabilityCurve[i].qubits \in Nat /\ CapabilityCurve[i].gates \in Maybe
<1> DEFINE Fact(i) == /\ CapabilityCurve[i].year = 2025 + i
                      /\ CapabilityCurve[i].qubits \in Nat /\ CapabilityCurve[i].gates \in Maybe
<1>1. Len(CapabilityCurve) = 20
  BY DEF CapabilityCurve
<1>2. \A y, q, g, c : Point(y, q, g, c).year = y /\ Point(y, q, g, c).qubits = q /\ Point(y, q, g, c).gates = g
  BY DEF Point
<1>3. Absent \in Maybe /\ \A g \in Nat : g \in Maybe
  BY DEF Maybe
<1>4. Fact(1) /\ Fact(2) /\ Fact(3) /\ Fact(4) /\ Fact(5)
  BY <1>2, <1>3 DEF CapabilityCurve
<1>5. Fact(6) /\ Fact(7) /\ Fact(8) /\ Fact(9) /\ Fact(10)
  BY <1>2, <1>3 DEF CapabilityCurve
<1>6. Fact(11) /\ Fact(12) /\ Fact(13) /\ Fact(14) /\ Fact(15)
  BY <1>2, <1>3 DEF CapabilityCurve
<1>7. Fact(16) /\ Fact(17) /\ Fact(18) /\ Fact(19) /\ Fact(20)
  BY <1>2, <1>3 DEF CapabilityCurve
<1> HIDE DEF Fact
<1>8. \A i \in 1..20 : i \in {1, 2, 3, 4, 5, 6, 7, 8, 9, 10, 11, 12, 13, 14, 15, 16, 17, 18, 19, 20}
  OBVIOUS
<1>9. \A i \in 1..20 : Fact(i)
  BY <1>4, <1>5, <1>6, <1>7, <1>8
<1>10. QED
  BY <1>1, <1>9 DEF Fact

LEMMA ModelFacts ==
  ASSUME NEW a, NEW m \in ModelsFor(a)
  PROVE  IsRequirement(m)
<1>1. \A n \in AttackModels : IsRequirement(n)
  BY DEF AttackModels, Model, IsRequirement
<1>2. ModelsFor(a) \subseteq AttackModels
  BY DEF ModelsFor
<1>3. QED
  BY <1>1, <1>2

LEMMA CrossesGrows ==
  ASSUME NEW p, NEW m, IsRequirement(m), p.qubits \in Nat, p.gates \in Maybe
  PROVE  (Crosses(p, m, 1) => Crosses(p, m, 2)) /\ (Crosses(p, m, 2) => Crosses(p, m, 4))
  BY DEF Crosses, Maybe, Known, Absent, IsRequirement

CrossingPoints(m, scale) == {i \in 1..20 : Crosses(CapabilityCurve[i], m, scale)}
LEMMA CrossingFacts ==
  ASSUME NEW m, NEW scale
  PROVE  IF CrossingPoints(m, scale) = {} THEN Crossing(m, scale) = 0
         ELSE /\ Crossing(m, scale) \in CrossingPoints(m, scale)
              /\ \A i \in CrossingPoints(m, scale) : Crossing(m, scale) <= i
<1>1. Crossing(m, scale) = IF CrossingPoints(m, scale) # {} THEN Min(CrossingPoints(m, scale)) ELSE 0
  BY CurveFacts DEF Crossing, SelectInSeq, CrossingPoints
<1>2. CrossingPoints(m, scale) \in SUBSET Nat
  BY DEF CrossingPoints
<1> HIDE DEF CrossingPoints
<1>3. QED
  BY <1>1, <1>2, MinOf

\* The more a scale gives, the earlier a track: what "more capable" means.
NoLater(r, s) ==
  /\ r.status = "model_unavailable" <=> s.status = "model_unavailable"
  /\ r.status = "calculated" => s.status = "calculated" /\ s.m <= r.m
  /\ r.status \in {"not_required"} <=> s.status = "not_required"

ResourceTyped(r) ==
  /\ r.status \in {"model_unavailable", "calculated", "beyond_horizon"}
  /\ r.status = "calculated" => r.m \in Nat /\ r.confidence \in {"low", "medium"}
  /\ r.status = "beyond_horizon" => r.m = Absent /\ r.confidence = "low"
  /\ r.status = "model_unavailable" => r.m = Absent /\ r.confidence = "none"
  /\ r = ResourceTrack(r.status, r.m, r.confidence)

LEMMA TrackAtTyped ==
  ASSUME NEW i \in 0..20
  PROVE  /\ ResourceTyped(TrackCrossingAt(i)) /\ TrackCrossingAt(i).status # "model_unavailable"
         /\ i = 0 => TrackCrossingAt(i).status = "beyond_horizon"
         /\ i # 0 => TrackCrossingAt(i).status = "calculated" /\ TrackCrossingAt(i).m = i - 1
<1>1. CASE i = 0
  BY <1>1 DEF TrackCrossingAt, ResourceTrack, ResourceTyped
<1>2. CASE i # 0
  <2>1. i \in 1..20 /\ CapabilityCurve[i].year - ReferenceYear = i - 1 /\ i - 1 \in Nat
    BY <1>2, CurveFacts DEF ReferenceYear
  <2> DEFINE conf == IF CapabilityCurve[i].confidence = "low" THEN "low" ELSE "medium"
  <2>2. TrackCrossingAt(i) = ResourceTrack("calculated", i - 1, conf)
    BY <1>2, <2>1 DEF TrackCrossingAt
  <2>3. conf \in {"low", "medium"}
    OBVIOUS
  <2> HIDE DEF conf
  <2>4. QED
    BY <1>2, <2>1, <2>2, <2>3 DEF ResourceTrack, ResourceTyped
<1>3. QED
  BY <1>1, <1>2

LEMMA CrossingTyped ==
  ASSUME NEW m, NEW scale
  PROVE  Crossing(m, scale) \in 0..20
<1>1. CrossingPoints(m, scale) \subseteq 1..20
  BY DEF CrossingPoints
<1>2. QED
  BY <1>1, CrossingFacts

\* What crosses for a weaker adversary crosses no later for a stronger one.
LEMMA CrossingEarlier ==
  ASSUME NEW m, IsRequirement(m), NEW scale, NEW more,
         \A i \in 1..20 : Crosses(CapabilityCurve[i], m, scale) => Crosses(CapabilityCurve[i], m, more)
  PROVE  NoLater(TrackCrossingAt(Crossing(m, scale)), TrackCrossingAt(Crossing(m, more)))
<1>1. CrossingPoints(m, scale) \subseteq CrossingPoints(m, more)
  BY DEF CrossingPoints
<1>2. /\ Crossing(m, scale) \in 0..20 /\ Crossing(m, more) \in 0..20
      /\ Crossing(m, scale) # 0 => Crossing(m, more) # 0 /\ Crossing(m, more) <= Crossing(m, scale)
  <2>1. CrossingPoints(m, more) \subseteq 1..20 /\ CrossingPoints(m, scale) \subseteq 1..20
    BY DEF CrossingPoints
  <2>2. QED
    BY <1>1, <2>1, CrossingFacts, CrossingTyped
<1>3. QED
  BY <1>2, TrackAtTyped DEF NoLater

Undecided(a) == PolicyStatus(a) = "undecided"
LEMMA UndecidedFacts ==
  ASSUME NEW a \in ArtefactRecords, Undecided(a)
  PROVE  /\ a.type # "library" /\ a.vulnerability \in {"unknown", "shor_broken", "grover_weakened"}
         /\ a.name.policy \notin {"broken", "resistant"}
  BY DEF Undecided, PolicyStatus, ArtefactRecords, Vulnerabilities

LEMMA ResourcesTyped ==
  ASSUME NEW a \in ArtefactRecords, Undecided(a), NEW s
  PROVE  ResourceTyped(EvaluateResources(a, s))
<1>1. a.vulnerability \notin {"quantum_safe", "not_applicable"}
  BY UndecidedFacts
<1>2. ResourceTyped(ResourceTrack("model_unavailable", Absent, "none"))
  BY DEF ResourceTyped, ResourceTrack
<1>3. QED
  BY <1>1, <1>2, CrossingTyped, TrackAtTyped DEF EvaluateResources

\* Each scenario crosses no later than the one before it.
LEMMA ResourcesEarlier ==
  ASSUME NEW a \in ArtefactRecords, Undecided(a)
  PROVE  /\ NoLater(EvaluateResources(a, "conservative"), EvaluateResources(a, "baseline"))
         /\ NoLater(EvaluateResources(a, "baseline"), EvaluateResources(a, "aggressive"))
<1>1. a.vulnerability \notin {"quantum_safe", "not_applicable"}
  BY UndecidedFacts
<1>2. CASE ModelsFor(a) = {}
  <2>1. \A s : EvaluateResources(a, s) = ResourceTrack("model_unavailable", Absent, "none")
    BY <1>1, <1>2 DEF EvaluateResources
  <2>2. QED
    BY <2>1 DEF NoLater, ResourceTrack
<1>3. CASE ModelsFor(a) # {}
  <2>1. PICK m \in ModelsFor(a) : m = CHOOSE n \in ModelsFor(a) : TRUE
    BY <1>3
  <2>2. \A s : EvaluateResources(a, s) = TrackCrossingAt(Crossing(m, ScenarioScale[s]))
    BY <1>1, <1>3, <2>1 DEF EvaluateResources
  <2>3. IsRequirement(m)
    BY ModelFacts
  <2>4. \A i \in 1..20 : /\ Crosses(CapabilityCurve[i], m, 1) => Crosses(CapabilityCurve[i], m, 2)
                         /\ Crosses(CapabilityCurve[i], m, 2) => Crosses(CapabilityCurve[i], m, 4)
    BY <2>3, CurveFacts, CrossesGrows
  <2>5. /\ ScenarioScale["conservative"] = 1 /\ ScenarioScale["baseline"] = 2 /\ ScenarioScale["aggressive"] = 4
    BY DEF ScenarioScale
  <2>6. /\ NoLater(TrackCrossingAt(Crossing(m, 1)), TrackCrossingAt(Crossing(m, 2)))
        /\ NoLater(TrackCrossingAt(Crossing(m, 2)), TrackCrossingAt(Crossing(m, 4)))
    BY <2>3, <2>4, CrossingEarlier
  <2>7. QED
    BY <2>2, <2>5, <2>6
<1>4. QED
  BY <1>2, <1>3

-----------------------------------------------------------------------------
(* Track A. *)
Heard(raw) == raw \subseteq EvidenceRecords /\ IsFiniteSet(raw)

LEMMA RankOf ==
  ASSUME NEW e \in EvidenceRecords
  PROVE  SourceRank[e.source] \in 0..3 /\ e.lifetime \in Nat
         /\ SourceConfidence[e.source] \in {"high", "medium", "low"}
  BY DEF EvidenceRecords, SourceRank, SourceConfidence

LEMMA RawHeard ==
  ASSUME NEW c \in ContextRecords
  PROVE  Heard(RawEvidence(c))
<1>1. /\ c.retention \subseteq EvidenceRecords /\ IsFiniteSet(c.retention) /\ c.lifetime \in Maybe
      /\ c.lifetimeTier \in Tiers /\ c.categoryTier \in Tiers
  BY DEF ContextRecords, Maybe
<1>2. \A t : SourceForTier(t) \in {"user", "scanner", "org_policy", "legal_profile"}
  BY DEF SourceForTier
<1>3. \A t : \A n \in Nat : Evidence(SourceForTier(t), n) \in EvidenceRecords
  BY <1>2 DEF Evidence, EvidenceRecords
<1>4. DirectEvidence(c) \subseteq EvidenceRecords /\ IsFiniteSet(DirectEvidence(c))
  <2>1. CASE Known(c.lifetime) /\ c.lifetimeTier \in {"user", "org_preset"}
    <3>1. DirectEvidence(c) = {Evidence(SourceForTier(c.lifetimeTier), c.lifetime)} /\ c.lifetime \in Nat
      BY <1>1, <2>1 DEF DirectEvidence, Known, Maybe
    <3>2. Evidence(SourceForTier(c.lifetimeTier), c.lifetime) \in EvidenceRecords
      BY <3>1, <1>3
    <3>3. IsFiniteSet({Evidence(SourceForTier(c.lifetimeTier), c.lifetime)})
      BY FS_Singleton
    <3>4. QED
      BY <3>1, <3>2, <3>3
  <2>2. CASE ~(Known(c.lifetime) /\ c.lifetimeTier \in {"user", "org_preset"})
    <3>1. DirectEvidence(c) = {}
      BY <2>2 DEF DirectEvidence
    <3>2. QED
      BY <3>1, FS_EmptySet
  <2>3. QED
    BY <2>1, <2>2
<1>5. \A k \in DOMAIN Categories : Categories[k].lifetime \in Nat
  BY DEF Categories
<1>6. CategoryEvidence(c) \subseteq EvidenceRecords /\ IsFiniteSet(CategoryEvidence(c))
  <2>1. CASE c.category \in DOMAIN Categories
    <3>1. CategoryEvidence(c) = {Evidence(SourceForTier(c.categoryTier), Categories[c.category].lifetime)}
      BY <2>1 DEF CategoryEvidence
    <3>2. Evidence(SourceForTier(c.categoryTier), Categories[c.category].lifetime) \in EvidenceRecords
      BY <2>1, <1>3, <1>5
    <3>3. IsFiniteSet({Evidence(SourceForTier(c.categoryTier), Categories[c.category].lifetime)})
      BY FS_Singleton
    <3>4. QED
      BY <3>1, <3>2, <3>3
  <2>2. CASE c.category \notin DOMAIN Categories
    <3>1. CategoryEvidence(c) = {}
      BY <2>2 DEF CategoryEvidence
    <3>2. QED
      BY <3>1, FS_EmptySet
  <2>3. QED
    BY <2>1, <2>2
<1>7. QED
  BY <1>1, <1>4, <1>6, FS_Union DEF RawEvidence, Heard

\* A finite set has finitely many values.
LEMMA ValuesFinite ==
  ASSUME NEW S, IsFiniteSet(S), NEW f, DOMAIN f = S, f = [x \in S |-> f[x]]
  PROVE  IsFiniteSet({f[x] : x \in S})
<1>1. f \in Surjection(S, {f[x] : x \in S})
  BY DEF Surjection
<1>2. QED
  BY <1>1, FS_Surjection

LifetimesOf(raw) == {e.lifetime : e \in Strongest(raw)}
\* There is a strongest evidence, and a longest lifetime among it.
LEMMA StrongestFacts ==
  ASSUME NEW raw, Heard(raw), raw # {}
  PROVE  /\ Strongest(raw) # {} /\ Strongest(raw) \subseteq raw
         /\ Max(LifetimesOf(raw)) \in LifetimesOf(raw)
         /\ \A n \in LifetimesOf(raw) : n <= Max(LifetimesOf(raw))
         /\ LifetimesOf(raw) \subseteq Nat
<1>1. \A e \in raw : e \in EvidenceRecords /\ SourceRank[e.source] \in Nat /\ e.lifetime \in Nat
  BY RankOf DEF Heard
<1>2. {SourceRank[e.source] : e \in raw} \in SUBSET Nat /\ {SourceRank[e.source] : e \in raw} # {}
  BY <1>1
<1>3. PICK r \in {SourceRank[e.source] : e \in raw} : \A q \in {SourceRank[e.source] : e \in raw} : r <= q
  BY <1>2, LeastNat
<1>4. Strongest(raw) # {} /\ Strongest(raw) \subseteq raw
  BY <1>3 DEF Strongest
<1>5. IsFiniteSet(Strongest(raw))
  BY <1>4, FS_Subset DEF Heard
<1>6. LifetimesOf(raw) \in SUBSET Nat /\ LifetimesOf(raw) # {}
  BY <1>1, <1>4 DEF LifetimesOf
<1>7. IsFiniteSet(LifetimesOf(raw))
  <2> DEFINE f == [e \in Strongest(raw) |-> e.lifetime]
  <2>1. DOMAIN f = Strongest(raw) /\ f = [e \in Strongest(raw) |-> f[e]]
        /\ LifetimesOf(raw) = {f[e] : e \in Strongest(raw)}
    BY DEF LifetimesOf
  <2> HIDE DEF f
  <2>2. QED
    BY <2>1, <1>5, ValuesFinite
<1>8. QED
  BY <1>4, <1>6, <1>7, MaxOf

\* Evidence no stronger than the old, and no shorter at each strength, gives no shorter lifetime.
LEMMA YearsGrow ==
  ASSUME NEW raw, Heard(raw), raw # {}, NEW new, Heard(new),
         \A e \in raw : \E f \in new : SourceRank[f.source] = SourceRank[e.source] /\ e.lifetime <= f.lifetime,
         \A f \in new : \E e \in raw : SourceRank[e.source] <= SourceRank[f.source]
  PROVE  Max(LifetimesOf(raw)) <= Max(LifetimesOf(new))
<1>1. PICK e \in Strongest(raw) : e.lifetime = Max(LifetimesOf(raw)) /\ e \in raw
  BY StrongestFacts DEF LifetimesOf
<1>2. PICK f \in new : SourceRank[f.source] = SourceRank[e.source] /\ e.lifetime <= f.lifetime
  BY <1>1
<1>3. \A x \in raw \cup new : SourceRank[x.source] \in 0..3 /\ x.lifetime \in Nat
  BY RankOf DEF Heard
<1>4. ASSUME NEW g \in new PROVE SourceRank[f.source] <= SourceRank[g.source]
  <2>1. PICK d \in raw : SourceRank[d.source] <= SourceRank[g.source]
    OBVIOUS
  <2>2. SourceRank[e.source] <= SourceRank[d.source]
    BY <1>1 DEF Strongest
  <2>3. QED
    BY <2>1, <2>2, <1>1, <1>2, <1>3
<1>5. f \in Strongest(new)
  BY <1>2, <1>4 DEF Strongest
<1>6. f.lifetime \in LifetimesOf(new) /\ new # {}
  BY <1>5, <1>2 DEF LifetimesOf
<1>7. f.lifetime <= Max(LifetimesOf(new)) /\ Max(LifetimesOf(new)) \in Nat /\ f.lifetime \in Nat /\ e.lifetime \in Nat
  BY <1>6, <1>3, <1>1, <1>2, StrongestFacts
<1>8. QED
  BY <1>1, <1>2, <1>7

XTyped(x) ==
  /\ x.years \in Maybe /\ x.confidence \in {"high", "medium", "low", "none"}
  /\ x.years # Absent => x.confidence # "none"
LEMMA ResolvedX ==
  ASSUME NEW c, Heard(RawEvidence(c))
  PROVE  /\ XTyped(ResolveX(c))
         /\ RawEvidence(c) = {} => ResolveX(c).years = Absent
         /\ RawEvidence(c) # {} => ResolveX(c).years = Max(LifetimesOf(RawEvidence(c)))
                                  /\ ResolveX(c).years \in Nat
<1>1. CASE RawEvidence(c) = {}
  <2>1. Strongest(RawEvidence(c)) = {}
    BY <1>1 DEF Strongest
  <2>2. ResolveX(c) = [years |-> Absent, confidence |-> "none"]
    BY <2>1 DEF ResolveX
  <2>3. QED
    BY <1>1, <2>2 DEF XTyped, Maybe
<1>2. CASE RawEvidence(c) # {}
  <2>1. Strongest(RawEvidence(c)) # {} /\ Strongest(RawEvidence(c)) \subseteq RawEvidence(c)
        /\ Max(LifetimesOf(RawEvidence(c))) \in Nat
    BY <1>2, StrongestFacts
  <2>2. PICK e \in Strongest(RawEvidence(c)) : e = CHOOSE d \in Strongest(RawEvidence(c)) : TRUE
    BY <2>1
  <2>3. ResolveX(c) = [years |-> Max(LifetimesOf(RawEvidence(c))), confidence |-> SourceConfidence[e.source]]
    BY <2>1, <2>2 DEF ResolveX, LifetimesOf
  <2>4. SourceConfidence[e.source] \in {"high", "medium", "low"}
    BY <2>1, <2>2, RankOf DEF Heard
  <2>5. QED
    BY <1>2, <2>1, <2>3, <2>4 DEF XTyped, Maybe
<1>3. QED
  BY <1>1, <1>2

\* The weaker of some confidences is one of them, and none is weaker.
LEMMA WeakerOf ==
  ASSUME NEW values \in SUBSET {"high", "medium", "low"}, values # {}
  PROVE  Weaker(values) \in values /\ \A d \in values : ConfidenceRank[d] <= ConfidenceRank[Weaker(values)]
<1>1. ConfidenceRank["high"] = 0 /\ ConfidenceRank["medium"] = 1 /\ ConfidenceRank["low"] = 2
  BY DEF ConfidenceRank
<1>2. \E c \in values : \A d \in values : ConfidenceRank[d] <= ConfidenceRank[c]
  <2>1. CASE "low" \in values
    BY <2>1, <1>1
  <2>2. CASE "low" \notin values /\ "medium" \in values
    BY <2>2, <1>1
  <2>3. CASE "low" \notin values /\ "medium" \notin values
    <3>1. "high" \in values /\ \A d \in values : d = "high"
      BY <2>3
    <3>2. QED
      BY <3>1, <1>1
  <2>4. QED
    BY <2>1, <2>2, <2>3
<1>3. QED
  BY <1>2 DEF Weaker

Sure == {"high", "medium", "low"}
MoscaTyped(mo) ==
  /\ mo.x \in Maybe /\ mo.y \in Maybe /\ mo.z \in Maybe
  /\ mo.resolved <=> Known(mo.x) /\ Known(mo.y) /\ Known(mo.z)
  /\ mo.resolved => /\ mo.x \in Nat /\ mo.y \in Nat /\ mo.z \in Nat
                    /\ mo.shortfall = mo.x + mo.y - mo.z /\ mo.confidence \in Sure
                    /\ mo.urgent <=> mo.x + mo.y - mo.z > 0
  /\ ~mo.resolved => mo.confidence = "none" /\ ~mo.urgent

LEMMA ZTyped ==
  ASSUME NEW h \in Maybe, NEW r, ResourceTyped(r)
  PROVE  LET z == ResolveZ(h, r) IN
         /\ z.years \in Maybe /\ (z.years # Absent => z.conf \in Sure)
         /\ z.basis = "resource_model" => z.years = r.m
         /\ z.years = IF Known(h) THEN h ELSE IF r.status = "calculated" THEN r.m ELSE Absent
  BY DEF ResolveZ, ResourceTyped, Maybe, Known, Sure

LEMMA TrackTyped ==
  ASSUME NEW c \in ContextRecords, NEW x, XTyped(x), NEW z, z.years \in Maybe, z.years # Absent => z.conf \in Sure
  PROVE  LET mo == MoscaTrack(c, x, z) IN
         /\ MoscaTyped(mo) /\ mo.x = x.years /\ mo.y = c.migration /\ mo.z = z.years /\ mo.basis = z.basis
<1> DEFINE mo == MoscaTrack(c, x, z)
           yConfidence == IF c.migrationTier \in {"user", "org_preset"} THEN "high" ELSE "low"
           resolved == Known(x.years) /\ Known(c.migration) /\ Known(z.years)
<1>1. /\ mo.x = x.years /\ mo.y = c.migration /\ mo.z = z.years /\ mo.basis = z.basis /\ mo.resolved = resolved
      /\ mo.shortfall = (IF resolved THEN x.years + c.migration - z.years ELSE 0)
      /\ mo.urgent = (resolved /\ x.years + c.migration - z.years > 0)
      /\ mo.confidence = (IF resolved THEN Weaker({x.confidence, yConfidence, z.conf}) ELSE "none")
  BY DEF MoscaTrack
<1> HIDE DEF mo
<1>2. c.migration \in Maybe
  BY DEF ContextRecords, Maybe
<1>3. ASSUME resolved PROVE mo.confidence \in Sure
  <2>1. {x.confidence, yConfidence, z.conf} \in SUBSET {"high", "medium", "low"}
    BY <1>3 DEF XTyped, Known, Sure
  <2>2. mo.confidence = Weaker({x.confidence, yConfidence, z.conf})
    BY <1>1, <1>3
  <2> HIDE DEF yConfidence
  <2>3. mo.confidence \in {x.confidence, yConfidence, z.conf}
    BY <2>1, <2>2, WeakerOf
  <2>4. QED
    BY <2>1, <2>3 DEF Sure
<1>4. x.years \in Maybe /\ z.years \in Maybe
  BY DEF XTyped
<1> HIDE DEF yConfidence
<1>5. CASE resolved
  <2>1. mo.x \in Nat /\ mo.y \in Nat /\ mo.z \in Nat
    BY <1>1, <1>2, <1>4, <1>5 DEF Known, Maybe
  <2>2. QED
    BY <2>1, <1>1, <1>2, <1>3, <1>4, <1>5 DEF MoscaTyped, mo
<1>6. CASE ~resolved
  BY <1>1, <1>2, <1>4, <1>6 DEF MoscaTyped, mo
<1>7. QED
  BY <1>5, <1>6

\* Track A's three numbers and where each comes from.
LEMMA MoscaOf ==
  ASSUME NEW c \in ContextRecords, NEW h \in Maybe, NEW r, ResourceTyped(r)
  PROVE  LET mo == EvaluateMosca(c, h, r) IN
         /\ MoscaTyped(mo) /\ mo.x = ResolveX(c).years /\ mo.y = c.migration
         /\ mo.z = IF Known(h) THEN h ELSE IF r.status = "calculated" THEN r.m ELSE Absent
         /\ mo.basis = "resource_model" => mo.z = r.m
  <1>1. XTyped(ResolveX(c))
    BY RawHeard, ResolvedX
  <1> DEFINE x == ResolveX(c)
             z == ResolveZ(h, r)
  <1>2. EvaluateMosca(c, h, r) = MoscaTrack(c, x, z)
    BY DEF EvaluateMosca
  <1>3. /\ z.years \in Maybe /\ (z.years # Absent => z.conf \in Sure)
        /\ z.basis = "resource_model" => z.years = r.m
        /\ z.years = IF Known(h) THEN h ELSE IF r.status = "calculated" THEN r.m ELSE Absent
    BY ZTyped
  <1> HIDE DEF z, x
  <1>4. QED
    BY <1>1, <1>2, <1>3, TrackTyped DEF x

-----------------------------------------------------------------------------
(* The contributions. *)
PointsOK(p, most) == p = Unmeasured \/ \E n \in 0..most : p = Measured(n)

LEMMA PointsFacts ==
  ASSUME NEW most \in Nat, NEW p, PointsOK(p, most)
  PROVE  p.halves \in 0..most /\ (~p.evidence => p.halves = 0)
<1>1. Unmeasured.halves = 0
  BY DEF Unmeasured
<1>2. \A n : Measured(n).halves = n /\ Measured(n).evidence
  BY DEF Measured
<1>3. p.halves \in 0..most
  BY <1>1, <1>2 DEF PointsOK
<1>4. QED
  BY <1>1, <1>2, <1>3 DEF PointsOK

LEMMA TwoNumbers ==
  ASSUME NEW m \in Int, NEW n \in Int
  PROVE  /\ Max({m, n}) = IF m >= n THEN m ELSE n
         /\ Min({m, n}) = IF m <= n THEN m ELSE n
<1>1. \A x \in {m, n} : (\A y \in {m, n} : x >= y) <=> x = (IF m >= n THEN m ELSE n)
  OBVIOUS
<1>2. \A x \in {m, n} : (\A y \in {m, n} : x <= y) <=> x = (IF m <= n THEN m ELSE n)
  OBVIOUS
<1>3. QED
  BY <1>1, <1>2 DEF Max, Min

\* A longer shortfall never costs Mosca points.
LEMMA MoscaPointsGrow ==
  ASSUME NEW mo, MoscaTyped(mo)
  PROVE  /\ PointsOK(MoscaPoints(mo), 40)
         /\ \A new : MoscaTyped(new) /\ mo.resolved /\ new.resolved /\ mo.shortfall <= new.shortfall
              => MoscaPoints(mo).halves <= MoscaPoints(new).halves
<1> DEFINE Late(n) == IF 0 >= n THEN 0 ELSE n
           Capped(n) == IF 40 <= 8 * Late(n) THEN 40 ELSE 8 * Late(n)
<1>1. ASSUME NEW one, MoscaTyped(one), one.resolved
      PROVE  MoscaPoints(one) = Measured(Capped(one.shortfall)) /\ one.shortfall \in Int
  <2>1. one.shortfall \in Int
    BY <1>1 DEF MoscaTyped
  <2>2. Max({0, one.shortfall}) = Late(one.shortfall) /\ Late(one.shortfall) \in Nat
    BY <2>1, TwoNumbers
  <2> HIDE DEF Late
  <2>3. 2 * PointsPerShortfallYear * Max({0, one.shortfall}) = 8 * Late(one.shortfall)
        /\ 2 * FactorWeights.mosca = 40
    BY <2>2 DEF PointsPerShortfallYear, FactorWeights
  <2>4. MoscaPoints(one) = Measured(Min({40, 8 * Late(one.shortfall)}))
    BY <2>3, <1>1 DEF MoscaPoints
  <2>5. Min({40, 8 * Late(one.shortfall)}) = Capped(one.shortfall)
    <3>1. PICK n \in Int : n = 8 * Late(one.shortfall)
      BY <2>2
    <3>2. Min({40, n}) = IF 40 <= n THEN 40 ELSE n
      BY TwoNumbers
    <3>3. QED
      BY <3>1, <3>2
  <2>6. QED
    BY <2>1, <2>4, <2>5
<1>2. PointsOK(MoscaPoints(mo), 40)
  <2>1. CASE mo.resolved
    <3>1. Capped(mo.shortfall) \in 0..40
      BY <2>1, <1>1
    <3> HIDE DEF Capped
    <3>2. QED
      BY <3>1, <2>1, <1>1 DEF PointsOK
  <2>2. CASE ~mo.resolved
    BY <2>2 DEF MoscaPoints, PointsOK
  <2>3. QED
    BY <2>1, <2>2
<1>3. ASSUME NEW new, MoscaTyped(new), mo.resolved, new.resolved, mo.shortfall <= new.shortfall
      PROVE  MoscaPoints(mo).halves <= MoscaPoints(new).halves
  <2>1. MoscaPoints(mo).halves = Capped(mo.shortfall) /\ MoscaPoints(new).halves = Capped(new.shortfall)
        /\ mo.shortfall \in Int /\ new.shortfall \in Int
    BY <1>1, <1>3 DEF Measured
  <2>2. \A m, n \in Int : m <= n => Capped(m) <= Capped(n)
    OBVIOUS
  <2> HIDE DEF Capped
  <2>3. QED
    BY <2>1, <2>2, <1>3
<1>4. QED
  BY <1>2, <1>3

\* An earlier crossing never costs resource points.
LEMMA ResourcePointsGrow ==
  ASSUME NEW r, ResourceTyped(r)
  PROVE  /\ PointsOK(ResourcePoints(r), 30)
         /\ \A s : ResourceTyped(s) /\ NoLater(r, s) => ResourcePoints(r).halves <= ResourcePoints(s).halves
<1> DEFINE For(m) == CASE m <= 5 -> 30 [] m \in 6..10 -> 16 [] m \in 11..15 -> 8 [] OTHER -> 2
<1>1. ASSUME NEW one, ResourceTyped(one)
      PROVE  /\ one.status = "beyond_horizon" => ResourcePoints(one) = Measured(0)
             /\ one.status = "model_unavailable" => ResourcePoints(one) = Unmeasured
             /\ one.status = "calculated" => ResourcePoints(one) = Measured(For(one.m)) /\ one.m \in Nat
  BY <1>1 DEF ResourcePoints, ResourceTyped
<1>2. \A n \in Nat : For(n) \in {2, 8, 16, 30}
  OBVIOUS
<1>3. \A m, n \in Nat : m <= n => For(n) <= For(m)
  OBVIOUS
<1> HIDE DEF For
<1>4. PointsOK(ResourcePoints(r), 30)
  <2>1. For(r.m) \in {2, 8, 16, 30} => For(r.m) \in 0..30
    OBVIOUS
  <2>2. 0 \in 0..30
    OBVIOUS
  <2>3. QED
    BY <2>1, <2>2, <1>1, <1>2 DEF PointsOK, ResourceTyped
<1>5. ASSUME NEW s, ResourceTyped(s), NoLater(r, s)
      PROVE  ResourcePoints(r).halves <= ResourcePoints(s).halves
  <2>0. Unmeasured.halves = 0 /\ \A n : Measured(n).halves = n
    BY DEF Measured, Unmeasured
  <2>1. CASE r.status = "calculated"
    BY <2>0, <2>1, <1>1, <1>3, <1>5 DEF NoLater
  <2>2. CASE r.status # "calculated"
    <3>1. ResourcePoints(r).halves = 0
      BY <2>0, <2>2, <1>1 DEF ResourceTyped
    <3>2. ResourcePoints(s).halves \in {0, 2, 8, 16, 30}
      BY <2>0, <1>1, <1>2, <1>5 DEF ResourceTyped
    <3>3. QED
      BY <3>1, <3>2
  <2>3. QED
    BY <2>1, <2>2
<1>6. QED
  BY <1>4, <1>5

LEMMA OtherPoints ==
  ASSUME NEW a, NEW c \in ContextRecords
  PROVE  /\ PointsOK(AlgorithmPoints(a), 50) /\ PointsOK(DataPoints(c), 24) /\ PointsOK(MigrationPoints(a), 16)
         /\ PointsOK(ContextEnumPoints(c.criticality, CriticalityPoints), 20)
         /\ PointsOK(ContextEnumPoints(c.exposure, ExposureLevelPoints), 20)
<1>1. PointsOK(AlgorithmPoints(a), 50)
  <2>1. 2 * FactorWeights.algorithm = 50 /\ FactorWeights.algorithm = 25 /\ 50 \in 0..50 /\ 25 \in 0..50
    BY DEF FactorWeights
  <2>2. AlgorithmPoints(a) \in {Measured(50), Measured(25), Unmeasured}
    BY <2>1 DEF AlgorithmPoints
  <2>3. QED
    BY <2>1, <2>2 DEF PointsOK
<1>2. PointsOK(DataPoints(c), 24)
  <2>1. \A k \in DOMAIN Categories : Categories[k].sensitivity \in {"restricted", "confidential"}
    BY DEF Categories
  <2>2. Sensitivity(c) \in {"restricted", "confidential", "internal", "public", "unknown"}
    BY <2>1 DEF Sensitivity, ContextRecords
  <2> DEFINE table == [restricted |-> 12, confidential |-> 8, internal |-> 4, public |-> 0]
  <2>3. table["restricted"] = 12 /\ table["confidential"] = 8 /\ table["internal"] = 4 /\ table["public"] = 0
    OBVIOUS
  <2>4. DataPoints(c) = IF Sensitivity(c) = "unknown" THEN Unmeasured ELSE Measured(2 * table[Sensitivity(c)])
    BY DEF DataPoints
  <2> HIDE DEF table
  <2>5. Sensitivity(c) # "unknown" => 2 * table[Sensitivity(c)] \in 0..24
    BY <2>2, <2>3
  <2>6. QED
    BY <2>4, <2>5 DEF PointsOK
<1>3. PointsOK(MigrationPoints(a), 16)
  <2>1. 2 * 8 \in 0..16 /\ 2 * 2 \in 0..16 /\ 2 * 6 \in 0..16 /\ 2 * 4 \in 0..16
    OBVIOUS
  <2>2. MigrationPoints(a) \in {Measured(2 * 8), Measured(2 * 2), Measured(2 * 6), Measured(2 * 4), Unmeasured}
    BY DEF MigrationPoints
  <2>3. QED
    BY <2>1, <2>2 DEF PointsOK
<1>4. PointsOK(ContextEnumPoints(c.criticality, CriticalityPoints), 20)
  <2>1. c.criticality \in {"critical", "high", "medium", "low", "unknown"}
    BY DEF ContextRecords
  <2>2. c.criticality # "unknown" => 2 * CriticalityPoints[c.criticality] \in 0..20
    BY <2>1 DEF CriticalityPoints
  <2>3. QED
    BY <2>2 DEF ContextEnumPoints, PointsOK
<1>5. PointsOK(ContextEnumPoints(c.exposure, ExposureLevelPoints), 20)
  <2>1. c.exposure \in {"internet", "partner", "internal", "isolated", "unknown"}
    BY DEF ContextRecords
  <2>2. c.exposure # "unknown" => 2 * ExposureLevelPoints[c.exposure] \in 0..20
    BY <2>1 DEF ExposureLevelPoints
  <2>3. QED
    BY <2>2 DEF ContextEnumPoints, PointsOK
<1>6. QED
  BY <1>1, <1>2, <1>3, <1>4, <1>5

AllPointsOK(points) ==
  /\ DOMAIN points = {"algorithm", "mosca", "resource", "data", "criticality", "exposure", "migration"}
  /\ PointsOK(points.algorithm, 50) /\ PointsOK(points.mosca, 40) /\ PointsOK(points.resource, 30)
  /\ PointsOK(points.data, 24) /\ PointsOK(points.criticality, 20) /\ PointsOK(points.exposure, 20)
  /\ PointsOK(points.migration, 16)

\* Every contribution is within its weight, and 0 without evidence.
LEMMA ContributionsFit ==
  ASSUME NEW a, NEW c \in ContextRecords, NEW mo, MoscaTyped(mo), NEW r, ResourceTyped(r)
  PROVE  AllPointsOK(Contributions(a, c, mo, r))
<1>1. PointsOK(MoscaPoints(mo), 40) /\ PointsOK(ResourcePoints(r), 30)
  BY MoscaPointsGrow, ResourcePointsGrow
<1>2. /\ PointsOK(AlgorithmPoints(a), 50) /\ PointsOK(DataPoints(c), 24) /\ PointsOK(MigrationPoints(a), 16)
      /\ PointsOK(ContextEnumPoints(c.criticality, CriticalityPoints), 20)
      /\ PointsOK(ContextEnumPoints(c.exposure, ExposureLevelPoints), 20)
  BY OtherPoints
<1>3. QED
  BY <1>1, <1>2 DEF Contributions, AllPointsOK

LEMMA HalvesOf ==
  ASSUME NEW points, AllPointsOK(points)
  PROVE  /\ points.algorithm.halves \in 0..50 /\ points.mosca.halves \in 0..40 /\ points.resource.halves \in 0..30
         /\ points.data.halves \in 0..24 /\ points.criticality.halves \in 0..20 /\ points.exposure.halves \in 0..20
         /\ points.migration.halves \in 0..16
  BY PointsFacts DEF AllPointsOK

\* The seven contributions total at most 100 points, 200 halves.
LEMMA TotalFacts ==
  ASSUME NEW points, AllPointsOK(points)
  PROVE  /\ Total(points) \in 0..200
         /\ \A f \in DOMAIN points : ContributionAccepted(f, points[f])
<1>1. /\ points.algorithm.halves \in 0..50 /\ points.mosca.halves \in 0..40 /\ points.resource.halves \in 0..30
      /\ points.data.halves \in 0..24 /\ points.criticality.halves \in 0..20 /\ points.exposure.halves \in 0..20
      /\ points.migration.halves \in 0..16
  BY HalvesOf
<1>5. ASSUME NEW f \in DOMAIN points PROVE ~points[f].evidence => points[f].halves = 0
  <2>1. PICK most \in Nat : PointsOK(points[f], most)
    BY DEF AllPointsOK
  <2>2. QED
    BY <2>1, PointsFacts
<1>2. Total(points) \in 0..200
  <2>1. PICK d \in 0..50, m \in 0..40, r \in 0..30, s \in 0..24, k \in 0..20, e \in 0..20, g \in 0..16 :
          /\ points.algorithm.halves = d /\ points.mosca.halves = m /\ points.resource.halves = r
          /\ points.data.halves = s /\ points.criticality.halves = k /\ points.exposure.halves = e
          /\ points.migration.halves = g
    BY <1>1
  <2>2. Total(points) = d + m + r + s + k + e + g
    BY <2>1 DEF Total
  <2>3. d + m + r + s + k + e + g \in 0..200
    OBVIOUS
  <2>4. QED
    BY <2>2, <2>3
<1>3. ASSUME NEW f \in DOMAIN points PROVE points[f].halves <= 2 * FactorWeights[f]
  <2>1. /\ FactorWeights["algorithm"] = 25 /\ FactorWeights["mosca"] = 20 /\ FactorWeights["resource"] = 15
        /\ FactorWeights["data"] = 12 /\ FactorWeights["criticality"] = 10 /\ FactorWeights["exposure"] = 10
        /\ FactorWeights["migration"] = 8
    BY DEF FactorWeights
  <2>2. f \in {"algorithm", "mosca", "resource", "data", "criticality", "exposure", "migration"}
    BY DEF AllPointsOK
  <2>3. QED
    BY <1>1, <2>1, <2>2
<1>4. QED
  BY <1>2, <1>3, <1>5 DEF ContributionAccepted

-----------------------------------------------------------------------------
(* The verdict. *)
Complete(mo, r) == Known(mo.x) /\ Known(mo.y) /\ Known(mo.z) /\ r.status # "model_unavailable"
LEMMA NothingMissing ==
  ASSUME NEW mo, NEW r
  PROVE  MissingTrackFields(mo, r) = {} <=> Complete(mo, r)
  BY DEF MissingTrackFields, Complete

\* What the tracks amount to passes the validators of a verdict.
LEMMA JudgedFacts ==
  ASSUME NEW a, NEW c \in ContextRecords, NEW mo, MoscaTyped(mo), NEW r, ResourceTyped(r)
  PROVE  LET v == JudgedByTracks(a, c, mo, r) IN
         /\ AssessmentAccepted(v) /\ v.mosca = mo /\ v.resource = r
         /\ v.status = IF Complete(mo, r) THEN "scored" ELSE "needs_context"
         /\ v.score = IF Complete(mo, r) THEN Total(Contributions(a, c, mo, r)) ELSE Absent
         /\ v.hndl = IF Complete(mo, r) THEN Hndl(a, c, mo.x, r.m) ELSE "none"
<1> DEFINE v == JudgedByTracks(a, c, mo, r)
           points == Contributions(a, c, mo, r)
           missing == MissingTrackFields(mo, r)
<1>1. /\ v.mosca = mo /\ v.resource = r /\ v.points = points /\ v.missing = missing
      /\ v.status = (IF missing = {} THEN "scored" ELSE "needs_context")
      /\ v.score = (IF missing = {} THEN Total(points) ELSE Absent)
      /\ v.priority = (IF missing = {} THEN BandForScore(v.score) ELSE "none")
      /\ v.hndl = (IF missing = {} THEN Hndl(a, c, mo.x, r.m) ELSE "none")
  BY DEF JudgedByTracks, Judged
<1>2. AllPointsOK(points)
  BY ContributionsFit
<1> HIDE DEF v, points, missing
<1>3. Total(points) \in 0..200 /\ \A f \in DOMAIN points : ContributionAccepted(f, points[f])
  BY <1>2, TotalFacts
<1>4. missing = {} <=> Complete(mo, r)
  BY NothingMissing DEF missing
<1>5. Complete(mo, r) => mo.resolved /\ ResourceResolved(r)
  BY DEF Complete, MoscaTyped, ResourceTyped, ResourceResolved
<1>6. Known(v.score) <=> missing = {}
  BY <1>1, <1>3 DEF Known, Absent
<1>7. v.mosca.urgent => v.mosca.resolved
  BY <1>1 DEF MoscaTyped
<1>8. AssessmentAccepted(v)
  BY <1>1, <1>3, <1>4, <1>5, <1>6, <1>7 DEF AssessmentAccepted
<1>9. QED
  BY <1>1, <1>4, <1>8 DEF v, points, missing

\* A verdict by policy passes the validators of a verdict.
LEMMA DecidedFacts ==
  ASSUME NEW a, ~Undecided(a)
  PROVE  LET v == DecidedByPolicy(a) IN
         /\ AssessmentAccepted(v) /\ v.score = Absent /\ v.hndl = "none" /\ v.priority = "none"
         /\ v.status \in {"dependency_only", "policy_decided", "not_applicable"} /\ v.mosca = NoMosca
         /\ v.resource = ResourceTrack("model_unavailable", Absent, "none") /\ v.confidence = "none"
         /\ v.points = << >> /\ v.missing = {}
<1> DEFINE v == DecidedByPolicy(a)
<1>1. /\ v.score = Absent /\ v.hndl = "none" /\ v.status = PolicyStatus(a) /\ v.mosca = NoMosca
      /\ v.resource = ResourceTrack("model_unavailable", Absent, "none") /\ v.confidence = "none"
      /\ v.points = << >> /\ v.missing = {} /\ v.priority = "none"
  BY DEF DecidedByPolicy
<1>2. PolicyStatus(a) \in {"dependency_only", "policy_decided", "not_applicable"}
  BY DEF Undecided, PolicyStatus
<1> HIDE DEF v
<1>3. ~v.mosca.urgent
  BY <1>1 DEF NoMosca
<1>4. AssessmentAccepted(v)
  BY <1>1, <1>2, <1>3 DEF AssessmentAccepted, Known
<1>5. QED
  BY <1>1, <1>2, <1>4 DEF v

(* Every artefact the orchestrator may hold is classified. *)
LEMMA ClassifyFacts ==
  ASSUME NEW a \in ArtefactRecords, NEW c \in ContextRecords, NEW h \in Maybe, NEW s
  PROVE  LET r == EvaluateResources(a, s)  mo == EvaluateMosca(c, h, r) IN
         /\ AssessmentAccepted(Classify(a, c, h, s)) /\ Classify(a, c, h, s).status # "raised"
         /\ Undecided(a) => /\ Classify(a, c, h, s) = JudgedByTracks(a, c, mo, r)
                            /\ ResourceTyped(r) /\ MoscaTyped(mo)
         /\ ~Undecided(a) => Classify(a, c, h, s) = DecidedByPolicy(a)
<1> DEFINE r == EvaluateResources(a, s)
           mo == EvaluateMosca(c, h, r)
<1>1. CASE Undecided(a)
  <2>1. ResourceTyped(r)
    BY <1>1, ResourcesTyped
  <2> HIDE DEF r
  <2>2. MoscaTyped(mo)
    BY <2>1, MoscaOf
  <2>3. Classify(a, c, h, s) = Built(JudgedByTracks(a, c, mo, r))
    BY <1>1 DEF Classify, Undecided, r
  <2> HIDE DEF mo
  <2>4. AssessmentAccepted(JudgedByTracks(a, c, mo, r)) /\ JudgedByTracks(a, c, mo, r).status # "raised"
    BY <2>1, <2>2, JudgedFacts
  <2>5. QED
    BY <1>1, <2>1, <2>2, <2>3, <2>4 DEF Built, mo, r
<1>2. CASE ~Undecided(a)
  <2>1. Classify(a, c, h, s) = Built(DecidedByPolicy(a))
    BY <1>2 DEF Classify, Undecided
  <2>2. QED
    BY <1>2, <2>1, DecidedFacts DEF Built
<1>3. QED
  BY <1>1, <1>2

SameSetting(c, d) ==
  /\ c.classification = d.classification /\ c.category = d.category /\ c.criticality = d.criticality
  /\ c.exposure = d.exposure /\ c.migration = d.migration

(* A verdict only gets more urgent when its tracks do. *)
LEMMA ScoreGrows ==
  ASSUME NEW a, NEW c \in ContextRecords, NEW d \in ContextRecords, SameSetting(c, d),
         NEW mo, MoscaTyped(mo), NEW new, MoscaTyped(new), NEW r, ResourceTyped(r), NEW s, ResourceTyped(s),
         NoLater(r, s), Complete(mo, r) => Complete(new, s) /\ mo.shortfall <= new.shortfall
  PROVE  JudgedByTracks(a, c, mo, r).score <= JudgedByTracks(a, d, new, s).score
<1> DEFINE p == Contributions(a, c, mo, r)
           q == Contributions(a, d, new, s)
<1>1. AllPointsOK(p) /\ AllPointsOK(q)
  BY ContributionsFit
<1>2. /\ p.algorithm = q.algorithm /\ p.data = q.data /\ p.criticality = q.criticality
      /\ p.exposure = q.exposure /\ p.migration = q.migration
      /\ p.mosca = MoscaPoints(mo) /\ q.mosca = MoscaPoints(new)
      /\ p.resource = ResourcePoints(r) /\ q.resource = ResourcePoints(s)
  BY DEF Contributions, DataPoints, Sensitivity, SameSetting
<1>3. /\ JudgedByTracks(a, c, mo, r).score = IF Complete(mo, r) THEN Total(p) ELSE Absent
      /\ JudgedByTracks(a, d, new, s).score = IF Complete(new, s) THEN Total(q) ELSE Absent
  BY JudgedFacts
<1> HIDE DEF p, q
<1>4. Total(p) \in 0..200 /\ Total(q) \in 0..200
  BY <1>1, TotalFacts
<1>5. CASE ~Complete(mo, r)
  <2>1. JudgedByTracks(a, c, mo, r).score = -1 /\ JudgedByTracks(a, d, new, s).score \in -1..200
    BY <1>3, <1>4, <1>5 DEF Absent
  <2>2. QED
    BY <2>1
<1>6. CASE Complete(mo, r)
  <2>1. mo.resolved /\ new.resolved
    BY <1>6 DEF Complete, MoscaTyped
  <2>2. p.mosca.halves <= q.mosca.halves /\ p.resource.halves <= q.resource.halves
    BY <2>1, <1>2, <1>6, MoscaPointsGrow, ResourcePointsGrow
  <2>3. PICK e1 \in 0..50, m1 \in 0..40, r1 \in 0..30, s1 \in 0..24, k1 \in 0..20, x1 \in 0..20, g1 \in 0..16 :
          /\ p.algorithm.halves = e1 /\ p.mosca.halves = m1 /\ p.resource.halves = r1
          /\ p.data.halves = s1 /\ p.criticality.halves = k1 /\ p.exposure.halves = x1
          /\ p.migration.halves = g1
    BY <1>1, HalvesOf
  <2>4. PICK m2 \in 0..40, r2 \in 0..30 : q.mosca.halves = m2 /\ q.resource.halves = r2
    BY <1>1, HalvesOf
  <2>5. Total(p) = e1 + m1 + r1 + s1 + k1 + x1 + g1 /\ Total(q) = e1 + m2 + r2 + s1 + k1 + x1 + g1
    BY <1>2, <2>3, <2>4 DEF Total
  <2>6. m1 <= m2 /\ r1 <= r2
    BY <2>2, <2>3, <2>4
  <2>7. e1 + m1 + r1 + s1 + k1 + x1 + g1 <= e1 + m2 + r2 + s1 + k1 + x1 + g1
    BY <2>6
  <2>8. QED
    BY <2>5, <2>7, <1>3, <1>6
<1>7. QED
  BY <1>5, <1>6

LEMMA CapabilityRaises ==
  ASSUME NEW a \in ArtefactRecords, Undecided(a), NEW c \in ContextRecords, NEW h \in Maybe,
         NEW less, NEW more, NoLater(EvaluateResources(a, less), EvaluateResources(a, more))
  PROVE  Classify(a, c, h, less).score <= Classify(a, c, h, more).score
<1> DEFINE r == EvaluateResources(a, less)
           s == EvaluateResources(a, more)
           mo == EvaluateMosca(c, h, r)
           new == EvaluateMosca(c, h, s)
<1>1. /\ Classify(a, c, h, less) = JudgedByTracks(a, c, mo, r) /\ Classify(a, c, h, more) = JudgedByTracks(a, c, new, s)
      /\ ResourceTyped(r) /\ ResourceTyped(s) /\ MoscaTyped(mo) /\ MoscaTyped(new)
  BY ClassifyFacts
<1> HIDE DEF r, s
<1>2. /\ mo.x = new.x /\ mo.y = new.y
      /\ mo.z = IF Known(h) THEN h ELSE IF r.status = "calculated" THEN r.m ELSE Absent
      /\ new.z = IF Known(h) THEN h ELSE IF s.status = "calculated" THEN s.m ELSE Absent
  BY <1>1, MoscaOf
<1> HIDE DEF mo, new
<1>3. NoLater(r, s)
  BY DEF r, s
<1>4. ASSUME Complete(mo, r) PROVE Complete(new, s) /\ mo.shortfall <= new.shortfall
  <2>1. s.status # "model_unavailable"
    BY <1>3, <1>4 DEF Complete, NoLater
  <2>2. Known(new.z) /\ new.z <= mo.z
    <3>1. CASE Known(h)
      <4>1. h \in Nat /\ new.z = h /\ mo.z = h
        BY <3>1, <1>2 DEF Maybe, Known
      <4>2. QED
        BY <4>1, <3>1
    <3>2. CASE ~Known(h)
      <4>1. r.status = "calculated"
        BY <3>2, <1>2, <1>4 DEF Complete, Known
      <4>2. s.status = "calculated" /\ s.m <= r.m /\ s.m \in Nat
        BY <4>1, <1>1, <1>3 DEF NoLater, ResourceTyped
      <4>3. QED
        BY <4>1, <4>2, <3>2, <1>2 DEF Known, Absent
    <3>3. QED
      BY <3>1, <3>2
  <2>3. Complete(new, s)
    BY <2>1, <2>2, <1>2, <1>4 DEF Complete
  <2>4. mo.resolved /\ new.resolved
    BY <2>3, <1>1, <1>4 DEF Complete, MoscaTyped
  <2>5. /\ mo.x \in Nat /\ mo.y \in Nat /\ mo.z \in Nat /\ new.z \in Nat
        /\ mo.shortfall = mo.x + mo.y - mo.z /\ new.shortfall = mo.x + mo.y - new.z
    BY <2>4, <1>1, <1>2 DEF MoscaTyped
  <2>6. mo.shortfall <= new.shortfall
    BY <2>2, <2>5
  <2>7. QED
    BY <2>3, <2>6
<1>5. JudgedByTracks(a, c, mo, r).score <= JudgedByTracks(a, c, new, s).score
  BY <1>1, <1>3, <1>4, ScoreGrows DEF SameSetting
<1>6. QED
  BY <1>1, <1>5

\* More capability never lowers a score.
LEMMA CapabilitySound ==
  ASSUME NEW a \in ArtefactRecords, NEW c \in ContextRecords, NEW h \in Maybe
  PROVE  MoreCapabilityNeverLowersScore(a, c, h)
<1>1. CASE Undecided(a)
  BY <1>1, ResourcesEarlier, CapabilityRaises DEF MoreCapabilityNeverLowersScore
<1>2. CASE ~Undecided(a)
  <2>1. \A s : Classify(a, c, h, s).score = Absent
    BY <1>2, ClassifyFacts, DecidedFacts
  <2>2. Absent <= Absent
    BY DEF Absent
  <2>3. QED
    BY <2>1, <2>2 DEF MoreCapabilityNeverLowersScore
<1>3. QED
  BY <1>1, <1>2

LEMMA LifetimeRaises ==
  ASSUME NEW a \in ArtefactRecords, Undecided(a), NEW c \in ContextRecords, NEW d \in ContextRecords,
         SameSetting(c, d), NEW h \in Maybe, NEW s,
         RawEvidence(c) # {} => /\ RawEvidence(d) # {}
                                /\ Max(LifetimesOf(RawEvidence(c))) <= Max(LifetimesOf(RawEvidence(d)))
  PROVE  Classify(a, c, h, s).score <= Classify(a, d, h, s).score
<1> DEFINE r == EvaluateResources(a, s)
           mo == EvaluateMosca(c, h, r)
           new == EvaluateMosca(d, h, r)
<1>1. /\ Classify(a, c, h, s) = JudgedByTracks(a, c, mo, r) /\ Classify(a, d, h, s) = JudgedByTracks(a, d, new, r)
      /\ ResourceTyped(r) /\ MoscaTyped(mo) /\ MoscaTyped(new)
  BY ClassifyFacts
<1> HIDE DEF r
<1>2. /\ mo.x = ResolveX(c).years /\ new.x = ResolveX(d).years /\ mo.y = new.y /\ mo.z = new.z
  BY <1>1, MoscaOf DEF SameSetting
<1>3. /\ RawEvidence(c) = {} => mo.x = Absent
      /\ RawEvidence(c) # {} => /\ mo.x = Max(LifetimesOf(RawEvidence(c))) /\ mo.x \in Nat
                                /\ new.x = Max(LifetimesOf(RawEvidence(d))) /\ new.x \in Nat
  BY <1>2, RawHeard, ResolvedX
<1> HIDE DEF mo, new
<1>4. ASSUME Complete(mo, r) PROVE Complete(new, r) /\ mo.shortfall <= new.shortfall
  <2>1. RawEvidence(c) # {}
    BY <1>3, <1>4 DEF Complete, Known
  <2>2. mo.x <= new.x /\ mo.x \in Nat /\ new.x \in Nat
    BY <2>1, <1>3
  <2>3. Complete(new, r)
    BY <2>2, <1>2, <1>4 DEF Complete, Known, Absent
  <2>4. /\ mo.y \in Nat /\ mo.z \in Nat
        /\ mo.shortfall = mo.x + mo.y - mo.z /\ new.shortfall = new.x + mo.y - mo.z
    BY <2>3, <1>1, <1>2, <1>4 DEF Complete, MoscaTyped
  <2>5. mo.shortfall <= new.shortfall
    BY <2>2, <2>4
  <2>6. QED
    BY <2>3, <2>5
<1>5. NoLater(r, r)
  BY <1>1 DEF NoLater, ResourceTyped
<1>6. JudgedByTracks(a, c, mo, r).score <= JudgedByTracks(a, d, new, r).score
  BY <1>1, <1>4, <1>5, ScoreGrows
<1>7. QED
  BY <1>1, <1>6

LEMMA StatedLonger ==
  ASSUME NEW c \in ContextRecords, Known(c.lifetime), NEW years \in Nat, c.lifetime <= years
  PROVE  LET d == [c EXCEPT !.lifetime = years] IN
         /\ d \in ContextRecords /\ SameSetting(c, d)
         /\ RawEvidence(c) # {} => /\ RawEvidence(d) # {}
                                   /\ Max(LifetimesOf(RawEvidence(c))) <= Max(LifetimesOf(RawEvidence(d)))
<1> DEFINE d == [c EXCEPT !.lifetime = years]
<1>1. d \in ContextRecords /\ SameSetting(c, d)
  BY DEF ContextRecords, SameSetting
<1>2. /\ d.retention = c.retention /\ d.category = c.category /\ d.categoryTier = c.categoryTier
      /\ d.lifetimeTier = c.lifetimeTier /\ d.lifetime = years
  BY DEF ContextRecords
<1> HIDE DEF d
<1>3. CategoryEvidence(d) = CategoryEvidence(c)
  BY <1>2 DEF CategoryEvidence
<1>4. Known(years)
  BY DEF Known, Absent
<1>5. \A e \in RawEvidence(c) \cup RawEvidence(d) : SourceRank[e.source] \in 0..3 /\ e.lifetime \in Nat
  BY <1>1, RawHeard, RankOf DEF Heard
<1>6. ASSUME NEW e \in RawEvidence(c)
      PROVE  \E f \in RawEvidence(d) : SourceRank[f.source] = SourceRank[e.source] /\ e.lifetime <= f.lifetime
  <2>1. CASE e \in DirectEvidence(c)
    <3>1. /\ e = Evidence(SourceForTier(c.lifetimeTier), c.lifetime)
          /\ Evidence(SourceForTier(c.lifetimeTier), years) \in DirectEvidence(d)
      BY <2>1, <1>2, <1>4 DEF DirectEvidence
    <3>2. QED
      BY <3>1 DEF Evidence, RawEvidence
  <2>2. CASE e \notin DirectEvidence(c)
    <3>1. e \in RawEvidence(d)
      BY <2>2, <1>2, <1>3 DEF RawEvidence
    <3>2. e.lifetime <= e.lifetime
      BY <1>5
    <3>3. QED
      BY <3>1, <3>2
  <2>3. QED
    BY <2>1, <2>2
<1>7. ASSUME NEW f \in RawEvidence(d)
      PROVE  \E e \in RawEvidence(c) : SourceRank[e.source] <= SourceRank[f.source]
  <2>0. SourceRank[f.source] <= SourceRank[f.source]
    BY <1>5
  <2>1. CASE f \in DirectEvidence(d)
    <3>1. /\ f = Evidence(SourceForTier(c.lifetimeTier), years)
          /\ Evidence(SourceForTier(c.lifetimeTier), c.lifetime) \in DirectEvidence(c)
      BY <2>1, <1>2 DEF DirectEvidence
    <3>2. QED
      BY <2>0, <3>1 DEF Evidence, RawEvidence
  <2>2. CASE f \notin DirectEvidence(d)
    BY <2>0, <2>2, <1>2, <1>3 DEF RawEvidence
  <2>3. QED
    BY <2>1, <2>2
<1>8. Heard(RawEvidence(c)) /\ Heard(RawEvidence(d))
  BY <1>1, RawHeard
<1>9. ASSUME RawEvidence(c) # {} PROVE /\ RawEvidence(d) # {}
                                       /\ Max(LifetimesOf(RawEvidence(c))) <= Max(LifetimesOf(RawEvidence(d)))
  BY <1>6, <1>7, <1>8, <1>9, YearsGrow
<1>10. QED
  BY <1>1, <1>9 DEF d

LEMMA HeardAgain ==
  ASSUME NEW c \in ContextRecords, NEW years \in Nat, NEW source \in DOMAIN SourceRank,
         \A e \in RawEvidence(c) : SourceRank[e.source] <= SourceRank[source]
  PROVE  LET d == [c EXCEPT !.retention = @ \cup {Evidence(source, years)}] IN
         /\ d \in ContextRecords /\ SameSetting(c, d)
         /\ RawEvidence(c) # {} => /\ RawEvidence(d) # {}
                                   /\ Max(LifetimesOf(RawEvidence(c))) <= Max(LifetimesOf(RawEvidence(d)))
<1> DEFINE more == c.retention \cup {Evidence(source, years)}
           d == [c EXCEPT !.retention = more]
<1>1. source \in {"user", "scanner", "org_policy", "legal_profile"}
  BY DEF SourceRank
<1>2. Evidence(source, years) \in EvidenceRecords
  BY <1>1 DEF Evidence, EvidenceRecords
<1>3. c.retention \subseteq EvidenceRecords /\ IsFiniteSet(c.retention)
  BY DEF ContextRecords
<1>4. more \in SUBSET EvidenceRecords /\ IsFiniteSet(more)
  BY <1>2, <1>3, FS_AddElement
<1> HIDE DEF more
<1>5. d \in ContextRecords /\ SameSetting(c, d)
  BY <1>4 DEF ContextRecords, SameSetting
<1>6. /\ d.retention = more /\ d.category = c.category /\ d.categoryTier = c.categoryTier
      /\ d.lifetimeTier = c.lifetimeTier /\ d.lifetime = c.lifetime
  BY DEF ContextRecords
<1> HIDE DEF d
<1>7. RawEvidence(d) = RawEvidence(c) \cup {Evidence(source, years)}
  BY <1>6 DEF RawEvidence, DirectEvidence, CategoryEvidence, more
<1>8. Heard(RawEvidence(c)) /\ Heard(RawEvidence(d))
  BY <1>5, RawHeard
<1>9. \A e \in RawEvidence(d) : SourceRank[e.source] \in 0..3 /\ e.lifetime \in Nat
  BY <1>8, RankOf DEF Heard
<1>10. ASSUME RawEvidence(c) # {} PROVE /\ RawEvidence(d) # {}
                                        /\ Max(LifetimesOf(RawEvidence(c))) <= Max(LifetimesOf(RawEvidence(d)))
  <2>1. \A e \in RawEvidence(c) : e \in RawEvidence(d) /\ e.lifetime <= e.lifetime
                                 /\ SourceRank[e.source] <= SourceRank[e.source]
    BY <1>7, <1>9
  <2>2. Evidence(source, years).source = source
    BY DEF Evidence
  <2>3. \A f \in RawEvidence(d) : \E e \in RawEvidence(c) : SourceRank[e.source] <= SourceRank[f.source]
    BY <2>1, <2>2, <1>7, <1>10
  <2>4. QED
    BY <2>1, <2>3, <1>8, <1>10, YearsGrow
<1>11. QED
  BY <1>5, <1>10 DEF d, more

\* A longer lifetime never lowers a score.
LEMMA LifetimeSound ==
  ASSUME NEW a \in ArtefactRecords, NEW c \in ContextRecords, NEW h \in Maybe, NEW s, NEW years \in Nat
  PROVE  LongerLifetimeNeverLowersScore(a, c, h, s, years)
<1>1. ASSUME NEW d \in ContextRecords, ~Undecided(a) PROVE Classify(a, c, h, s).score <= Classify(a, d, h, s).score
  <2>1. Classify(a, c, h, s).score = Absent /\ Classify(a, d, h, s).score = Absent
    BY <1>1, ClassifyFacts, DecidedFacts
  <2>2. QED
    BY <2>1 DEF Absent
<1>2. ASSUME Known(c.lifetime) /\ c.lifetime <= years
      PROVE  Classify(a, c, h, s).score <= Classify(a, [c EXCEPT !.lifetime = years], h, s).score
  <2> DEFINE d == [c EXCEPT !.lifetime = years]
  <2>1. /\ d \in ContextRecords /\ SameSetting(c, d)
        /\ RawEvidence(c) # {} => /\ RawEvidence(d) # {}
                                  /\ Max(LifetimesOf(RawEvidence(c))) <= Max(LifetimesOf(RawEvidence(d)))
    BY <1>2, StatedLonger
  <2> HIDE DEF d
  <2>2. Classify(a, c, h, s).score <= Classify(a, d, h, s).score
    BY <2>1, <1>1, LifetimeRaises
  <2>3. QED
    BY <2>2 DEF d
<1>3. ASSUME NEW source \in DOMAIN SourceRank, \A e \in RawEvidence(c) : SourceRank[e.source] <= SourceRank[source]
      PROVE  Classify(a, c, h, s).score
               <= Classify(a, [c EXCEPT !.retention = @ \cup {Evidence(source, years)}], h, s).score
  <2> DEFINE d == [c EXCEPT !.retention = @ \cup {Evidence(source, years)}]
  <2>1. /\ d \in ContextRecords /\ SameSetting(c, d)
        /\ RawEvidence(c) # {} => /\ RawEvidence(d) # {}
                                  /\ Max(LifetimesOf(RawEvidence(c))) <= Max(LifetimesOf(RawEvidence(d)))
    BY <1>3, HeardAgain
  <2> HIDE DEF d
  <2>2. Classify(a, c, h, s).score <= Classify(a, d, h, s).score
    BY <2>1, <1>1, LifetimeRaises
  <2>3. QED
    BY <2>2 DEF d
<1>4. QED
  BY <1>2, <1>3 DEF LongerLifetimeNeverLowersScore

\* A scored verdict is no more certain than either of its tracks.
LEMMA JudgedConfidence ==
  ASSUME NEW a, NEW c, NEW mo, MoscaTyped(mo), NEW r, ResourceTyped(r), Complete(mo, r)
  PROVE  LET v == JudgedByTracks(a, c, mo, r) IN
         /\ v.confidence \in Sure /\ ConfidenceRank[mo.confidence] <= ConfidenceRank[v.confidence]
         /\ ConfidenceRank[r.confidence] <= ConfidenceRank[v.confidence]
<1> DEFINE v == JudgedByTracks(a, c, mo, r)
           points == Contributions(a, c, mo, r)
           both == Weaker({mo.confidence, r.confidence} \ {"none"})
<1>1. MissingTrackFields(mo, r) = {}
  BY NothingMissing
<1>2. v.confidence = IF \E f \in DOMAIN points : ~points[f].evidence THEN Downgrade(both) ELSE both
  BY <1>1 DEF JudgedByTracks, Judged
<1>3. mo.confidence \in Sure /\ r.confidence \in Sure
  BY DEF Complete, MoscaTyped, ResourceTyped, Sure
<1>4. {mo.confidence, r.confidence} \ {"none"} = {mo.confidence, r.confidence}
      /\ {mo.confidence, r.confidence} \in SUBSET {"high", "medium", "low"}
  BY <1>3 DEF Sure
<1>5. both \in Sure /\ ConfidenceRank[mo.confidence] <= ConfidenceRank[both]
      /\ ConfidenceRank[r.confidence] <= ConfidenceRank[both]
  BY <1>3, <1>4, WeakerOf DEF Sure
<1> HIDE DEF v, both, points
<1>6. ConfidenceRank["high"] = 0 /\ ConfidenceRank["medium"] = 1 /\ ConfidenceRank["low"] = 2
  BY DEF ConfidenceRank
<1>7. Downgrade(both) \in Sure /\ ConfidenceRank[both] <= ConfidenceRank[Downgrade(both)]
  BY <1>5, <1>6 DEF Sure, Downgrade
<1>8. v.confidence \in {both, Downgrade(both)}
  BY <1>2
<1>9. QED
  <2>1. CASE v.confidence = both
    BY <2>1, <1>5 DEF v
  <2>2. CASE v.confidence = Downgrade(both)
    <3>1. \A x, y, z \in {0, 1, 2} : x <= y /\ y <= z => x <= z
      OBVIOUS
    <3>2. \A q \in Sure : ConfidenceRank[q] \in {0, 1, 2}
      BY <1>6 DEF Sure
    <3>3. ConfidenceRank[mo.confidence] <= ConfidenceRank[Downgrade(both)]
      BY <3>1, <3>2, <1>3, <1>5, <1>7
    <3>4. ConfidenceRank[r.confidence] <= ConfidenceRank[Downgrade(both)]
      BY <3>1, <3>2, <1>3, <1>5, <1>7
    <3>5. QED
      BY <2>2, <3>3, <3>4, <1>7 DEF v
  <2>3. QED
    BY <1>8, <2>1, <2>2

\* Harvest now, Mosca urgency and confidence agree.
LEMMA TracksSound ==
  ASSUME NEW a \in ArtefactRecords, NEW c \in ContextRecords, NEW h \in Maybe, NEW s
  PROVE  TracksAgree(Classify(a, c, h, s))
<1> DEFINE r == EvaluateResources(a, s)
           mo == EvaluateMosca(c, h, r)
           v == JudgedByTracks(a, c, mo, r)
<1>1. CASE ~Undecided(a)
  <2>1. Classify(a, c, h, s).hndl = "none" /\ Classify(a, c, h, s).status # "scored"
    BY <1>1, ClassifyFacts, DecidedFacts
  <2>2. QED
    BY <2>1 DEF TracksAgree
<1>2. CASE Undecided(a)
  <2>1. Classify(a, c, h, s) = v /\ ResourceTyped(r) /\ MoscaTyped(mo)
    BY <1>2, ClassifyFacts
  <2>2. mo.basis = "resource_model" => mo.z = r.m
    BY <2>1, MoscaOf
  <2> HIDE DEF r, mo
  <2>3. /\ v.mosca = mo /\ v.resource = r
        /\ v.status = IF Complete(mo, r) THEN "scored" ELSE "needs_context"
        /\ v.hndl = IF Complete(mo, r) THEN Hndl(a, c, mo.x, r.m) ELSE "none"
    BY <2>1, JudgedFacts
  <2>4. Complete(mo, r) => /\ ConfidenceRank[mo.confidence] <= ConfidenceRank[v.confidence]
                           /\ ConfidenceRank[r.confidence] <= ConfidenceRank[v.confidence]
    BY <2>1, JudgedConfidence
  <2> HIDE DEF v
  <2>5. ASSUME v.hndl = "harvest_now_decrypt_later", v.mosca.basis = "resource_model" PROVE v.mosca.urgent
    <3>1. Complete(mo, r) /\ Hndl(a, c, mo.x, r.m) = "harvest_now_decrypt_later"
      BY <2>3, <2>5
    <3>2. Outlives(mo.x, r.m)
      BY <3>1 DEF Hndl
    <3>3. mo.resolved /\ mo.x \in Nat /\ mo.y \in Nat /\ mo.z \in Nat /\ mo.z = r.m
      BY <3>1, <2>1, <2>2, <2>3, <2>5 DEF Complete, MoscaTyped
    <3>4. mo.x + mo.y - mo.z > 0
      BY <3>2, <3>3 DEF Outlives
    <3>5. QED
      BY <3>3, <3>4, <2>1, <2>3 DEF MoscaTyped
  <2>6. ASSUME v.status = "scored"
        PROVE  /\ ConfidenceRank[v.confidence] >= ConfidenceRank[v.mosca.confidence]
               /\ ConfidenceRank[v.confidence] >= ConfidenceRank[v.resource.confidence]
    BY <2>3, <2>4, <2>6
  <2>7. QED
    BY <2>1, <2>5, <2>6 DEF TracksAgree
<1>3. QED
  BY <1>1, <1>2

-----------------------------------------------------------------------------
(* Rows. *)
LEMMA ColumnReturns ==
  ASSUME NEW v, NEW empty
  PROVE  OrEmpty(OrNull(v, empty), empty) = v
<1>1. <<v>> # << >> /\ <<v>>[1] = v
  OBVIOUS
<1>2. QED
  BY <1>1 DEF OrEmpty, OrNull, Null

TrackFields == {"x", "y", "z", "basis", "urgent", "shortfall"}
LEMMA RowOfVerdict ==
  ASSUME NEW v, v.resource = ResourceTrack(v.resource.status, v.resource.m, v.resource.confidence)
  PROVE  LET w == AssessmentFromRow(AssessmentToRow(v)) IN
         /\ w.status = v.status /\ w.score = v.score /\ w.confidence = v.confidence /\ w.priority = v.priority
         /\ w.points = v.points /\ w.missing = v.missing /\ w.resource = v.resource
         /\ \A f \in TrackFields : w.mosca[f] = v.mosca[f]
         /\ w.mosca.resolved = (Known(v.mosca.x) /\ Known(v.mosca.y) /\ Known(v.mosca.z))
         /\ w.mosca.confidence = v.confidence
<1> DEFINE row == AssessmentToRow(v)
           w == AssessmentFromRow(row)
           kept == [f \in TrackFields |-> v.mosca[f]]
<1>1. /\ row.status = v.status /\ row.final_score = v.score /\ row.final_confidence = v.confidence
      /\ row.priority = v.priority /\ row.mosca = kept /\ row.resource_m_years = v.resource.m
      /\ row.quantum_projection_status = v.resource.status
      /\ row.attack_threshold_json = OrNull([confidence |-> v.resource.confidence], [confidence |-> "none"])
      /\ row.score_contributions_json = OrNull(v.points, << >>) /\ row.missing_fields_json = OrNull(v.missing, {})
  BY DEF AssessmentToRow, TrackFields
<1> HIDE DEF row
<1>2. /\ w.status = row.status /\ w.score = row.final_score /\ w.confidence = row.final_confidence
      /\ w.priority = row.priority /\ w.mosca = [f \in DOMAIN row.mosca \cup {"resolved", "confidence"} |->
                    CASE f = "resolved" -> Known(row.mosca.x) /\ Known(row.mosca.y) /\ Known(row.mosca.z)
                      [] f = "confidence" -> row.final_confidence
                      [] OTHER -> row.mosca[f]]
      /\ w.resource = ResourceTrack(row.quantum_projection_status, row.resource_m_years,
                         OrEmpty(row.attack_threshold_json, [confidence |-> "none"]).confidence)
      /\ w.points = OrEmpty(row.score_contributions_json, << >>)
      /\ w.missing = OrEmpty(row.missing_fields_json, {})
  BY DEF AssessmentFromRow
<1> HIDE DEF w
<1>3. w.points = v.points /\ w.missing = v.missing
  BY <1>1, <1>2, ColumnReturns
<1>4. OrEmpty(row.attack_threshold_json, [confidence |-> "none"]) = [confidence |-> v.resource.confidence]
  BY <1>1, ColumnReturns
<1>5. w.resource = v.resource
  BY <1>1, <1>2, <1>4
<1>6. /\ kept.x = v.mosca.x /\ kept.y = v.mosca.y /\ kept.z = v.mosca.z
      /\ DOMAIN kept = TrackFields /\ \A f \in TrackFields : kept[f] = v.mosca[f]
      /\ "resolved" \notin TrackFields /\ "confidence" \notin TrackFields
  BY DEF TrackFields
<1> HIDE DEF kept
<1>7. w.mosca = [f \in TrackFields \cup {"resolved", "confidence"} |->
                    CASE f = "resolved" -> Known(v.mosca.x) /\ Known(v.mosca.y) /\ Known(v.mosca.z)
                      [] f = "confidence" -> v.confidence
                      [] OTHER -> v.mosca[f]]
  <2>1. DOMAIN row.mosca = TrackFields /\ \A f \in TrackFields : row.mosca[f] = v.mosca[f]
    BY <1>1, <1>6
  <2>2. row.mosca.x = v.mosca.x /\ row.mosca.y = v.mosca.y /\ row.mosca.z = v.mosca.z
    BY <1>1, <1>6
  <2>3. \A f \in TrackFields \cup {"resolved", "confidence"} :
          f # "resolved" /\ f # "confidence" => row.mosca[f] = v.mosca[f]
    BY <2>1
  <2>4. QED
    BY <2>1, <2>2, <2>3, <1>1, <1>2, Zenon
<1>8. w.mosca["resolved"] = (Known(v.mosca.x) /\ Known(v.mosca.y) /\ Known(v.mosca.z))
  BY <1>7
<1>9. (\A f \in TrackFields : w.mosca[f] = v.mosca[f]) /\ w.mosca["confidence"] = v.confidence
  BY <1>6, <1>7
<1>10. QED
  BY <1>1, <1>2, <1>3, <1>5, <1>8, <1>9 DEF w, row

LEMMA ResolvedIs ==
  ASSUME NEW c, NEW h, NEW r
  PROVE  LET mo == EvaluateMosca(c, h, r) IN mo.resolved = (Known(mo.x) /\ Known(mo.y) /\ Known(mo.z))
  BY DEF EvaluateMosca, MoscaTrack

LEMMA RebuiltFrom ==
  ASSUME NEW v, AssessmentAccepted(v),
         v.resource = ResourceTrack(v.resource.status, v.resource.m, v.resource.confidence),
         v.mosca.resolved = (Known(v.mosca.x) /\ Known(v.mosca.y) /\ Known(v.mosca.z)),
         v.confidence = "none" \/ ConfidenceRank[v.confidence] >= ConfidenceRank[v.mosca.confidence]
  PROVE  StoredVerdictIsRebuilt(v)
<1> DEFINE w == AssessmentFromRow(AssessmentToRow(v))
<1>1. /\ w.status = v.status /\ w.score = v.score /\ w.confidence = v.confidence /\ w.priority = v.priority
      /\ w.points = v.points /\ w.missing = v.missing /\ w.resource = v.resource
      /\ \A f \in TrackFields : w.mosca[f] = v.mosca[f]
      /\ w.mosca.resolved = (Known(v.mosca.x) /\ Known(v.mosca.y) /\ Known(v.mosca.z))
      /\ w.mosca.confidence = v.confidence
  BY RowOfVerdict
<1> HIDE DEF w
<1>2. w.mosca.resolved = v.mosca.resolved
  BY <1>1
<1>3. AssessmentAccepted(w)
  BY <1>1, <1>2 DEF AssessmentAccepted, TrackFields
<1>4. \A f \in {"x", "y", "z", "basis", "urgent", "shortfall", "resolved"} : w.mosca[f] = v.mosca[f]
  BY <1>1, <1>2 DEF TrackFields
<1>5. QED
  BY <1>1, <1>3, <1>4 DEF StoredVerdictIsRebuilt, w

\* A verdict comes back from its row.
LEMMA StorageSound ==
  ASSUME NEW a \in ArtefactRecords, NEW c \in ContextRecords, NEW h \in Maybe, NEW s
  PROVE  StoredVerdictIsRebuilt(Classify(a, c, h, s))
<1> DEFINE r == EvaluateResources(a, s)
           mo == EvaluateMosca(c, h, r)
           v == Classify(a, c, h, s)
<1>1. AssessmentAccepted(v)
  BY ClassifyFacts
<1>2. CASE ~Undecided(a)
  <2>1. /\ v.mosca = NoMosca /\ v.resource = ResourceTrack("model_unavailable", Absent, "none")
        /\ v.confidence = "none"
    BY <1>2, ClassifyFacts, DecidedFacts
  <2> HIDE DEF v
  <2>2. v.mosca.resolved = (Known(v.mosca.x) /\ Known(v.mosca.y) /\ Known(v.mosca.z))
    <3>1. v.mosca.resolved = FALSE /\ ~Known(v.mosca.x)
      BY <2>1 DEF NoMosca, Known
    <3>2. QED
      BY <3>1, Zenon
  <2>3. v.resource = ResourceTrack(v.resource.status, v.resource.m, v.resource.confidence)
    BY <2>1 DEF ResourceTrack
  <2>4. StoredVerdictIsRebuilt(v)
    BY <1>1, <2>1, <2>2, <2>3, RebuiltFrom
  <2>5. QED
    BY <2>4 DEF v
<1>3. CASE Undecided(a)
  <2>1. v = JudgedByTracks(a, c, mo, r) /\ ResourceTyped(r) /\ MoscaTyped(mo)
    BY <1>3, ClassifyFacts
  <2>2. mo.resolved = (Known(mo.x) /\ Known(mo.y) /\ Known(mo.z))
    BY ResolvedIs
  <2>3. TracksAgree(v)
    BY TracksSound
  <2> HIDE DEF r, mo
  <2>4. /\ v.mosca = mo /\ v.resource = r
        /\ v.status = IF Complete(mo, r) THEN "scored" ELSE "needs_context"
    BY <2>1, JudgedFacts
  <2>5. ~Complete(mo, r) => v.confidence = "none"
    BY <2>1, NothingMissing DEF JudgedByTracks, Judged
  <2> HIDE DEF v
  <2>6. v.confidence = "none" \/ ConfidenceRank[v.confidence] >= ConfidenceRank[v.mosca.confidence]
    BY <2>3, <2>4, <2>5 DEF TracksAgree
  <2>7. v.resource = ResourceTrack(v.resource.status, v.resource.m, v.resource.confidence)
    BY <2>1, <2>4 DEF ResourceTyped
  <2>8. v.mosca.resolved = (Known(v.mosca.x) /\ Known(v.mosca.y) /\ Known(v.mosca.z))
    BY <2>2, <2>4
  <2>9. StoredVerdictIsRebuilt(v)
    BY <1>1, <2>6, <2>7, <2>8, RebuiltFrom
  <2>10. QED
    BY <2>9 DEF v
<1>4. QED
  BY <1>2, <1>3

LEMMA ArtefactReturns ==
  ASSUME NEW a \in ArtefactRecords
  PROVE  ArtefactFromRow(ArtefactToRow(a)) = a
<1>1. OrEmpty(OrNull(a.purposes, {}), {}) = a.purposes
  BY ColumnReturns
<1>2. ArtefactFromRow(ArtefactToRow(a)) =
        [type |-> a.type, name |-> a.name, primitive |-> a.primitive, purposes |-> a.purposes,
         vulnerability |-> a.vulnerability, size |-> a.size, supportsPqc |-> a.supportsPqc,
         providerManaged |-> a.providerManaged]
  BY <1>1 DEF ArtefactFromRow, ArtefactToRow
<1>3. a \in [type : STRING, name : Names, size : Nat \cup {Absent}, primitive : STRING,
           vulnerability : Vulnerabilities, purposes : SUBSET STRING,
           supportsPqc : {"yes", "no", "unknown"}, providerManaged : BOOLEAN]
  BY DEF ArtefactRecords
<1>4. QED
  BY <1>2, <1>3

LEMMA ContextReturns ==
  ASSUME NEW c \in ContextRecords
  PROVE  ContextFromRow(ContextToRow(c)) = c
<1> DEFINE row == ContextToRow(c)
<1>1. /\ row.columns = [f \in DOMAIN c \ {"retention"} |-> c[f]]
      /\ row.retention_evidence_json = OrNull(c.retention, {})
  BY DEF ContextToRow
<1> HIDE DEF row
<1>2. OrEmpty(row.retention_evidence_json, {}) = c.retention
  BY <1>1, ColumnReturns
<1>3. "retention" \in DOMAIN c /\ c = [f \in DOMAIN c |-> c[f]]
  BY DEF ContextRecords
<1>4. DOMAIN row.columns \cup {"retention"} = DOMAIN c
  BY <1>1, <1>3
<1>5. ContextFromRow(row) = [f \in DOMAIN c |-> IF f = "retention" THEN c.retention ELSE row.columns[f]]
  BY <1>2, <1>4 DEF ContextFromRow
<1>6. \A f \in DOMAIN c : (IF f = "retention" THEN c.retention ELSE row.columns[f]) = c[f]
  BY <1>1
<1>7. QED
  BY <1>3, <1>5, <1>6 DEF row

(* The stored label changes what an artefact is called, not what is decided about it. *)
LEMMA LabelledArtefact ==
  ASSUME NEW a \in ArtefactRecords
  PROVE  LET b == [a EXCEPT !.vulnerability = StoredLabel(a)] IN
         /\ b \in ArtefactRecords /\ b.type = a.type /\ b.name = a.name /\ b.size = a.size
         /\ b.supportsPqc = a.supportsPqc /\ b.providerManaged = a.providerManaged
         /\ Undecided(b) <=> Undecided(a)
         /\ Undecided(a) => EffectiveVulnerability(b) = EffectiveVulnerability(a)
<1> DEFINE b == [a EXCEPT !.vulnerability = StoredLabel(a)]
<1>1. /\ b.type = a.type /\ b.name = a.name /\ b.size = a.size /\ b.primitive = a.primitive
      /\ b.supportsPqc = a.supportsPqc /\ b.providerManaged = a.providerManaged /\ b.vulnerability = StoredLabel(a)
  BY DEF ArtefactRecords
<1>2. a.vulnerability \in Vulnerabilities /\ (a.vulnerability = "not_applicable" => a.type = "library")
  BY DEF ArtefactRecords
<1>3. EffectiveVulnerability(a) \in Vulnerabilities
      /\ (EffectiveVulnerability(a) = "not_applicable" => a.type = "library")
  BY <1>2 DEF EffectiveVulnerability, Vulnerabilities
<1>4. StoredLabel(a) \in Vulnerabilities /\ (StoredLabel(a) = "not_applicable" => a.type = "library")
  BY <1>3 DEF StoredLabel, Vulnerabilities
<1>5. b \in ArtefactRecords
  BY <1>4 DEF ArtefactRecords
<1> HIDE DEF b
<1>6. CASE Undecided(a)
  <2>1. /\ a.type # "library" /\ a.vulnerability \in {"unknown", "shor_broken", "grover_weakened"}
        /\ a.name.policy # "broken" /\ a.name.policy # "resistant"
    BY <1>6, UndecidedFacts
  <2>2. StoredLabel(a) = EffectiveVulnerability(a)
        /\ EffectiveVulnerability(a) \in {"unknown", "shor_broken", "grover_weakened"}
    BY <2>1 DEF StoredLabel, EffectiveVulnerability
  <2>3. Undecided(b)
    BY <2>1, <2>2, <1>1 DEF Undecided, PolicyStatus
  <2>4. EffectiveVulnerability(b) = EffectiveVulnerability(a)
    <3>1. CASE StoredLabel(a) = "unknown"
      <4>1. a.vulnerability = "unknown"
        BY <3>1, <2>2 DEF EffectiveVulnerability
      <4>2. QED
        BY <4>1, <3>1, <1>1 DEF EffectiveVulnerability
    <3>2. CASE StoredLabel(a) # "unknown"
      BY <3>2, <2>2, <1>1 DEF EffectiveVulnerability
    <3>3. QED
      BY <3>1, <3>2
  <2>5. QED
    BY <1>1, <1>5, <1>6, <2>3, <2>4 DEF b
<1>7. CASE ~Undecided(a)
  <2>1. \/ a.type = "library"
        \/ a.type # "library" /\ StoredLabel(a) \in {"classically_broken", "quantum_safe"}
    BY <1>7 DEF Undecided, PolicyStatus, StoredLabel
  <2>2. ~Undecided(b)
    BY <2>1, <1>1 DEF Undecided, PolicyStatus
  <2>3. QED
    BY <1>1, <1>5, <1>7, <2>2 DEF b
<1>8. QED
  BY <1>6, <1>7

\* Two labels with the same effect give the same score.
LEMMA SameScore ==
  ASSUME NEW a \in ArtefactRecords, NEW b \in ArtefactRecords, b.type = a.type, b.name = a.name, b.size = a.size,
         b.supportsPqc = a.supportsPqc, b.providerManaged = a.providerManaged, Undecided(b) <=> Undecided(a),
         Undecided(a) => EffectiveVulnerability(b) = EffectiveVulnerability(a),
         NEW c \in ContextRecords, NEW h \in Maybe, NEW s
  PROVE  Classify(b, c, h, s).score = Classify(a, c, h, s).score
<1>1. CASE ~Undecided(a)
  BY <1>1, ClassifyFacts, DecidedFacts
<1>2. CASE Undecided(a)
  <2>1. ModelsFor(b) = ModelsFor(a)
    BY DEF ModelsFor, KeySizeBits
  <2>2. /\ a.vulnerability \notin {"quantum_safe", "not_applicable"}
        /\ b.vulnerability \notin {"quantum_safe", "not_applicable"}
    BY <1>2, UndecidedFacts
  <2>3. EvaluateResources(b, s) = EvaluateResources(a, s)
    BY <2>1, <2>2 DEF EvaluateResources
  <2> DEFINE r == EvaluateResources(a, s)
             mo == EvaluateMosca(c, h, r)
  <2>4. /\ Classify(a, c, h, s) = JudgedByTracks(a, c, mo, r) /\ Classify(b, c, h, s) = JudgedByTracks(b, c, mo, r)
        /\ ResourceTyped(r) /\ MoscaTyped(mo)
    BY <1>2, <2>3, ClassifyFacts
  <2> HIDE DEF r, mo
  <2>5. MigrationPoints(b) = MigrationPoints(a)
    BY DEF MigrationPoints
  <2>6. AlgorithmPoints(b) = AlgorithmPoints(a)
    BY <1>2 DEF AlgorithmPoints
  <2>7. Contributions(b, c, mo, r) = Contributions(a, c, mo, r)
    BY <2>5, <2>6 DEF Contributions
  <2>8. QED
    BY <2>4, <2>7, JudgedFacts
<1>3. QED
  BY <1>1, <1>2

\* A rescore from the rows reaches the first verdict.
LEMMA RescoreSound ==
  ASSUME NEW a \in ArtefactRecords, NEW c \in ContextRecords, NEW h \in Maybe, NEW s
  PROVE  RescoreFromRowsAgrees(a, c, h, s)
<1> DEFINE b == [a EXCEPT !.vulnerability = StoredLabel(a)]
<1>1. /\ b \in ArtefactRecords /\ b.type = a.type /\ b.name = a.name /\ b.size = a.size
      /\ b.supportsPqc = a.supportsPqc /\ b.providerManaged = a.providerManaged
      /\ Undecided(b) <=> Undecided(a)
      /\ Undecided(a) => EffectiveVulnerability(b) = EffectiveVulnerability(a)
  BY LabelledArtefact
<1> HIDE DEF b
<1>2. ArtefactFromRow(ArtefactToRow(b)) = b /\ ContextFromRow(ContextToRow(c)) = c
  BY <1>1, ArtefactReturns, ContextReturns
<1>3. Classify(b, c, h, s).score = Classify(a, c, h, s).score
  BY <1>1, SameScore
<1>4. QED
  BY <1>2, <1>3 DEF RescoreFromRowsAgrees, b

\* The label ingest stores leads to a verdict.
LEMMA ClassifiesLabelled ==
  ASSUME NEW a \in ArtefactRecords, NEW c \in ContextRecords, NEW h \in Maybe, NEW s
  PROVE  EveryArtefactClassifies(a, c, h, s)
<1>1. [a EXCEPT !.vulnerability = StoredLabel(a)] \in ArtefactRecords
  BY LabelledArtefact
<1>2. QED
  BY <1>1, ClassifyFacts DEF EveryArtefactClassifies

-----------------------------------------------------------------------------
(* Recommendations and the gate. *)
LEMMA SetFits ==
  ASSUME NEW profile, NEW algorithm, NEW category, ParameterSetFor(profile, algorithm, category) # 0
  PROVE  LET i == ParameterSetFor(profile, algorithm, category) IN
         /\ i \in DOMAIN profile.parameterSets
         /\ profile.parameterSets[i].algorithm = algorithm /\ profile.parameterSets[i].category = category
<1> DEFINE fits == {i \in DOMAIN profile.parameterSets :
                      LET p == profile.parameterSets[i]
                      IN p.algorithm = algorithm /\ p.category = category}
<1>1. Cardinality(fits) = 1 /\ ParameterSetFor(profile, algorithm, category) = CHOOSE i \in fits : TRUE
  BY DEF ParameterSetFor
<1>2. fits # {}
  BY <1>1, FS_EmptySet
<1>3. ParameterSetFor(profile, algorithm, category) \in fits
  BY <1>1, <1>2
<1>4. QED
  BY <1>3

\* An accepted profile leaves the engine nothing to raise about.
LEMMA AdviceSound ==
  ASSUME NEW a, NEW verdict, NEW requirements, NEW profile \in ProfileRecords
  PROVE  AcceptedProfileNeverRaises(a, verdict, requirements, profile)
<1> SUFFICES ASSUME EvidenceProfileAccepted(profile)
             PROVE  LET r == Recommend(a, verdict, requirements, profile)
                    IN /\ r.kind # "raised"
                       /\ r.kind = "automatic" =>
                            \E i \in DOMAIN profile.parameterSets :
                              LET p == profile.parameterSets[i]
                              IN /\ <<p.algorithm, p.name, p.category>> = <<r.algorithm, r.set, r.category>>
                                 /\ p.source = StandardFor[p.algorithm] /\ p.sizes # {}
  BY DEF AcceptedProfileNeverRaises
<1> DEFINE choices  == {r.recommended : r \in {r \in profile.rules : RuleMatches(r, a, requirements)}}
           chosen   == CHOOSE alg \in choices : TRUE
           category == IF chosen = "aes" THEN Absent
                       ELSE IF Known(requirements.category) THEN requirements.category
                       ELSE profile.policyCategory
           i        == ParameterSetFor(profile, chosen, category)
           cited    == profile.parameterSets[i]
           r        == [kind |-> "automatic", algorithm |-> chosen, set |-> cited.name,
                        category |-> category, hybrid |-> requirements.hybrid,
                        partner |-> IF requirements.hybrid THEN "X25519" ELSE "none",
                        facts |-> Facts(cited.sizes)]
           manual   == \/ Normalise(a.name) = "" \/ Cardinality(choices) # 1 \/ i = 0
                       \/ requirements.hybrid /\ chosen # "ml-kem"
           actionable == ~(verdict.status # "scored" \/ verdict.priority \notin {"p0", "p1"})
<1>1. Recommend(a, verdict, requirements, profile) =
        IF ~actionable THEN [kind |-> "nothing"]
        ELSE IF manual THEN ManualReview
        ELSE IF cited.source \notin profile.sources \/ ~RecommendationAccepted(r)
        THEN [kind |-> "raised"] ELSE r
  BY DEF Recommend
<1>2. ASSUME ~manual PROVE /\ i \in DOMAIN profile.parameterSets /\ cited.algorithm = chosen
                           /\ cited.category = category /\ chosen \in DOMAIN StandardFor
  <2>1. Cardinality(choices) = 1 /\ i # 0
    BY <1>2
  <2>2. choices # {}
    BY <2>1, FS_EmptySet
  <2>3. chosen \in choices
    BY <2>2
  <2>4. profile.rules \subseteq RuleRecords
    BY DEF ProfileRecords
  <2>5. choices \subseteq DOMAIN StandardFor
    BY <2>4 DEF RuleRecords
  <2> HIDE DEF choices, chosen, category
  <2>6. QED
    BY <2>1, <2>3, <2>5, SetFits
<1>3. ASSUME ~manual PROVE /\ cited.source \in profile.sources /\ Facts(cited.sizes)
                           /\ cited.source = StandardFor[cited.algorithm]
  BY <1>2, <1>3 DEF EvidenceProfileAccepted, ParameterSetAccepted
<1>4. chosen \in DOMAIN StandardFor => chosen # "none"
  <2>1. DOMAIN StandardFor = {"ml-kem", "ml-dsa", "slh-dsa", "aes"}
    BY Zenon DEF StandardFor
  <2> HIDE DEF choices, chosen
  <2>2. QED
    BY <2>1
<1> HIDE DEF choices, chosen, category, i, cited, actionable, manual
<1>5. ASSUME ~manual PROVE RecommendationAccepted(r)
  BY <1>2, <1>3, <1>4, <1>5 DEF RecommendationAccepted
<1>6. ASSUME ~manual
      PROVE  \E j \in DOMAIN profile.parameterSets :
               LET p == profile.parameterSets[j]
               IN /\ <<p.algorithm, p.name, p.category>> = <<r.algorithm, r.set, r.category>>
                  /\ p.source = StandardFor[p.algorithm] /\ p.sizes # {}
  <2>1. /\ <<cited.algorithm, cited.name, cited.category>> = <<r.algorithm, r.set, r.category>>
        /\ cited.source = StandardFor[cited.algorithm] /\ cited.sizes # {}
    BY <1>2, <1>3, <1>6 DEF Facts
  <2>2. QED
    BY <2>1, <1>2, <1>6 DEF cited
<1>7. [kind |-> "nothing"].kind = "nothing" /\ ManualReview.kind = "manual" /\ r.kind = "automatic"
  BY DEF ManualReview
<1> HIDE DEF r
<1>8. QED
  BY <1>1, <1>3, <1>5, <1>6, <1>7

-----------------------------------------------------------------------------
(* The gate. *)
Bands == {"p0", "p1", "p2"}
\* The ranks of the three bands, under both spellings.
LEMMA RankFacts ==
  /\ \A t \in Thresholds : PriorityRank[t] \in 0..2
  /\ PriorityRank["p0"] = 0 /\ PriorityRank["p1"] = 1 /\ PriorityRank["p2"] = 2
  /\ "off" \notin Thresholds /\ Bands \subseteq Thresholds
  BY DEF PriorityRank, Thresholds, Bands

LEMMA BandTyped ==
  ASSUME NEW n \in 0..200
  PROVE  BandForScore(n) \in Bands
<1>1. CASE n >= 150
  BY <1>1 DEF BandForScore, Bands
<1>2. CASE n < 100
  BY <1>2 DEF BandForScore, Bands
<1>3. CASE ~(n >= 150) /\ ~(n < 100)
  BY <1>3 DEF BandForScore, Bands
<1>4. QED
  BY <1>1, <1>2, <1>3

\* A scored verdict is in one of the three bands.
LEMMA ScoredBand ==
  ASSUME NEW v, AssessmentAccepted(v), v.status = "scored"
  PROVE  v.priority \in Bands
<1>1. Known(v.score) /\ v.score \in 0..200 /\ v.priority = BandForScore(v.score)
  BY DEF AssessmentAccepted
<1>2. QED
  BY <1>1, BandTyped

\* The empty context is a context and says nothing of a lifetime.
LEMMA NothingKnown ==
  /\ NoContext \in ContextRecords /\ RawEvidence(NoContext) = {}
<1>1. NoContext.retention = {} /\ NoContext.lifetime = Absent /\ NoContext.category = "none"
  BY DEF NoContext
<1>2. IsFiniteSet(NoContext.retention)
  BY <1>1, FS_EmptySet
<1>3. NoContext \in ContextRecords
  <2>1. "none" \in STRING \cup {"none"}
    OBVIOUS
  <2>2. {} \in SUBSET EvidenceRecords
    OBVIOUS
  <2>3. NoContext \in
          [classification : {"restricted", "confidential", "internal", "public", "unknown"},
           category : STRING \cup {"none"}, categoryTier : Tiers, lifetime : Nat \cup {Absent}, lifetimeTier : Tiers,
           retention : SUBSET EvidenceRecords, migration : Nat \cup {Absent}, migrationTier : Tiers,
           criticality : {"critical", "high", "medium", "low", "unknown"},
           exposure : {"internet", "partner", "internal", "isolated", "unknown"}]
    BY <2>1, <2>2 DEF NoContext, Tiers
  <2>4. QED
    BY <1>2, <2>3 DEF ContextRecords
<1>4. DirectEvidence(NoContext) = {}
  BY <1>1 DEF DirectEvidence, Known
<1>5. "none" \notin DOMAIN Categories
  BY DEF Categories
<1>6. CategoryEvidence(NoContext) = {}
  BY <1>1, <1>5 DEF CategoryEvidence
<1>7. QED
  BY <1>1, <1>3, <1>4, <1>6 DEF RawEvidence

(* An artefact of which no context is known is never scored. *)
LEMMA UnknownUnscored ==
  ASSUME NEW a \in ArtefactRecords, NEW h \in Maybe, NEW s
  PROVE  Classify(a, NoContext, h, s).status # "scored"
<1> DEFINE r == EvaluateResources(a, s)
           mo == EvaluateMosca(NoContext, h, r)
<1>1. NoContext \in ContextRecords /\ RawEvidence(NoContext) = {}
  BY NothingKnown
<1>2. CASE ~Undecided(a)
  BY <1>1, <1>2, ClassifyFacts, DecidedFacts
<1>3. CASE Undecided(a)
  <2>1. Classify(a, NoContext, h, s) = JudgedByTracks(a, NoContext, mo, r) /\ ResourceTyped(r) /\ MoscaTyped(mo)
    BY <1>1, <1>3, ClassifyFacts
  <2>2. mo.x = ResolveX(NoContext).years
    BY <1>1, <2>1, MoscaOf
  <2> HIDE DEF r, mo
  <2>3. Heard(RawEvidence(NoContext))
    BY <1>1, RawHeard
  <2>4. ResolveX(NoContext).years = Absent
    BY <1>1, <2>3, ResolvedX
  <2>5. ~Complete(mo, r)
    BY <2>2, <2>4 DEF Complete, Known
  <2>6. QED
    BY <1>1, <2>1, <2>5, JudgedFacts
<1>4. QED
  BY <1>2, <1>3

\* An actionable verdict is given a replacement or a manual review.
LEMMA AdviceKinds ==
  ASSUME NEW a, NEW verdict, NEW requirements, NEW profile,
         verdict.status = "scored", verdict.priority \in {"p0", "p1"},
         Recommend(a, verdict, requirements, profile).kind # "raised"
  PROVE  Recommend(a, verdict, requirements, profile).kind \in {"automatic", "manual"}
<1> DEFINE choices  == {r.recommended : r \in {r \in profile.rules : RuleMatches(r, a, requirements)}}
           chosen   == CHOOSE alg \in choices : TRUE
           category == IF chosen = "aes" THEN Absent
                       ELSE IF Known(requirements.category) THEN requirements.category
                       ELSE profile.policyCategory
           i        == ParameterSetFor(profile, chosen, category)
           cited    == profile.parameterSets[i]
           r        == [kind |-> "automatic", algorithm |-> chosen, set |-> cited.name,
                        category |-> category, hybrid |-> requirements.hybrid,
                        partner |-> IF requirements.hybrid THEN "X25519" ELSE "none",
                        facts |-> Facts(cited.sizes)]
           manual   == \/ Normalise(a.name) = "" \/ Cardinality(choices) # 1 \/ i = 0
                       \/ requirements.hybrid /\ chosen # "ml-kem"
           actionable == ~(verdict.status # "scored" \/ verdict.priority \notin {"p0", "p1"})
<1>1. Recommend(a, verdict, requirements, profile) =
        IF ~actionable THEN [kind |-> "nothing"]
        ELSE IF manual THEN ManualReview
        ELSE IF cited.source \notin profile.sources \/ ~RecommendationAccepted(r)
        THEN [kind |-> "raised"] ELSE r
  BY DEF Recommend
<1>2. actionable
  OBVIOUS
<1>3. ManualReview.kind = "manual" /\ r.kind = "automatic" /\ [kind |-> "raised"].kind = "raised"
  BY DEF ManualReview
<1> HIDE DEF choices, chosen, category, i, cited, actionable, manual, r
<1>4. QED
  BY <1>1, <1>2, <1>3

(* What a build may be given. *)
BuildOK(found, contexts, profile) ==
  /\ found \in Seq(ArtefactRecords) /\ DOMAIN contexts \subseteq DOMAIN found
  /\ \A i \in DOMAIN contexts : contexts[i] \in ContextRecords
  /\ profile \in ProfileRecords /\ EvidenceProfileAccepted(profile)

\* What the gate reads of each finding.
LEMMA GateResults ==
  ASSUME NEW found, NEW contexts, NEW profile, BuildOK(found, contexts, profile), NEW h \in Maybe
  PROVE  LET all == RunEngines(found, contexts, h, profile) IN
         /\ DOMAIN all = DOMAIN found
         /\ \A i \in DOMAIN all :
              /\ all[i].verdict.status # "raised" /\ all[i].advice.kind # "raised"
              /\ all[i].verdict = Classify(found[i], ContextFor(contexts, i), h, "baseline")
              /\ all[i].verdict.status = "scored" =>
                   /\ i \in DOMAIN contexts /\ all[i].verdict.priority \in Bands
                   /\ all[i].verdict.priority # "p2" => all[i].advice.kind \in {"automatic", "manual"}
<1> DEFINE all == RunEngines(found, contexts, h, profile)
<1>1. DOMAIN all = DOMAIN found
  BY DEF RunEngines
<1> SUFFICES ASSUME NEW i \in DOMAIN found
             PROVE  /\ all[i].verdict.status # "raised" /\ all[i].advice.kind # "raised"
                    /\ all[i].verdict = Classify(found[i], ContextFor(contexts, i), h, "baseline")
                    /\ all[i].verdict.status = "scored" =>
                         /\ i \in DOMAIN contexts /\ all[i].verdict.priority \in Bands
                         /\ all[i].verdict.priority # "p2" => all[i].advice.kind \in {"automatic", "manual"}
  BY <1>1
<1> DEFINE c == ContextFor(contexts, i)
           v == Classify(found[i], c, h, "baseline")
           advice == Recommend(found[i], v, PlainRequirements, profile)
<1>2. all[i].verdict = v /\ all[i].advice = advice
  BY DEF RunEngines, WithAdvice
<1>3. found[i] \in ArtefactRecords
  BY DEF BuildOK
<1>4. c \in ContextRecords /\ (i \notin DOMAIN contexts => c = NoContext)
  BY NothingKnown DEF ContextFor, BuildOK
<1>5. i \notin DOMAIN contexts => v.status # "scored"
  BY <1>3, <1>4, UnknownUnscored
<1> HIDE DEF c
<1>6. AssessmentAccepted(v) /\ v.status # "raised"
  BY <1>3, <1>4, ClassifyFacts
<1> HIDE DEF v
<1>7. AcceptedProfileNeverRaises(found[i], v, PlainRequirements, profile)
  BY AdviceSound DEF BuildOK
<1>8. advice.kind # "raised"
  BY <1>7 DEF AcceptedProfileNeverRaises, BuildOK
<1>9. v.status = "scored" => v.priority \in Bands
  BY <1>6, ScoredBand
<1>10. v.status = "scored" /\ v.priority # "p2" => advice.kind \in {"automatic", "manual"}
  BY <1>8, <1>9, AdviceKinds DEF Bands
<1> HIDE DEF advice, all
<1>11. QED
  BY <1>2, <1>5, <1>6, <1>8, <1>9, <1>10 DEF c, v

\* The gate is monotone in its threshold and in what is known.
LEMMA GateSound ==
  ASSUME NEW found, NEW contexts, NEW profile, BuildOK(found, contexts, profile), NEW h \in Maybe
  PROVE  GateIsMonotone(found, contexts, h, profile)
<1> DEFINE all == RunEngines(found, contexts, h, profile)
           without(i) == [j \in DOMAIN contexts \ {i} |-> contexts[j]]
           less(i) == RunEngines(found, without(i), h, profile)
           Clean(results) == \A i \in DOMAIN results :
             results[i].verdict.status # "raised" /\ results[i].advice.kind # "raised"
<1>1. /\ DOMAIN all = DOMAIN found /\ Clean(all)
      /\ \A i \in DOMAIN all : all[i].verdict = Classify(found[i], ContextFor(contexts, i), h, "baseline")
      /\ \A i \in DOMAIN all : all[i].verdict.status = "scored" => all[i].verdict.priority \in Bands
      /\ \A i \in DOMAIN all : all[i].verdict.status = "scored" /\ all[i].verdict.priority # "p2"
                                 => all[i].advice.kind \in {"automatic", "manual"}
  BY GateResults
<1>2. ASSUME NEW i \in DOMAIN contexts
      PROVE  /\ DOMAIN less(i) = DOMAIN found /\ Clean(less(i))
             /\ \A j \in DOMAIN less(i) :
                  less(i)[j].verdict = Classify(found[j], ContextFor(without(i), j), h, "baseline")
             /\ \A j \in DOMAIN less(i) : less(i)[j].verdict.status = "scored" => j \in DOMAIN without(i)
  <2>1. BuildOK(found, without(i), profile)
    BY DEF BuildOK
  <2> HIDE DEF without
  <2>2. QED
    BY <2>1, GateResults
<1>3. \A results, t : Clean(results) /\ t \in Thresholds =>
        ExitCode(results, t) = IF Violating(results, t) # {} THEN 1 ELSE 0
  <2> SUFFICES ASSUME NEW results, NEW t, Clean(results), t \in Thresholds
               PROVE  ExitCode(results, t) = IF Violating(results, t) # {} THEN 1 ELSE 0
    OBVIOUS
  <2>1. t # "off"
    BY RankFacts
  <2>2. QED
    BY <2>1 DEF ExitCode
<1>4. \A results, others, s, t :
        Clean(results) /\ Clean(others) /\ s \in Thresholds /\ t \in Thresholds
          /\ (Violating(others, t) = {} => Violating(results, s) = {})
          => ExitCode(results, s) <= ExitCode(others, t)
  BY <1>3
<1> HIDE DEF Clean
<1>5. ASSUME NEW s \in Thresholds, NEW t \in Thresholds, PriorityRank[s] <= PriorityRank[t]
      PROVE  /\ Violating(all, s) \subseteq Violating(all, t)
             /\ ExitCode(all, s) <= ExitCode(all, t)
  <2>1. ASSUME NEW i \in Violating(all, s) PROVE i \in Violating(all, t)
    <3>1. i \in DOMAIN all /\ all[i].verdict.status = "scored"
          /\ PriorityRank[all[i].verdict.priority] <= PriorityRank[s]
      BY <2>1 DEF Violating
    <3>2. all[i].verdict.priority \in Thresholds
      BY <1>1, <3>1, RankFacts
    <3>3. PriorityRank[all[i].verdict.priority] \in 0..2 /\ PriorityRank[s] \in 0..2 /\ PriorityRank[t] \in 0..2
      BY <3>2, RankFacts
    <3>4. PriorityRank[all[i].verdict.priority] <= PriorityRank[t]
      BY <1>5, <3>1, <3>3
    <3>5. QED
      BY <3>1, <3>4 DEF Violating
  <2> HIDE DEF all
  <2>2. QED
    BY <1>1, <1>4, <2>1
<1>6. ASSUME NEW i \in Violating(all, "p1")
      PROVE  all[i].advice.kind \in {"automatic", "manual"}
  <2>1. i \in DOMAIN all /\ all[i].verdict.status = "scored"
        /\ PriorityRank[all[i].verdict.priority] <= PriorityRank["p1"]
    BY <1>6 DEF Violating
  <2> HIDE DEF all
  <2>2. all[i].verdict.priority # "p2"
    BY <2>1, RankFacts
  <2>3. QED
    BY <1>1, <2>1, <2>2
<1>7. ASSUME NEW i \in DOMAIN contexts, NEW t \in Thresholds
      PROVE  ExitCode(less(i), t) <= ExitCode(all, t)
  <2>1. ASSUME NEW j \in Violating(less(i), t) PROVE j \in Violating(all, t)
    <3>1. j \in DOMAIN less(i) /\ less(i)[j].verdict.status = "scored"
          /\ PriorityRank[less(i)[j].verdict.priority] <= PriorityRank[t]
      BY <2>1 DEF Violating
    <3>2. j \in DOMAIN without(i)
      BY <1>2, <3>1
    <3>3. ContextFor(without(i), j) = ContextFor(contexts, j)
      BY <3>2 DEF ContextFor
    <3> HIDE DEF without, all, less
    <3>4. j \in DOMAIN all /\ all[j].verdict = less(i)[j].verdict
      BY <1>1, <1>2, <3>1, <3>3
    <3>5. QED
      BY <3>1, <3>4 DEF Violating
  <2>2. Clean(less(i))
    BY <1>2
  <2> HIDE DEF all, less
  <2>3. QED
    BY <1>1, <1>4, <2>1, <2>2
<1>8. QED
  BY <1>5, <1>6, <1>7 DEF GateIsMonotone

-----------------------------------------------------------------------------
(* Declared and observed protocols. *)
Sights(findings) ==
  IsFiniteSet(DOMAIN findings) /\ \A i \in DOMAIN findings : findings[i].observed \in BOOLEAN
KeysOf(findings) == {ProtocolKey(findings[i]) : i \in {i \in DOMAIN findings : Compares(findings[i])}}
Declared(findings, k) == WithKey(findings, k, FALSE)
Observed(findings, k) == WithKey(findings, k, TRUE)

LEMMA NumberOf ==
  ASSUME NEW S, IsFiniteSet(S)
  PROVE  Cardinality(S) \in Nat /\ (Cardinality(S) = 0 <=> S = {}) /\ (Cardinality(S) > 0 <=> S # {})
<1>1. Cardinality(S) \in Nat /\ (Cardinality(S) = 0 <=> S = {})
  BY FS_CardinalityType, FS_EmptySet
<1>2. QED
  BY <1>1

\* The summary of a comparison, in terms of who declared and who was seen.
LEMMA ComparisonFacts ==
  ASSUME NEW findings, Sights(findings)
  PROVE  LET s == CompareObservedDeclared(findings) IN
         /\ \A k : /\ (Cardinality(Declared(findings, k)) = 0 <=> Declared(findings, k) = {})
                   /\ (Cardinality(Observed(findings, k)) = 0 <=> Observed(findings, k) = {})
                   /\ (Cardinality(Declared(findings, k)) > 0 <=> Declared(findings, k) # {})
                   /\ (Cardinality(Observed(findings, k)) > 0 <=> Observed(findings, k) # {})
         /\ s.total = Cardinality(KeysOf(findings))
         /\ s.matched = Cardinality({k \in KeysOf(findings) : Declared(findings, k) # {} /\ Observed(findings, k) # {}})
         /\ s.mismatched = 0
         /\ s.observed_only
              = Cardinality({k \in KeysOf(findings) : Declared(findings, k) = {} /\ Observed(findings, k) # {}})
         /\ s.declared_only
              = Cardinality({k \in KeysOf(findings) : Observed(findings, k) = {} /\ Declared(findings, k) # {}})
         /\ s.critical = {k \in KeysOf(findings) : Declared(findings, k) = {} /\ Observed(findings, k) # {}}
<1> DEFINE s == CompareObservedDeclared(findings)
           keys == KeysOf(findings)
           at == [k \in keys |-> CompareProtocolKey(findings, k)]
           d(k) == Cardinality(Declared(findings, k))
           o(k) == Cardinality(Observed(findings, k))
<1>1. \A k : IsFiniteSet(Declared(findings, k)) /\ IsFiniteSet(Observed(findings, k))
  <2>1. \A k : Declared(findings, k) \subseteq DOMAIN findings /\ Observed(findings, k) \subseteq DOMAIN findings
    BY DEF Declared, Observed, WithKey
  <2>2. QED
    BY <2>1, FS_Subset DEF Sights
<1>2. \A k : /\ (d(k) = 0 <=> Declared(findings, k) = {}) /\ (o(k) = 0 <=> Observed(findings, k) = {})
             /\ (d(k) > 0 <=> Declared(findings, k) # {}) /\ (o(k) > 0 <=> Observed(findings, k) # {})
  BY <1>1, NumberOf
<1>3. \A k \in keys : /\ at[k].declared = d(k) /\ at[k].observed = o(k)
                      /\ at[k].matched = (d(k) > 0 /\ o(k) > 0)
                      /\ at[k].severity = (IF d(k) = 0 /\ o(k) > 0 THEN "critical" ELSE "info")
  BY Zenon DEF CompareProtocolKey, Declared, Observed
<1>4. /\ s.total = Cardinality(keys)
      /\ s.matched = Cardinality({k \in keys : at[k].matched})
      /\ s.mismatched = Cardinality({k \in keys : ~at[k].matched /\ at[k].declared > 0 /\ at[k].observed > 0})
      /\ s.observed_only = Cardinality({k \in keys : at[k].declared = 0 /\ at[k].observed > 0})
      /\ s.declared_only = Cardinality({k \in keys : at[k].observed = 0 /\ at[k].declared > 0})
      /\ s.critical = {k \in keys : at[k].severity = "critical"}
  BY Zenon DEF CompareObservedDeclared, KeysOf
<1> HIDE DEF s, keys, at, d, o
<1>5. /\ {k \in keys : at[k].matched} = {k \in keys : Declared(findings, k) # {} /\ Observed(findings, k) # {}}
      /\ {k \in keys : ~at[k].matched /\ at[k].declared > 0 /\ at[k].observed > 0} = {}
      /\ {k \in keys : at[k].declared = 0 /\ at[k].observed > 0}
           = {k \in keys : Declared(findings, k) = {} /\ Observed(findings, k) # {}}
      /\ {k \in keys : at[k].observed = 0 /\ at[k].declared > 0}
           = {k \in keys : Observed(findings, k) = {} /\ Declared(findings, k) # {}}
      /\ {k \in keys : at[k].severity = "critical"}
           = {k \in keys : Declared(findings, k) = {} /\ Observed(findings, k) # {}}
  BY <1>2, <1>3
<1>6. s.mismatched = 0
  BY <1>4, <1>5, FS_EmptySet
<1>7. QED
  BY <1>2, <1>4, <1>5, <1>6 DEF s, keys, d, o

LEMMA KeysFinite ==
  ASSUME NEW findings, Sights(findings)
  PROVE  IsFiniteSet(KeysOf(findings))
<1> DEFINE C == {i \in DOMAIN findings : Compares(findings[i])}
           f == [i \in C |-> ProtocolKey(findings[i])]
<1>1. IsFiniteSet(C)
  BY FS_Subset DEF Sights
<1>2. f \in Surjection(C, KeysOf(findings))
  BY DEF Surjection, KeysOf
<1>3. QED
  BY <1>1, <1>2, FS_Surjection

\* A key is listed when somebody declared or used it.
LEMMA KeyHeard ==
  ASSUME NEW findings, Sights(findings), NEW k
  PROVE  k \in KeysOf(findings) <=> Declared(findings, k) # {} \/ Observed(findings, k) # {}
<1>1. ASSUME NEW i \in DOMAIN findings, Compares(findings[i]), ProtocolKey(findings[i]) = k
      PROVE  i \in Declared(findings, k) \/ i \in Observed(findings, k)
  BY <1>1, Zenon DEF Declared, Observed, WithKey, Sights
<1>2. QED
  BY <1>1 DEF Declared, Observed, WithKey, KeysOf

\* One key is one protocol and version.
LEMMA SameProtocol ==
  ASSUME NEW f, NEW g, ProtocolKey(f) = ProtocolKey(g)
  PROVE  f.protocol = g.protocol /\ f.version = g.version
<1>1. \A p, q, v : <<p>> # <<q, v>>
  OBVIOUS
<1>2. QED
  BY <1>1 DEF ProtocolKey
\* The comparison accounts for every sighting.
LEMMA ObservationsSound ==
  ASSUME NEW findings \in Seq(SightingRecords)
  PROVE  ObservationsAreAccountedFor(findings)
<1> DEFINE s == CompareObservedDeclared(findings)
           seen == [i \in {i \in DOMAIN findings : findings[i].observed} |-> findings[i]]
           keys == KeysOf(findings)
           both == {k \in keys : Declared(findings, k) # {} /\ Observed(findings, k) # {}}
           wire == {k \in keys : Declared(findings, k) = {} /\ Observed(findings, k) # {}}
           book == {k \in keys : Observed(findings, k) = {} /\ Declared(findings, k) # {}}
<1>1. Sights(findings)
  <2>1. DOMAIN findings = 1..Len(findings) /\ Len(findings) \in Nat
    OBVIOUS
  <2>2. IsFiniteSet(DOMAIN findings)
    BY <2>1, FS_Interval
  <2>3. \A i \in DOMAIN findings : findings[i] \in SightingRecords
    OBVIOUS
  <2>4. \A i \in DOMAIN findings : findings[i].observed \in BOOLEAN
    BY <2>3 DEF SightingRecords
  <2>5. QED
    BY <2>2, <2>4 DEF Sights
<1>2. /\ s.total = Cardinality(keys) /\ s.matched = Cardinality(both) /\ s.mismatched = 0
      /\ s.observed_only = Cardinality(wire) /\ s.declared_only = Cardinality(book) /\ s.critical = wire
  BY <1>1, ComparisonFacts
<1>3. IsFiniteSet(keys) /\ \A k : k \in keys <=> Declared(findings, k) # {} \/ Observed(findings, k) # {}
  BY <1>1, KeysFinite, KeyHeard
<1> HIDE DEF s, keys
<1>4. Cardinality(keys) = Cardinality(both) + Cardinality(wire) + Cardinality(book)
      /\ Cardinality(both) \in Nat /\ Cardinality(wire) \in Nat /\ Cardinality(book) \in Nat
  <2>1. both \subseteq keys /\ wire \subseteq keys /\ book \subseteq keys
    OBVIOUS
  <2>2. IsFiniteSet(both) /\ IsFiniteSet(wire) /\ IsFiniteSet(book)
    BY <1>3, <2>1, FS_Subset
  <2>3. keys = (both \cup wire) \cup book /\ both \cap wire = {} /\ (both \cup wire) \cap book = {}
    BY <1>3
  <2> HIDE DEF both, wire, book
  <2>4. /\ IsFiniteSet(both \cup wire)
        /\ Cardinality(both \cup wire) = Cardinality(both) + Cardinality(wire) - Cardinality(both \cap wire)
    BY <2>2, FS_Union
  <2>5. Cardinality((both \cup wire) \cup book)
          = Cardinality(both \cup wire) + Cardinality(book) - Cardinality((both \cup wire) \cap book)
    BY <2>2, <2>4, FS_Union
  <2>6. Cardinality({}) = 0
    BY FS_EmptySet
  <2>7. Cardinality(both) \in Nat /\ Cardinality(wire) \in Nat /\ Cardinality(book) \in Nat
    BY <2>2, NumberOf
  <2>8. Cardinality(both \cup wire) = Cardinality(both) + Cardinality(wire)
    <3>1. Cardinality(both \cap wire) = 0
      BY <2>3, <2>6, Zenon
    <3>2. QED
      BY ONLY <3>1, <2>4, <2>7
  <2>9. Cardinality(keys) = Cardinality(both \cup wire) + Cardinality(book)
    <3>1. Cardinality((both \cup wire) \cap book) = 0
      BY <2>3, <2>6, Zenon
    <3>2. Cardinality(keys) = Cardinality((both \cup wire) \cup book)
      BY <2>3, Zenon
    <3>3. QED
      BY <3>1, <3>2, <2>5, <2>7, <2>8
  <2>10. QED
    BY <2>7, <2>8, <2>9
<1>5. s.total = s.matched + s.mismatched + s.observed_only + s.declared_only
  BY <1>2, <1>4
<1>6. ASSUME NEW i \in DOMAIN findings, Compares(findings[i]), findings[i].observed
      PROVE  \/ ProtocolKey(findings[i]) \in s.critical
             \/ \E j \in DOMAIN findings :
                  /\ Compares(findings[j]) /\ ~findings[j].observed
                  /\ <<findings[j].protocol, findings[j].version>>
                       = <<findings[i].protocol, findings[i].version>>
  <2> DEFINE k == ProtocolKey(findings[i])
  <2>0. findings[i].observed = TRUE
    BY <1>1, <1>6, Zenon DEF Sights
  <2>1. i \in Observed(findings, k)
    BY <1>6, <2>0 DEF Observed, WithKey
  <2> HIDE DEF k
  <2>2. k \in keys
    BY <1>3, <2>1
  <2>3. CASE Declared(findings, k) = {}
    BY <1>2, <2>1, <2>2, <2>3 DEF k
  <2>4. CASE Declared(findings, k) # {}
    <3>1. PICK j \in Declared(findings, k) : TRUE
      BY <2>4
    <3>2. j \in DOMAIN findings /\ Compares(findings[j]) /\ findings[j].observed = FALSE
          /\ ProtocolKey(findings[j]) = k
      BY <3>1 DEF Declared, WithKey
    <3>3. findings[j].protocol = findings[i].protocol /\ findings[j].version = findings[i].version
      BY <3>2, SameProtocol DEF k
    <3>4. QED
      BY <3>2, <3>3
  <2>5. QED
    BY <2>3, <2>4
<1>7. s.critical \subseteq CompareObservedDeclared(seen).critical
  <2>1. DOMAIN seen \subseteq DOMAIN findings /\ \A i \in DOMAIN seen : seen[i] = findings[i] /\ findings[i].observed
    OBVIOUS
  <2>2. Sights(seen)
    BY <1>1, <2>1, FS_Subset DEF Sights
  <2>3. \A k : Declared(seen, k) = {}
    BY <2>1 DEF Declared, WithKey
  <2>4. \A k : Observed(findings, k) \subseteq Observed(seen, k)
    BY DEF Observed, WithKey
  <2> HIDE DEF seen
  <2>5. CompareObservedDeclared(seen).critical
          = {k \in KeysOf(seen) : Declared(seen, k) = {} /\ Observed(seen, k) # {}}
    BY <2>2, ComparisonFacts
  <2>6. ASSUME NEW k \in wire PROVE k \in KeysOf(seen) /\ Observed(seen, k) # {}
    BY <2>2, <2>4, <2>6, KeyHeard
  <2>7. QED
    BY <1>2, <2>3, <2>5, <2>6
<1>8. QED
  BY <1>5, <1>6, <1>7 DEF ObservationsAreAccountedFor, s

-----------------------------------------------------------------------------
(* Reports. *)
LastOf(I) == IF I # {} THEN Max(I) ELSE 0
LEMMA LastFacts ==
  ASSUME NEW n \in Nat, NEW I \in SUBSET (1..n)
  PROVE  LastOf(I) # 0 => LastOf(I) \in I
<1>1. CASE I # {}
  <2>1. IsFiniteSet(1..n)
    BY FS_Interval
  <2>2. IsFiniteSet(I)
    BY <2>1, FS_Subset
  <2>3. Max(I) \in I
    BY <1>1, <2>2, MaxOf
  <2>4. QED
    BY <1>1, <2>3 DEF LastOf
<1>2. QED
  BY <1>1 DEF LastOf

InventoryTyped(inv) ==
  /\ inv.findings \in Seq(FindingRecords) /\ inv.assessments \in Seq(AssessmentRecords)
  /\ inv.recommendations \in Seq(AdviceRecords)
  /\ \A r \in DOMAIN inv.recommendations : \A i \in DOMAIN inv.assessments :
       inv.assessments[i].verdict.id = inv.recommendations[r].assessment
         => inv.assessments[i].verdict.priority \in {"p0", "p1"}
LEMMA InventoriesTyped ==
  ASSUME NEW inv \in InventoryRecords
  PROVE  InventoryTyped(inv)
  BY DEF InventoryRecords, InventoryTyped

(* A recommendation is looked up by the verdict it belongs to. *)
LEMMA AdviceActionable ==
  ASSUME NEW inv, InventoryTyped(inv), NEW f, AdviceOf(inv, f).algorithm # ""
  PROVE  AssessmentOf(inv, f).priority \in {"p0", "p1"}
<1> DEFINE I == {i \in 1..Len(inv.assessments) : inv.assessments[i].artefact = f.id}
           id == AssessmentOf(inv, f).id
           R == {r \in 1..Len(inv.recommendations) : inv.recommendations[r].assessment = id}
<1>1. AssessmentOf(inv, f) = IF LastOf(I) = 0 THEN NotGiven ELSE inv.assessments[LastOf(I)].verdict
  BY Zenon DEF AssessmentOf, SelectLastInSeq, LastOf
<1>2. AdviceOf(inv, f) = IF id = "" \/ LastOf(R) = 0 THEN NoAdvice ELSE inv.recommendations[LastOf(R)].advice
  BY Zenon DEF AdviceOf, SelectLastInSeq, LastOf
<1>3. Len(inv.assessments) \in Nat /\ Len(inv.recommendations) \in Nat
      /\ DOMAIN inv.assessments = 1..Len(inv.assessments) /\ DOMAIN inv.recommendations = 1..Len(inv.recommendations)
  <2>1. inv.assessments \in Seq(AssessmentRecords) /\ inv.recommendations \in Seq(AdviceRecords)
    BY DEF InventoryTyped
  <2>2. QED
    BY ONLY <2>1, LenProperties
<1>4. id # "" /\ LastOf(R) # 0
  <2>1. NoAdvice.algorithm = ""
    BY DEF NoAdvice
  <2> HIDE DEF id, R
  <2>2. QED
    BY <1>2, <2>1
<1>5. LastOf(R) \in R
  <2> HIDE DEF id
  <2>1. R \in SUBSET (1..Len(inv.recommendations))
    OBVIOUS
  <2> HIDE DEF R
  <2>2. QED
    BY <1>3, <1>4, <2>1, LastFacts
<1>6. LastOf(I) # 0
  <2>1. NotGiven.id = ""
    BY DEF NotGiven
  <2> HIDE DEF I
  <2>2. QED
    BY <1>1, <1>4, <2>1
<1>7. LastOf(I) \in I
  <2>1. I \in SUBSET (1..Len(inv.assessments))
    OBVIOUS
  <2> HIDE DEF I
  <2>2. QED
    BY <1>3, <1>6, <2>1, LastFacts
<1>8. inv.recommendations[LastOf(R)].assessment = id /\ LastOf(R) \in DOMAIN inv.recommendations
      /\ LastOf(I) \in DOMAIN inv.assessments
  BY <1>3, <1>5, <1>7
<1>9. inv.assessments[LastOf(I)].verdict = AssessmentOf(inv, f)
  BY <1>1, <1>6
<1> HIDE DEF I, R
<1>10. QED
  BY <1>8, <1>9 DEF InventoryTyped

(* One line per identity. *)
LEMMA FirstSeenFacts ==
  ASSUME NEW inv, InventoryTyped(inv)
  PROVE  /\ IsFiniteSet(FirstSeen(inv)) /\ IsFiniteSet(IdsOf(inv))
         /\ Cardinality(FirstSeen(inv)) = Cardinality(IdsOf(inv))
         /\ DOMAIN Deduplicated(inv) = FirstSeen(inv)
<1> DEFINE n == Len(inv.findings)
           at == [i \in FirstSeen(inv) |-> inv.findings[i].id]
<1>1. n \in Nat /\ DOMAIN inv.findings = 1..n
  BY DEF InventoryTyped
<1>2. FirstSeen(inv) \subseteq 1..n
  BY <1>1 DEF FirstSeen
<1>3. IsFiniteSet(FirstSeen(inv))
  <2>1. IsFiniteSet(1..n)
    BY <1>1, FS_Interval
  <2>2. QED
    BY <1>2, <2>1, FS_Subset
<1> HIDE DEF n
<1>4. \A i, j \in FirstSeen(inv) : at[i] = at[j] => i = j
  <2> SUFFICES ASSUME NEW i \in FirstSeen(inv), NEW j \in FirstSeen(inv), at[i] = at[j], i # j
               PROVE  FALSE
    OBVIOUS
  <2>1. inv.findings[i].id = inv.findings[j].id /\ i \in 1..n /\ j \in 1..n
    BY <1>2
  <2>2. i \in 1..(j - 1) \/ j \in 1..(i - 1)
    BY <1>1, <2>1
  <2>3. QED
    BY <2>1, <2>2 DEF FirstSeen
<1>5. ASSUME NEW id \in IdsOf(inv) PROVE \E i \in FirstSeen(inv) : at[i] = id
  <2> DEFINE S == {i \in 1..n : inv.findings[i].id = id}
  <2>1. S \in SUBSET Nat /\ S # {}
    BY <1>1, <1>5 DEF IdsOf
  <2>2. PICK m \in S : \A k \in S : m <= k
    BY <2>1, LeastNat
  <2>3. \A k \in 1..(m - 1) : k \in 1..n /\ ~(m <= k)
    BY <1>1, <2>2
  <2>4. \A k \in 1..(m - 1) : inv.findings[k].id # inv.findings[m].id
    BY <2>2, <2>3
  <2>5. m \in FirstSeen(inv)
    BY <1>1, <2>2, <2>4 DEF FirstSeen
  <2>6. QED
    BY <2>2, <2>5
<1>6. \A i \in FirstSeen(inv) : at[i] \in IdsOf(inv)
  BY <1>1, <1>2 DEF IdsOf
<1>7. at \in Bijection(FirstSeen(inv), IdsOf(inv))
  BY <1>4, <1>5, <1>6 DEF Bijection, Injection, Surjection, IsInjective
<1>8. ExistsBijection(FirstSeen(inv), IdsOf(inv))
  BY <1>7 DEF ExistsBijection
<1>9. QED
  BY <1>3, <1>8, FS_Bijection DEF Deduplicated

\* A SARIF level stands for one priority, or for all that are not actionable.
LEMMA LevelFacts ==
  /\ LevelOf("p0") = "error" /\ LevelOf("p1") = "warning"
  /\ \A p : p \notin {"p0", "p1"} => LevelOf(p) = "note"
<1>1. LevelOf("p0") = "error"
  BY DEF LevelOf
<1>2. LevelOf("p1") = "warning"
  BY DEF LevelOf
<1>3. \A p : p \notin {"p0", "p1"} => LevelOf(p) = "note"
  BY DEF LevelOf
<1>4. QED
  BY <1>1, <1>2, <1>3

\* The formats agree about every finding and in their totals.
LEMMA FormatsSound ==
  ASSUME NEW inv \in InventoryRecords
  PROVE  FormatsAgree(inv)
<1> DEFINE rows == CsvRows(inv)
           fs == Deduplicated(inv)
           sums == ExcelSummary(inv)
           results == SarifRun(inv).results
           counted(p) == IF p \in DOMAIN sums.byPriority THEN sums.byPriority[p] ELSE 0
           level(name) == Cardinality({i \in DOMAIN results : results[i].level = name})
           lines(p) == {i \in DOMAIN fs : AssessmentOf(inv, fs[i]).priority = p}
<1>1. InventoryTyped(inv)
  BY InventoriesTyped
<1>2. DOMAIN rows = DOMAIN fs /\ DOMAIN results = DOMAIN fs
  BY DEF CsvRows, SarifRun
<1>3. \A i \in DOMAIN fs : rows[i] = FlattenArtefact(inv, fs[i]) /\ results[i] = SarifResult(inv, fs[i])
  BY DEF CsvRows, SarifRun
<1>4. SarifRun(inv).rules = {SarifRule(fs[i]) : i \in DOMAIN fs}
  BY DEF SarifRun
<1>5. /\ sums.total = Cardinality(DOMAIN rows)
      /\ sums.byPriority = CountBy(rows, "priority")
      /\ NativeSummary(inv).total = Cardinality(FirstSeen(inv))
  BY DEF ExcelSummary, NativeSummary
<1> HIDE DEF rows, fs, sums, results
<1>6. ASSUME NEW i \in DOMAIN fs
      PROVE  LET r == rows[i]  c == CycloneDxProperties(inv, fs[i])  n == NativeEntry(inv, fs[i])
                 s == results[i]  x == SpdxSnippet(inv, fs[i])
             IN /\ r.score = c.score /\ r.score = s.score /\ r.score = x.score /\ r.score = n.assessment.score
                /\ r.priority = c.priority /\ r.priority = n.assessment.priority
                /\ x.priority \in {"", r.priority} /\ s.level = LevelOf(r.priority)
                /\ r.recommended = c.recommended /\ r.recommended = s.fix
                /\ r.recommended = x.recommended /\ r.recommended = n.recommendation.algorithm
                /\ r.recommended # "" => r.priority \in {"p0", "p1"}
                /\ s.rule \in SarifRun(inv).rules
  <2> DEFINE f == fs[i]
             v == AssessmentOf(inv, f)
             w == AdviceOf(inv, f)
             r == rows[i]
             c == CycloneDxProperties(inv, f)
             n == NativeEntry(inv, f)
             s == results[i]
             x == SpdxSnippet(inv, f)
  <2>1. r.score = v.score /\ r.priority = v.priority /\ r.recommended = w.algorithm
    <3>1. r = FlattenArtefact(inv, f)
      BY <1>3
    <3> HIDE DEF r
    <3>2. QED
      BY <3>1 DEF FlattenArtefact
  <2>2. c.score = v.score /\ c.priority = v.priority /\ c.recommended = w.algorithm
    BY DEF CycloneDxProperties
  <2>3. n.assessment = v /\ n.recommendation = w
    BY DEF NativeEntry
  <2>4. s.score = v.score /\ s.level = LevelOf(v.priority) /\ s.fix = w.algorithm /\ s.rule = SarifRule(f)
    <3>1. s = SarifResult(inv, f)
      BY <1>3
    <3> HIDE DEF s
    <3>2. QED
      BY <3>1 DEF SarifResult
  <2>5. x.score = v.score /\ x.priority \in {"", v.priority} /\ x.recommended = w.algorithm
    BY DEF SpdxSnippet
  <2>6. w.algorithm # "" => v.priority \in {"p0", "p1"}
    BY <1>1, AdviceActionable
  <2>7. SarifRule(f) \in SarifRun(inv).rules
    BY <1>4
  <2> HIDE DEF f, v, w, r, c, n, s, x
  <2>8. /\ r.score = c.score /\ r.score = s.score /\ r.score = x.score /\ r.score = n.assessment.score
        /\ r.priority = c.priority /\ r.priority = n.assessment.priority
        /\ x.priority \in {"", r.priority} /\ s.level = LevelOf(r.priority)
        /\ r.recommended = c.recommended /\ r.recommended = s.fix
        /\ r.recommended = x.recommended /\ r.recommended = n.recommendation.algorithm
        /\ r.recommended # "" => r.priority \in {"p0", "p1"}
        /\ s.rule \in SarifRun(inv).rules
    BY <2>1, <2>2, <2>3, <2>4, <2>5, <2>6, <2>7
  <2>9. QED
    BY <2>8 DEF f, r, c, n, s, x
<1>7. ASSUME NEW p PROVE counted(p) = Cardinality(lines(p))
  <2>1. DOMAIN sums.byPriority = {rows[i].priority : i \in DOMAIN rows}
    BY <1>5 DEF CountBy
  <2>2. p \in DOMAIN sums.byPriority =>
          sums.byPriority[p] = Cardinality({i \in DOMAIN rows : rows[i].priority = p})
    BY <1>5, <2>1 DEF CountBy
  <2>3. \A i \in DOMAIN fs : rows[i].priority = AssessmentOf(inv, fs[i]).priority
    BY <1>6, Zenon DEF NativeEntry
  <2>4. {i \in DOMAIN rows : rows[i].priority = p} = lines(p)
    BY <1>2, <2>3
  <2>5. p \notin DOMAIN sums.byPriority => lines(p) = {}
    BY <1>2, <2>1, <2>3
  <2>6. Cardinality({}) = 0
    BY FS_EmptySet
  <2> HIDE DEF lines
  <2>7. QED
    BY <2>2, <2>4, <2>5, <2>6
<1>8. level("error") = Cardinality(lines("p0")) /\ level("warning") = Cardinality(lines("p1"))
  <2>1. \A i \in DOMAIN fs : results[i].level = LevelOf(AssessmentOf(inv, fs[i]).priority)
    BY <1>6, Zenon DEF NativeEntry
  <2>2. \A p : (LevelOf(p) = "error" <=> p = "p0") /\ (LevelOf(p) = "warning" <=> p = "p1")
    BY LevelFacts
  <2>3. /\ {i \in DOMAIN results : results[i].level = "error"} = lines("p0")
        /\ {i \in DOMAIN results : results[i].level = "warning"} = lines("p1")
    BY <1>2, <2>1, <2>2
  <2>4. QED
    BY <2>3
<1>9. sums.total = NativeSummary(inv).total /\ sums.total = Cardinality(IdsOf(inv))
  BY <1>1, <1>2, <1>5, FirstSeenFacts DEF fs
<1> HIDE DEF lines
<1>10. counted("p0") = level("error") /\ counted("p1") = level("warning")
  BY <1>7, <1>8
<1> HIDE DEF counted, level
<1>11. QED
  BY <1>6, <1>9, <1>10, Zenon DEF FormatsAgree, rows, fs, sums, results, counted, level

-----------------------------------------------------------------------------
(* Differences. *)
LEMMA DiffSound ==
  ASSUME NEW old \in InventoryRecords, NEW new \in InventoryRecords
  PROVE  DiffReconciles(old, new)
<1> DEFINE d == ComputeDiff(old, new)
           r == ComputeDiff(new, old)
           O == IdsOf(old)
           N == IdsOf(new)
           changed == {id \in O \cap N : Differs(old, new, id)}
<1>1. \A id : Differs(old, new, id) <=> Differs(new, old, id)
  BY DEF Differs
<1>2. IsFiniteSet(O) /\ IsFiniteSet(N)
  BY InventoriesTyped, FirstSeenFacts
<1>3. /\ d.added = N \ O /\ d.removed = O \ N /\ d.changed = changed
      /\ d.unchanged = Cardinality((O \cap N) \ changed)
      /\ d.before = Cardinality(O) /\ d.after = Cardinality(N)
  BY DEF ComputeDiff
<1>4. r.added = O \ N /\ r.removed = N \ O /\ r.changed = {id \in N \cap O : Differs(new, old, id)}
  BY DEF ComputeDiff
<1>5. r.changed = d.changed
  BY <1>1, <1>3, <1>4
<1>6. ASSUME NEW id \in O \cap N, (id \in Vulnerable(old)) # (id \in Vulnerable(new))
      PROVE  id \in changed
  <2>1. FindingAt(old, id).vulnerability # FindingAt(new, id).vulnerability
    BY <1>6 DEF Vulnerable
  <2>2. Compared(FindingAt(old, id)) # Compared(FindingAt(new, id))
    BY <2>1 DEF Compared
  <2>3. Differs(old, new, id)
    BY <2>2 DEF Differs
  <2>4. QED
    BY <2>3
<1> HIDE DEF d, r, O, N
<1>7. changed \subseteq O \cap N
  OBVIOUS
<1> HIDE DEF changed
<1>8. /\ Cardinality(O) \in Nat /\ Cardinality(N) \in Nat /\ Cardinality(O \cap N) \in Nat
      /\ Cardinality(changed) \in Nat
  BY <1>2, <1>7, FS_Subset, FS_Intersection, FS_CardinalityType
<1>9. /\ Cardinality(N \ O) = Cardinality(N) - Cardinality(O \cap N)
      /\ Cardinality(O \ N) = Cardinality(O) - Cardinality(O \cap N)
  <2>1. N \cap O = O \cap N
    OBVIOUS
  <2>2. Cardinality(N \ O) = Cardinality(N) - Cardinality(N \cap O)
        /\ Cardinality(O \ N) = Cardinality(O) - Cardinality(O \cap N)
    BY <1>2, FS_Difference
  <2>3. QED
    BY <2>1, <2>2
<1>10. Cardinality((O \cap N) \ changed) = Cardinality(O \cap N) - Cardinality(changed)
  <2>1. (O \cap N) \cap changed = changed
    BY <1>7
  <2>2. IsFiniteSet(O \cap N)
    BY <1>2, FS_Intersection
  <2>3. Cardinality((O \cap N) \ changed) = Cardinality(O \cap N) - Cardinality((O \cap N) \cap changed)
    BY <2>2, FS_Difference
  <2>4. QED
    BY <2>1, <2>3
<1>11. /\ d.after = d.before + Cardinality(d.added) - Cardinality(d.removed)
       /\ d.before = Cardinality(d.removed) + Cardinality(d.changed) + d.unchanged
  BY <1>3, <1>8, <1>9, <1>10
<1>12. QED
  BY <1>3, <1>4, <1>5, <1>6, <1>11 DEF DiffReconciles, Reconciles, d, r, O, N

-----------------------------------------------------------------------------
(* The theorems: whatever is asked, and in every state of the stateful     *)
(* engines.                                                                *)

\* The assumptions of Engines say what a question is made of.
LEMMA WhatIsAsked ==
  ASSUME QuestionOK
  PROVE  /\ question.kind = "risk" =>
              /\ question.artefact \in ArtefactRecords /\ question.context \in ContextRecords
              /\ question.horizon \in Maybe
         /\ question.kind = "advice" => question.profile \in ProfileRecords
         /\ question.kind = "gate" =>
              BuildOK(question.build.found, question.build.contexts, question.build.profile)
         /\ question.kind = "comparison" => question.findings \in Seq(SightingRecords)
         /\ question.kind = "export" => question.inventory \in InventoryRecords
         /\ question.kind = "diff" => question.old \in InventoryRecords /\ question.new \in InventoryRecords
<1>1. question \in Machines => question.kind \in {"ingest", "waves", "inherit"}
  BY DEF Machines
<1>2. /\ question \in RiskQuestions => question.kind = "risk"
      /\ question \in AdviceQuestions => question.kind = "advice"
      /\ question \in GateQuestions => question.kind = "gate"
      /\ question \in ComparisonQuestions => question.kind = "comparison"
      /\ question \in ExportQuestions => question.kind = "export"
      /\ question \in DiffQuestions => question.kind = "diff"
  BY DEF RiskQuestions, AdviceQuestions, GateQuestions, ComparisonQuestions, ExportQuestions, DiffQuestions
<1>3. question \in RiskQuestions => question.artefact \in ArtefactRecords
        /\ question.context \in ContextRecords /\ question.horizon \in Maybe
  BY RiskInputs DEF RiskQuestions, Maybe
<1>4. question \in AdviceQuestions => question.profile \in ProfileRecords
  BY AdviceInputs DEF AdviceQuestions
<1>5. question \in GateQuestions =>
        BuildOK(question.build.found, question.build.contexts, question.build.profile)
  BY GateInputs DEF GateQuestions, BuildOK
<1>6. question \in ComparisonQuestions => question.findings \in Seq(SightingRecords)
  BY ComparisonInputs DEF ComparisonQuestions
<1>7. /\ question \in ExportQuestions => question.inventory \in InventoryRecords
      /\ question \in DiffQuestions => question.old \in InventoryRecords /\ question.new \in InventoryRecords
  BY ReportInputs DEF ExportQuestions, DiffQuestions
<1>8. QED
  BY <1>1, <1>2, <1>3, <1>4, <1>5, <1>6, <1>7 DEF QuestionOK, Pure

(* classify_risk never raises for an artefact under the label ingest       *)
(* stores, whatever the artefact, its context and the horizon.             *)
THEOREM NoLabelRaises == EnginesSpec => []EveryArtefactIsClassified
<1>1. QuestionOK => EveryArtefactIsClassified
  BY WhatIsAsked, ClassifiesLabelled DEF EveryArtefactIsClassified, Answered
<1>2. QED
  BY <1>1, QuestionStays, PTL

(* A more capable adversary (the next scenario of the resource engine)     *)
(* never lowers a score, for any artefact: the crossing only moves to an   *)
(* earlier year, gaps in the curve included.                               *)
THEOREM CapabilityRaisesScores == EnginesSpec => []CapabilityNeverHelps
<1>1. QuestionOK => CapabilityNeverHelps
  BY WhatIsAsked, CapabilitySound DEF CapabilityNeverHelps, Answered
<1>2. QED
  BY <1>1, QuestionStays, PTL

(* Data that must stay secret longer never lowers a score: neither a       *)
(* longer stated lifetime nor more evidence from a source that is no       *)
(* stronger than those already heard.                                      *)
THEOREM LifetimeRaisesScores == EnginesSpec => []LifetimeNeverHelps
<1>1. QuestionOK => LifetimeNeverHelps
  BY WhatIsAsked, LifetimeSound, RiskInputs DEF LifetimeNeverHelps, Answered
<1>2. QED
  BY <1>1, QuestionStays, PTL

(* A verdict's harvest-now-decrypt-later flag, its Mosca date and its      *)
(* confidence never contradict each other.                                 *)
THEOREM VerdictsAreConsistent == EnginesSpec => []TracksNeverContradict
<1>1. QuestionOK => TracksNeverContradict
  BY WhatIsAsked, TracksSound DEF TracksNeverContradict, Answered
<1>2. QED
  BY <1>1, QuestionStays, PTL

(* A verdict rebuilt from its row, and one made anew from the rows of      *)
(* artefact and context, is the verdict first made (mapping.py).           *)
THEOREM RowsKeepVerdicts == EnginesSpec => []VerdictsSurviveStorage
<1>1. QuestionOK => VerdictsSurviveStorage
  BY WhatIsAsked, StorageSound, RescoreSound DEF VerdictsSurviveStorage, Answered
<1>2. QED
  BY <1>1, QuestionStays, PTL

(* The recommendation engine does not raise for a profile the loader let   *)
(* through, and cites a parameter set of it.                               *)
THEOREM LoadedProfilesAreSafe == EnginesSpec => []AcceptedProfilesNeverRaise
<1>1. QuestionOK => AcceptedProfilesNeverRaise
  BY WhatIsAsked, AdviceSound DEF AcceptedProfilesNeverRaise, Answered
<1>2. QED
  BY <1>1, QuestionStays, PTL

(* The gate of the scan command: a weaker threshold fails whenever a       *)
(* stricter one does, and more context never turns a failure into a pass.  *)
THEOREM GateIsHonest == EnginesSpec => []GateNeverRelaxes
<1>1. DefaultHorizon \in Maybe
  BY DEF DefaultHorizon, Maybe
<1>2. QuestionOK => GateNeverRelaxes
  BY <1>1, WhatIsAsked, GateSound DEF GateNeverRelaxes, Answered
<1>3. QED
  BY <1>2, QuestionStays, PTL

(* Every protocol seen on the wire is matched by a declaration or critical *)
(* and the counts of the comparison partition the protocols.               *)
THEOREM SightingsAreCounted == EnginesSpec => []ObservationsAccounted
<1>1. QuestionOK => ObservationsAccounted
  BY WhatIsAsked, ObservationsSound DEF ObservationsAccounted, Answered
<1>2. QED
  BY <1>1, QuestionStays, PTL

(* All six report formats say the same of a finding, and their totals and  *)
(* counts agree, for any inventory the database may return.                *)
THEOREM ReportsTellOneStory == EnginesSpec => []ExportsAgree
<1>1. QuestionOK => ExportsAgree
  BY WhatIsAsked, FormatsSound DEF ExportsAgree, Answered
<1>2. QED
  BY <1>1, QuestionStays, PTL

(* The posture numbers of a diff add up, read in either direction.         *)
THEOREM DiffsAddUp == EnginesSpec => []DiffsReconcile
<1>1. QuestionOK => DiffsReconcile
  BY WhatIsAsked, DiffSound DEF DiffsReconcile, Answered
<1>2. QED
  BY <1>1, QuestionStays, PTL

(* The stateful engines keep their types, next to whatever else is asked.  *)
THEOREM EnginesKeepTheirTypes == EnginesSpec => []EnginesTypeOK
  BY IngestRuns, IngestInvHolds, IngestTypesFollow, PlanRuns, PlanTypes, InheritRuns, InheritanceKeepsItsTypes, PTL
  DEF EnginesTypeOK

(* Every component ingest has read is a finding, a recorded gap or counted *)
(* as no cryptographic asset: none disappears.                             *)
THEOREM IngestAccountsForAll == EnginesSpec => []NothingDroppedSilently
  BY IngestRuns, IngestInvHolds, NothingIsDropped, PTL

(* A component becomes a gap only for one of the reasons the code names.   *)
THEOREM SoundComponentsAreKept == EnginesSpec => []SoundComponentsSurvive
  BY IngestRuns, IngestInvHolds, SoundOnesSurvive, PTL

(* A finding exported as CycloneDX and ingested again keeps its type, its  *)
(* name, its algorithm, its primitive, its places, and the one number of   *)
(* an algorithm that was exported.                                         *)
THEOREM ReexportsReturn == EnginesSpec => []ReexportKeepsTheFinding
  BY IngestRuns, IngestInvHolds, ReexportsFollow, PTL

(* The migration planner and the inheritance of criticality promise inside *)
(* the whole what they promise alone.                                      *)
THEOREM GraphAnswersStand ==
  EnginesSpec => [](WavesInOrder /\ RaisesExactlyOnCycles /\ HighestAncestorGoverns)
  BY PlanRuns, WavesFollowPrerequisites, RaisesForCycles, InheritRuns, HighestGoverns, PTL
=============================================================================
