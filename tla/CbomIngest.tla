----------------------------- MODULE CbomIngest -----------------------------
(***************************************************************************)
(* How a scanner's CycloneDX document becomes artefacts: the document is   *)
(* validated whole, then its components are read one by one, each ending   *)
(* as an artefact, as a skipped component, or as a skipped component with  *)
(* a coverage gap.  A target may be scanned again with another document.   *)
(*                                                                         *)
(* A component is reduced to what decides its fate and its facts.  A wire  *)
(* number is an integer, 0 when the text is not a positive number, Absent  *)
(* when the key is missing.  sha256 is modelled as injective: an id is the *)
(* tuple that is hashed.                                                   *)
(***************************************************************************)
EXTENDS Absence, Integers, FiniteSets, Sequences

CONSTANTS Documents,    \* the documents a scanner may return for the target
          MaxScans      \* bound: scans of the target

(* What a parsed document can hold.  A parameter set that is not quoted is *)
(* a JSON value other than a text; every other field has the JSON type its *)
(* reader expects.  A validity window with one zoned and one unzoned date  *)
(* is "incomparable".                                                      *)
Occurrence == [path : STRING, line : Int]
ComponentRecords ==
  [kind : STRING, name : STRING, wire : STRING, hint : STRING, algorithm : STRING, primitive : STRING,
   keySize : Int, parameterSet : Int, quoted : BOOLEAN, mode : STRING, validity : STRING, observed : STRING,
   management : STRING, method : STRING, confidence : STRING, places : Seq(Occurrence)]
ASSUME DocumentsParsed ==
  Documents \subseteq [broken : SUBSET STRING, components : Seq(ComponentRecords)]
ASSUME ScansBounded == MaxScans \in Nat \ {0}

VARIABLES document,     \* the document being ingested
          position,     \* index of the next component; 0 before validation
          artefacts,    \* id -> artefact, in the order of the dict
          skipped, gaps,\* the counters of the IngestResult
          earlier,      \* artefacts of the previous scans of the target
          scans
ingestVars == <<document, position, artefacts, skipped, gaps, earlier, scans>>

AssetTypes == {"algorithm", "key", "certificate", "protocol", "library",
               "hardware_module", "cloud_service", "related_material"}

-----------------------------------------------------------------------------
(* The wire vocabulary: several canonical types share one CycloneDX         *)
(* spelling, and a Trinetra property tells them apart.                      *)

NeedsHint(t) == t \in {"key", "hardware_module", "cloud_service"}
WireType(t) == IF NeedsHint(t) \/ t = "related_material" THEN "related-crypto-material" ELSE t
AssetTypeFromWire(wire, hint) ==
  CASE hint \in AssetTypes -> hint
    [] hint \notin AssetTypes /\ wire = "related-crypto-material" -> "related_material"
    [] hint \notin AssetTypes /\ wire \in {"algorithm", "certificate", "protocol", "library"} -> wire
    [] OTHER -> "algorithm"

(* Mutant: zero and negative numbers pass. *)
AnyInt(raw) == raw

PositiveInt(raw) == IF raw > 0 THEN raw ELSE Absent
FirstKnown(a, b) == IF a # Absent THEN a ELSE b
OneOf(raw, known, fallback) == IF raw \in known THEN raw ELSE fallback

-----------------------------------------------------------------------------
(* The typed detail of an artefact; a detail with nothing in it is dropped. *)

NoDetail == [type |-> "none"]
KeySize(c) == FirstKnown(PositiveInt(c.keySize), PositiveInt(c.parameterSet))
SetIsTheKeySize(c) == PositiveInt(c.keySize) = Absent /\ PositiveInt(c.parameterSet) # Absent

(* The parameter set is dropped only when the key size was taken from it.  *)
KeptParameterSet(c) == IF SetIsTheKeySize(c) THEN Absent ELSE c.parameterSet
AlgorithmDetail(c) ==
  LET size == KeySize(c)  set == KeptParameterSet(c)
  IN IF size = Absent /\ set = Absent /\ c.mode = "none" THEN NoDetail
     ELSE [type |-> "algorithm", size |-> size, set |-> set, mode |-> c.mode,
           quoted |-> set = Absent \/ c.quoted]
KeyDetail(c) ==
  IF KeySize(c) = Absent THEN NoDetail ELSE [type |-> "key", size |-> KeySize(c)]
CertificateDetail(c) ==   \* the name stands in for a missing subject
  [type |-> "certificate", size |-> KeySize(c), validity |-> c.validity]
ProtocolDetail(c) ==
  [type |-> "protocol", observed |-> c.observed = "true", quoted |-> c.parameterSet = Absent \/ c.quoted]
CloudServiceDetail(c) ==
  LET management == OneOf(c.management, {"provider_managed", "customer_managed"}, "unknown")
  IN IF management = "unknown" /\ c.parameterSet = Absent THEN NoDetail
     ELSE [type |-> "cloud_service", management |-> management,
           quoted |-> c.parameterSet = Absent \/ c.quoted]
HardwareModuleDetail(c) == NoDetail   \* nothing structured is read from the wire

BuildDetail(t, c) ==
  CASE t = "algorithm" -> AlgorithmDetail(c)     [] t = "key" -> KeyDetail(c)
    [] t = "certificate" -> CertificateDetail(c) [] t = "protocol" -> ProtocolDetail(c)
    [] t = "cloud_service" -> CloudServiceDetail(c)
    [] t = "hardware_module" -> HardwareModuleDetail(c)
    [] t = "library" -> [type |-> "library"]
    [] OTHER -> NoDetail

(* Occurrences that are not objects or have no location are passed over;   *)
(* evidence is kept under the position of its occurrence, in that order.   *)
Located(c) == {i \in DOMAIN c.places : c.places[i].path \notin {"not_an_object", "blank"}}
BuildEvidence(c) ==
  [i \in Located(c) |->
     [path |-> c.places[i].path, line |-> PositiveInt(c.places[i].line), method |->
       OneOf(c.method, {"ast_match", "config_parse"}, "other"), confidence |->
       OneOf(c.confidence, {"high", "medium", "low"}, "low")]]
First(evidence) == evidence[CHOOSE i \in DOMAIN evidence : \A j \in DOMAIN evidence : i <= j]
AbsolutePath(p) == p = "absolute"

ResolveAlgorithm(c) == IF c.algorithm # "none" THEN c.algorithm ELSE c.name

(* Mutant: two components of one type, name and place are one finding. *)
IdWithoutDiscriminator(t, name, first, discriminator) == <<t, name, first.path, first.line>>

ComputeArtefactId(t, name, first, discriminator) ==
  <<t, name, first.path, first.line, discriminator>>

(* Mutant: a library keeps its algorithm. *)
AlgorithmOfAny(t, c) == ResolveAlgorithm(c)

AlgorithmOf(t, c) == IF t = "library" THEN "none" ELSE ResolveAlgorithm(c)

(* The validators of SourceLocation, of the details and of CryptoArtefact; *)
(* a detail that holds its parameter set holds it as a text.  Comparing a  *)
(* zoned date with an unzoned one raises.                                  *)
ArtefactAccepted(a) ==
  /\ DOMAIN a.evidence # {}
  /\ \A i \in DOMAIN a.evidence : ~AbsolutePath(a.evidence[i].path)
  /\ a.type = "library" => a.algorithm = "none"
  /\ a.detail.type \in {"none", a.type}
  /\ a.detail.type = "certificate" => a.detail.validity \notin {"inverted", "incomparable"}
  /\ a.detail.type \in {"algorithm", "protocol", "cloud_service"} => a.detail.quoted

Artefact(c, index) ==
  LET t == AssetTypeFromWire(c.wire, c.hint)
      evidence == BuildEvidence(c)
  IN [id        |-> IF DOMAIN evidence = {} THEN << >>
                    ELSE ComputeArtefactId(t, c.name, First(evidence), index),
      type      |-> t,
      name      |-> c.name,
      algorithm |-> AlgorithmOf(t, c),
      primitive |-> c.primitive,
      detail    |-> BuildDetail(t, c),
      evidence  |-> evidence]

Ingestible(c, index) == c.name # "" /\ ArtefactAccepted(Artefact(c, index))

(* A rediscovery: the evidence of both, the first of every place and       *)
(* method (which stands for the rule as well, both being properties of the *)
(* component).  Ids carry the index, so no two components of one document  *)
(* meet here.                                                              *)
MergedWith(a, b) ==
  LET key(e) == <<e.path, e.line, e.method>>
      end    == CHOOSE i \in DOMAIN a.evidence : \A j \in DOMAIN a.evidence : j <= i
      both   == [i \in DOMAIN a.evidence \cup {end + j : j \in DOMAIN b.evidence} |->
                   IF i \in DOMAIN a.evidence THEN a.evidence[i] ELSE b.evidence[i - end]]
      first  == {i \in DOMAIN both : \A j \in DOMAIN both : j < i => key(both[j]) # key(both[i])}
  IN [a EXCEPT !.evidence = [i \in first |-> both[i]]]

-----------------------------------------------------------------------------
(* The document as a whole: every problem is collected, any refuses it. *)

Problems(d) ==
  {p \in {"bomFormat", "specVersion", "serialNumber", "timestamp", "tools", "components"} :
     p \in d.broken}

IngestInit ==
  /\ document \in Documents
  /\ position = 0 /\ artefacts = << >> /\ skipped = 0 /\ gaps = << >>
  /\ earlier = {} /\ scans = 1

Done == position > Len(document.components)

ValidateDocument ==
  /\ position = 0
  /\ Problems(document) = {}
  /\ position' = 1
  /\ UNCHANGED <<document, artefacts, skipped, gaps, earlier, scans>>

Current == document.components[position]
Reading == position > 0 /\ ~Done

SkipComponent ==
  /\ Reading /\ Current.kind # "cryptographic-asset"
  /\ skipped' = skipped + 1
  /\ position' = position + 1
  /\ UNCHANGED <<document, artefacts, gaps, earlier, scans>>

RecordGap ==
  /\ Reading /\ Current.kind = "cryptographic-asset" /\ ~Ingestible(Current, position)
  /\ gaps' = Append(gaps, position)
  /\ skipped' = skipped + 1
  /\ position' = position + 1
  /\ UNCHANGED <<document, artefacts, earlier, scans>>

KeepArtefact ==
  /\ Reading /\ Current.kind = "cryptographic-asset" /\ Ingestible(Current, position)
  /\ LET a == Artefact(Current, position)
         merged == IF a.id \in DOMAIN artefacts THEN MergedWith(artefacts[a.id], a) ELSE a
     IN artefacts' = [id \in DOMAIN artefacts \cup {a.id} |->
                        IF id = a.id THEN merged ELSE artefacts[id]]
  /\ position' = position + 1
  /\ UNCHANGED <<document, skipped, gaps, earlier, scans>>

(* The target is scanned again; the new document replaces the old. *)
RescanTarget ==
  /\ Done /\ scans < MaxScans
  /\ document' \in Documents
  /\ earlier' = earlier \cup {artefacts[id] : id \in DOMAIN artefacts}
  /\ scans' = scans + 1
  /\ position' = 0 /\ artefacts' = << >> /\ skipped' = 0 /\ gaps' = << >>

IngestNext == ValidateDocument \/ SkipComponent \/ RecordGap \/ KeepArtefact \/ RescanTarget
IngestSpec == IngestInit /\ [][IngestNext]_ingestVars

-----------------------------------------------------------------------------
(* Only positive lines and sizes, in documents that were accepted. *)
IngestTypeOK ==
  /\ position \in 0..(Len(document.components) + 1)
  /\ position > 0 => Problems(document) = {}
  /\ \A id \in DOMAIN artefacts :
       /\ artefacts[id].type \in AssetTypes /\ id = artefacts[id].id
       /\ \A i \in DOMAIN artefacts[id].evidence :
            artefacts[id].evidence[i].line \in (Nat \ {0}) \cup {Absent}
  /\ skipped \in Nat /\ Len(gaps) <= skipped /\ scans \in 1..MaxScans

(* Nothing is dropped in silence (cbom_ingest.py:95-97): every component   *)
(* read so far is an artefact of its own or is counted as skipped, and     *)
(* every cryptographic component that was skipped has its coverage gap.    *)
NothingDroppedSilently ==
  position > 0 =>
    LET read == 1..(position - 1)
        crypto == {i \in read : document.components[i].kind = "cryptographic-asset"}
    IN /\ Cardinality(DOMAIN artefacts) + skipped = Cardinality(read)
       /\ Cardinality(DOMAIN artefacts) + Len(gaps) = Cardinality(crypto)

(* A named component with a usable relative location is never lost to a    *)
(* validator, whatever its asset type and however sparse its properties    *)
(* are, unless its own validity window is inverted or cannot be compared,  *)
(* or a detail has to hold its unquoted parameter set: the detail, the     *)
(* algorithm and the type built for it agree.                              *)
SoundComponentsSurvive ==
  \A i \in DOMAIN gaps :
    LET c == document.components[gaps[i]]
    IN \/ c.name = "" \/ Located(c) = {} \/ c.validity \in {"inverted", "incomparable"}
       \/ ~c.quoted /\ AssetTypeFromWire(c.wire, c.hint) \in {"algorithm", "protocol", "cloud_service"}
       \/ \E j \in DOMAIN c.places : AbsolutePath(c.places[j].path)

(* The docstrings of ingest_document and compute_artefact_id: "the same    *)
(* finding in a later scan of the same target keeps its identity", that is *)
(* a finding of the same type, name and place is found under the same id.  *)
(* (Meant for documents that name no place twice.)                         *)
IdentitySurvivesRescan ==
  \A a \in earlier : \A id \in DOMAIN artefacts :
    LET b == artefacts[id]
    IN (a.type = b.type /\ a.name = b.name /\ First(a.evidence).path = First(b.evidence).path
        /\ First(a.evidence).line = First(b.evidence).line) => a.id = b.id
=============================================================================
