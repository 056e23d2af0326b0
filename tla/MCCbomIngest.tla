---------------------------- MODULE MCCbomIngest ----------------------------
(* Documents for CbomIngest: one component of every fate and type. *)
EXTENDS CbomIngest, SequencesExt

At(path, line) == [path |-> path, line |-> line]
Plain == [kind |-> "cryptographic-asset", name |-> "RSA", wire |-> "algorithm", hint |-> "none",
          algorithm |-> "none", primitive |-> "pke", keySize |-> Absent, parameterSet |-> 2048,
          quoted |-> TRUE, mode |-> "none", validity |-> "none", observed |-> "none", management |-> "none",
          method |-> "ast_match", confidence |-> "high", places |-> <<At("src", 7)>>]

Types == { [Plain EXCEPT !.wire = WireType(t), !.hint = IF NeedsHint(t) THEN t ELSE "none"] :
             t \in AssetTypes }
Variants ==
  { [Plain EXCEPT !.parameterSet = 0, !.mode = "gcm"],             \* "P-256": not a number
    [Plain EXCEPT !.keySize = 0, !.parameterSet = Absent],
    [Plain EXCEPT !.keySize = 4096],                                \* and "2048" beside it
    [Plain EXCEPT !.quoted = FALSE], [Plain EXCEPT !.quoted = FALSE, !.keySize = 4096],
    [Plain EXCEPT !.quoted = FALSE, !.wire = "protocol"],
    [Plain EXCEPT !.quoted = FALSE, !.wire = "certificate"],
    [Plain EXCEPT !.wire = "newer-type", !.hint = "newer-hint", !.algorithm = "rsa"],
    [Plain EXCEPT !.wire = "certificate", !.validity = "ordered", !.keySize = 4096],
    [Plain EXCEPT !.wire = "certificate", !.validity = "inverted"],
    [Plain EXCEPT !.wire = "certificate", !.validity = "incomparable"],
    [Plain EXCEPT !.wire = "protocol", !.observed = "true", !.confidence = "certain"],
    [Plain EXCEPT !.wire = "related-crypto-material", !.hint = "cloud_service",
                  !.management = "provider_managed"],
    [Plain EXCEPT !.wire = "library", !.algorithm = "rsa"],
    [Plain EXCEPT !.name = ""],
    [Plain EXCEPT !.kind = "library"],
    [Plain EXCEPT !.places = << >>],
    [Plain EXCEPT !.places = <<At("blank", 1), At("not_an_object", 1)>>],
    [Plain EXCEPT !.places = <<At("src", 0), At("src", 9), At("blank", 1)>>],
    [Plain EXCEPT !.places = <<At("src", 7), At("absolute", 7)>>] }

Alone == { [broken |-> {}, components |-> <<c>>] : c \in Types \cup Variants }
Pairs == { [broken |-> {}, components |-> <<c, d>>] :
             c \in {Plain, [Plain EXCEPT !.name = ""]},
             d \in {Plain, [Plain EXCEPT !.kind = "library"], [Plain EXCEPT !.places = << >>]} }
Refused == { [broken |-> {p}, components |-> <<Plain>>] :
               p \in {"bomFormat", "specVersion", "serialNumber", "timestamp", "tools", "components"} }
MixedDocuments == Alone \cup Pairs \cup Refused \cup {[broken |-> {}, components |-> << >>]}

(* The findings of three files, in file order; any of the files may be     *)
(* new, or gone, when the target is scanned again.                         *)
Found(path) == [Plain EXCEPT !.places = <<At(path, 7)>>]
GrowingDocuments ==
  { [broken |-> {}, components |-> SelectSeq(<<Found("a"), Found("b"), Found("c")>>,
                                             LAMBDA f : f.places[1].path \in kept)] :
      kept \in SUBSET {"a", "b", "c"} }
=============================================================================
