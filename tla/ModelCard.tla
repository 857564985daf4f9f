------------------------------ MODULE ModelCard ------------------------------
(***************************************************************************)
(* validate_model_card (model_card.py).  A card is what its check can tell *)
(* apart: the digest it names, the defects it has, each named by the issue *)
(* it raises, and whether it is of a FastReID model.                       *)
(***************************************************************************)

CONSTANT NoDigest   \* model.sha256 is absent or empty

\* What every check of a card looks at.
FieldDefects ==
  {"missing_section", "invalid_section", "missing_field", "invalid_version", "invalid_format",
   "invalid_precision", "invalid_shape", "invalid_layout", "invalid_dtype", "invalid_max_batch_size",
   "invalid_limitations", "invalid_artifact_name", "version_mismatch", "precision_mismatch"}

MetricDefects ==
  {"invalid_metric_thresholds", "invalid_metric_threshold", "metric_missing", "metric_below_threshold"}

\* What strict_provenance looks at, if the card has an object provenance at all,
ProvenanceDefects ==
  {"untrusted_profile", "missing_experiment_id", "missing_config_path", "missing_config_sha256",
   "missing_code_revision", "missing_checkpoint_provenance", "untrusted_onnx_source",
   "untrusted_metrics_source"}

\* and if besides the model is a FastReID one,
FastReidDefects == {"missing_fastreid_provenance", "missing_license_provenance"}

\* and in any case.
ReleaseDefects ==
  {"missing_provenance", "missing_metric_thresholds", "placeholder_dataset",
   "missing_dataset_reference", "missing_dataset_reference_field", "placeholder_limitations"}

Defects == {"read_error"} \cup FieldDefects \cup MetricDefects \cup ProvenanceDefects
           \cup FastReidDefects \cup ReleaseDefects

DigestIssues(card, digest, flags) ==
  {i \in {"empty_sha256", "sha256_mismatch"} :
     IF i = "empty_sha256" THEN flags.hash /\ card.digest = NoDigest
                           ELSE card.digest \notin {NoDigest, digest}}

ProvenanceIssues(card) ==
  card.defects \cap
    (ReleaseDefects
     \cup (IF "missing_provenance" \in card.defects THEN {} ELSE ProvenanceDefects)
     \cup (IF "missing_provenance" \in card.defects \/ ~card.fastreid THEN {} ELSE FastReidDefects))

\* flags: strict_hash and strict_provenance.  A card that cannot be read has one issue.
CardIssues(card, digest, flags) ==
  IF "read_error" \in card.defects THEN {"read_error"}
  ELSE (card.defects \cap (FieldDefects \cup MetricDefects))
       \cup DigestIssues(card, digest, flags)
       \cup (IF flags.provenance THEN ProvenanceIssues(card) ELSE {})

\* default_model_card: well formed, with placeholders that no release gets past.
DefaultCard(digest) ==
  [digest   |-> digest,
   fastreid |-> FALSE,
   defects  |-> {"missing_provenance", "missing_metric_thresholds", "placeholder_dataset",
                 "missing_dataset_reference", "placeholder_limitations"}]
=============================================================================
