----------------------------- MODULE Evaluation -----------------------------
(***************************************************************************)
(* sw/evaluation/results.py and schema.py, and the script that compares a  *)
(* result file with its vectors.  A packed bit string and its hex form are *)
(* the sequence of its bytes; a JSONL file is the sequence of its records, *)
(* and `torn` when it ends in the middle of a line.                        *)
(***************************************************************************)
EXTENDS Naturals, Sequences, FiniteSets, SequencesExt

SCHEMA_VERSION == 0

\* validate_bit_length: as few bytes as the bits need, with zeros above them.
CanonicalLength(bytes, bit_length) ==
  /\ Len(bytes) = (bit_length + 7) \div 8
  /\ bit_length % 8 # 0 => bytes[Len(bytes)] < 2^(bit_length % 8)

\* CaseResult.__post_init__
ValidResult(r) ==
  /\ r.schema_version = SCHEMA_VERSION
  /\ r.case_id # "" /\ r.implementation # ""
  /\ CanonicalLength(r.output, r.output_bit_length)

\* TestVector.__post_init__
ValidVector(v) ==
  /\ v.schema_version = SCHEMA_VERSION
  /\ v.case_id # "" /\ v.algorithm # ""
  /\ CanonicalLength(v.input, v.input_bit_length)
  /\ CanonicalLength(v.encoded, v.encoded_bit_length)
  /\ CanonicalLength(v.received, v.encoded_bit_length)
  /\ CanonicalLength(v.decoded, v.decoded_bit_length)
  /\ IsInjective(v.error_bit_positions)
  /\ \A i \in DOMAIN v.error_bit_positions :
       v.error_bit_positions[i] \in 0 .. v.encoded_bit_length - 1

\* read_jsonl raises: a line is malformed or no valid vector, or result.
read_vectors_refuses(file) ==
  file.torn \/ \E i \in DOMAIN file.records : ~ValidVector(file.records[i])

read_results_refuses(file) ==
  file.torn \/ \E i \in DOMAIN file.records : ~ValidResult(file.records[i])

CaseIds(records) == {records[i].case_id : i \in DOMAIN records}
Unique(records) == Cardinality(CaseIds(records)) = Len(records)

\* The one result with a case ID.
ResultOf(results, case_id) ==
  results[CHOOSE i \in DOMAIN results : results[i].case_id = case_id]

\* MUTANT: a vector without a result is no failure.
Failure_missing_passes(vector, results) ==
  IF vector.case_id \notin CaseIds(results) THEN "none"
  ELSE IF ResultOf(results, vector.case_id).output # vector.decoded THEN "output_hex mismatch"
  ELSE "none"

\* What is wrong with the result of a vector.
Failure(vector, results) ==
  IF vector.case_id \notin CaseIds(results) THEN "missing result"
  ELSE LET result == ResultOf(results, vector.case_id)
       IN  IF result.output # vector.decoded THEN "output_hex mismatch"
           ELSE IF result.output_bit_length # vector.decoded_bit_length
           THEN "output_bit_length mismatch"
           ELSE IF result.status # vector.expected_status THEN "status mismatch"
           ELSE "none"

\* evaluate_results raises when a case ID occurs twice on either side.
evaluate_results_refuses(vectors, results) == ~Unique(vectors) \/ ~Unique(results)

evaluate_results(vectors, results) ==
  LET failures ==
        {[case_id |-> vectors[i].case_id, reason |-> Failure(vectors[i], results)] :
           i \in {i \in DOMAIN vectors : Failure(vectors[i], results) # "none"}}
          \cup {[case_id |-> id, reason |-> "unknown result case_id"] :
                  id \in CaseIds(results) \ CaseIds(vectors)}
  IN  [total |-> Len(vectors),
       passed |-> Len(vectors)
                    - Cardinality({f \in failures : f.case_id \in CaseIds(vectors)}),
       failed |-> Cardinality(failures)]

\* scripts/evaluate_streaming_results.py: the same for the records of a
\* testbench that compares for itself and writes one for each case it passed.
evaluate_streaming_results(result_file, expected_cases) ==
  IF /\ ~read_results_refuses(result_file)
     /\ Len(result_file.records) = expected_cases
     /\ Unique(result_file.records)
     /\ \A i \in DOMAIN result_file.records :
          LET r == result_file.records[i]
          IN  /\ r.implementation = "rtl" /\ r.status = << >>
              /\ r.output = <<1>> /\ r.output_bit_length = 1
  THEN 0 ELSE 1

\* scripts/evaluate_reference_results.py: the exit status, 1 after any
\* exception too.
evaluate_reference_results(vector_file, result_file) ==
  IF \/ read_vectors_refuses(vector_file)
     \/ read_results_refuses(result_file)
     \/ evaluate_results_refuses(vector_file.records, result_file.records)
  THEN 1
  ELSE IF evaluate_results(vector_file.records, result_file.records).failed > 0
  THEN 1 ELSE 0
=============================================================================
