---------------------------- MODULE TestFile_proofs ----------------------------
(***************************************************************************)
(* Proofs about TestFile, for any texts, files, languages and schemas.     *)
(***************************************************************************)
EXTENDS TestFile, TLAPS

\* An execution that does not nullify leaves the expectation of a test that has one, passed
\* or failed, skipped or renovated, for any file and any two writes of it that may be cut.
THEOREM ExpectationStays == Spec => FilledStaysFilled
\* Renovating and loading a file change nothing in it but "$schema", unless it is cut.
<1>1. ASSUME NEW schema, LoadTest(schema)
      PROVE  data' = Truncated \/ data'["expected"] = data["expected"]
  <2>1. {"args", "expected"} \subseteq DOMAIN data
    BY <1>1 DEF LoadTest, Loads
  <2>2. Renovated(data, schema)["expected"] = data["expected"]
    BY <2>1 DEF Renovated, Put
  <2> QED
    BY <1>1, <2>2 DEF LoadTest, Store
<1>2. ASSUME [Next]_vars, Loads(data), data["expected"] # Null, did' # "nullified"
      PROVE  data' = Truncated \/ data'["expected"] = data["expected"]
  <2>1. CASE UNCHANGED vars
    BY <2>1 DEF vars
  <2>2. CASE Rebuild
    BY <2>2 DEF Rebuild
  <2>3. ASSUME NEW schema, Reject(schema) PROVE FALSE
    BY <1>2, <2>3 DEF Reject
  <2>4. ASSUME NEW schema, Compare(schema) \/ Skip(schema)
        PROVE  data' = Truncated \/ data'["expected"] = data["expected"]
    BY <1>1, <2>4 DEF Compare, Skip
  <2>5. ASSUME NEW schema, Save(schema) PROVE FALSE
    BY <1>2, <2>5 DEF Save
  <2>6. ASSUME NEW schema, NEW lang, Nullify(schema, lang) PROVE FALSE
    BY <1>2, <2>6 DEF Nullify
  <2> QED
    BY <1>2, <2>1, <2>2, <2>3, <2>4, <2>5, <2>6 DEF Next
<1> QED
  BY <1>2, PTL DEF Spec, FilledStaysFilled
=============================================================================
