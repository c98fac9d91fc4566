--------------------------- MODULE BatchProcessor ---------------------------
(***************************************************************************)
(* The reference solution of examples/metadata-batch-optimization: enrich  *)
(* keeps the profiles it has resolved for the length of one call.  The     *)
(* start version, which resolves every record anew, is the definition of   *)
(* what a batch has to yield.  Profiles are set and removed between calls, *)
(* as the tests do; the task asks for no updates during one.               *)
(*                                                                         *)
(* An encoded profile is what decoding makes of it: a fault, or a version  *)
(* and the fields it requires.  A record is its profile and its fields.    *)
(***************************************************************************)
EXTENDS Naturals, Sequences

CONSTANTS
  Profiles,   \* profile ids
  Versions,   \* what tells one state of a profile from another
  Fields,     \* payload fields that a profile may require
  MaxRecords  \* bound: records in a batch

ASSUME BatchAssumption == Versions \subseteq Nat /\ MaxRecords \in Nat

VARIABLES
  store,     \* InMemoryProfileRepository._profiles, or Absent
  busy,      \* enrich is running
  records,   \* its batch
  position,  \* records done
  profiles,  \* the profiles resolved by this call
  result,    \* the list it builds
  failure,   \* "none", or the error the call ended with
  reads,     \* calls of get_encoded during this call (CountingRepository)
  decodes    \* calls of decode during this call (CountingDecoder)

call == <<busy, records, position, profiles, result, failure, reads, decodes>>
batchVars == <<store, call>>

Absent == [fault |-> "MissingProfileError", version |-> 0, required |-> {}]
Undecodable ==
  {[fault |-> f, version |-> 0, required |-> {}] :
     f \in {"ProfileDecodeError", "ProfileValidationError"}}
Metadata == [fault : {"none"}, version : Versions, required : SUBSET Fields]
Encoded == Undecodable \cup Metadata

Records == [profile : Profiles, fields : SUBSET Fields]

BatchInit ==
  /\ store = [p \in Profiles |-> Absent]
  /\ busy = FALSE /\ records = << >> /\ position = 0 /\ profiles = << >> /\ result = << >>
  /\ failure = "none" /\ reads = << >> /\ decodes = << >>

(* A new repository and a processor over it.                               *)
NewProcessor ==
  /\ store' = [p \in Profiles |-> Absent]
  /\ busy' = FALSE /\ records' = << >> /\ position' = 0 /\ profiles' = << >> /\ result' = << >>
  /\ failure' = "none" /\ reads' = << >> /\ decodes' = << >>

Working == busy /\ position < Len(records) /\ failure = "none"

(* set_encoded and remove                                                  *)
Store(p) ==
  /\ ~busy
  /\ \E e \in Encoded \cup {Absent} : store' = [store EXCEPT ![p] = e]
  /\ UNCHANGED call

(* Mutant: the resolved profiles outlive the call.                         *)
EnrichPersistent(batch) ==
  /\ ~busy /\ busy' = TRUE
  /\ records' = batch /\ position' = 0 /\ result' = << >>
  /\ failure' = "none" /\ reads' = << >> /\ decodes' = << >>
  /\ UNCHANGED <<store, profiles>>

Enrich(batch) ==
  /\ ~busy /\ busy' = TRUE
  /\ records' = batch /\ position' = 0 /\ profiles' = << >> /\ result' = << >>
  /\ failure' = "none" /\ reads' = << >> /\ decodes' = << >>
  /\ UNCHANGED store

record == records[position + 1]

(* validate_record and render_record with the profile found.               *)
Render(profile) ==
  IF profile.required \subseteq record.fields
    THEN /\ result' = Append(result, [record |-> record, version |-> profile.version])
         /\ position' = position + 1
         /\ UNCHANGED failure
    ELSE failure' = "RecordValidationError" /\ UNCHANGED <<result, position>>

(* The profile was resolved before in this call.                           *)
Reuse ==
  /\ Working /\ record.profile \in DOMAIN profiles
  /\ Render(profiles[record.profile])
  /\ UNCHANGED <<store, busy, records, profiles, reads, decodes>>

(* Mutant: what is read is not kept.                                       *)
ResolveAgain ==
  /\ Working /\ record.profile \notin DOMAIN profiles
  /\ store[record.profile].fault = "none"
  /\ reads' = Append(reads, record.profile) /\ decodes' = Append(decodes, record.profile)
  /\ Render(store[record.profile])
  /\ UNCHANGED <<store, busy, records, profiles>>

Resolve ==
  /\ Working /\ record.profile \notin DOMAIN profiles
  /\ store[record.profile].fault = "none"
  /\ reads' = Append(reads, record.profile) /\ decodes' = Append(decodes, record.profile)
  /\ profiles' = [p \in DOMAIN profiles \cup {record.profile} |->
                    IF p = record.profile THEN store[p] ELSE profiles[p]]
  /\ Render(store[record.profile])
  /\ UNCHANGED <<store, busy, records>>

(* get_encoded or decode raises; a missing profile is not decoded.         *)
ResolveFails ==
  /\ Working /\ record.profile \notin DOMAIN profiles
  /\ store[record.profile].fault # "none"
  /\ failure' = store[record.profile].fault
  /\ reads' = Append(reads, record.profile)
  /\ decodes' = IF store[record.profile] = Absent THEN decodes
                ELSE Append(decodes, record.profile)
  /\ UNCHANGED <<store, busy, records, position, profiles, result>>

(* The list is returned or the error raised; the locals are gone (profiles *)
(* is left as it was, the next call binds it anew).                        *)
Return ==
  /\ busy /\ (position = Len(records) \/ failure # "none")
  /\ busy' = FALSE
  /\ records' = << >> /\ position' = 0 /\ result' = << >>
  /\ failure' = "none" /\ reads' = << >> /\ decodes' = << >>
  /\ UNCHANGED <<store, profiles>>

EnrichStep == Reuse \/ Resolve \/ ResolveFails

Batches == UNION {[1..n -> Records] : n \in 0..MaxRecords}

BatchNext ==
  \/ \E p \in Profiles : Store(p)
  \/ \E batch \in Batches : Enrich(batch)
  \/ EnrichStep \/ Return

BatchSpec == BatchInit /\ [][BatchNext]_batchVars
-----------------------------------------------------------------------------
(* Every variable of the processor has its type.                           *)
BatchTypeOK ==
  /\ store \in [Profiles -> Encoded \cup {Absent}]
  /\ busy \in BOOLEAN /\ records \in Seq(Records) /\ position \in 0..Len(records)
  /\ DOMAIN profiles \subseteq Profiles /\ \A p \in DOMAIN profiles : profiles[p] \in Metadata
  /\ result \in Seq([record : Records, version : Versions])
  /\ failure \in {"none", "MissingProfileError", "ProfileDecodeError",
                  "ProfileValidationError", "RecordValidationError"}
  /\ reads \in Seq(Profiles) /\ decodes \in Seq(Profiles)

(* The start version: what each record comes to by itself.                 *)
Baseline(r) ==
  LET profile == store[r.profile]
  IN IF profile.fault # "none" \/ profile.required \subseteq r.fields THEN profile.fault
     ELSE "RecordValidationError"

(* A call returns what the start version returns now, record by record and *)
(* in order, or ends at the same record with the same error.               *)
AgreesWithBaseline ==
  /\ \A i \in 1..position : Baseline(records[i]) = "none"
  /\ result = [i \in 1..position |->
                 [record |-> records[i], version |-> store[records[i].profile].version]]
  /\ failure # "none" => failure = Baseline(record)

(* The records the call has looked at.                                     *)
Considered == 1..(IF failure = "none" THEN position ELSE position + 1)

ProfilesBefore(i) == {records[j].profile : j \in 1..(i - 1)}
ReadBefore(k) == {reads[l] : l \in 1..(k - 1)}

(* The work of a call: each profile of the records considered is read      *)
(* once, at its first record, when all the profiles before it and no       *)
(* others were read; and what was read is decoded once, in the same order, *)
(* but for the profile a call ends with because it is missing.             *)
OneReadPerProfile ==
  /\ \A i \in Considered : \E k \in 1..Len(reads) : reads[k] = records[i].profile
  /\ \A k \in 1..Len(reads) :
       /\ reads[k] \notin ReadBefore(k)
       /\ \E i \in Considered : records[i].profile = reads[k] /\ ProfilesBefore(i) = ReadBefore(k)
  /\ decodes = IF failure = "MissingProfileError" THEN SubSeq(reads, 1, Len(reads) - 1) ELSE reads
=============================================================================
