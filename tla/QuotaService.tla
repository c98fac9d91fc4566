---------------------------- MODULE QuotaService ----------------------------
(***************************************************************************)
(* The reference solution of examples/tenant-quota-service: job services   *)
(* with limits of active jobs per tenant over one repository.  A call runs *)
(* to its end before the next one (the task asks for no concurrency), but  *)
(* several services with limits of their own may share the repository, and *)
(* it may hold jobs before there is a service.                             *)
(*                                                                         *)
(* A job is found under its id, prefix-number; numbers are given out once, *)
(* so an id is taken as its number and the dictionary as a sequence in the *)
(* order of insertion.  Payloads and prefixes are left out.                *)
(***************************************************************************)
EXTENDS Naturals, Sequences, FiniteSets

CONSTANTS
  Tenants,    \* the nonblank tenant names used
  Services,   \* the services that may be constructed
  RawLimits,  \* values tried as limits; those that are no naturals are invalid
  MaxSeeds,   \* bound: jobs created before the first service
  MaxJobs     \* bound: jobs in the repository

ASSUME QuotaAssumption ==
  MaxSeeds \in Nat /\ MaxJobs \in Nat

VARIABLES
  jobs,      \* InMemoryJobRepository._jobs
  next_id,   \* InMemoryJobRepository._next_id
  config,    \* the frozen ServiceConfig of each service constructed so far
  seeded     \* history: jobs of each tenant before there was a service

repository == <<jobs, next_id>>
quotaVars == <<repository, config, seeded>>

Statuses == {"PENDING", "RUNNING", "SUCCEEDED", "FAILED", "CANCELLED"}

(* What submit_job counts.                                                 *)
ActiveStatuses == {"PENDING", "RUNNING"}

(* Overrides are given for some of the tenants.                            *)
Overrides == UNION {[T -> RawLimits] : T \in SUBSET Tenants}

QuotaInit ==
  /\ jobs = << >> /\ next_id = 1
  /\ config = << >> /\ seeded = [t \in Tenants |-> 0]

(* A repository of its own, without a service.                             *)
NewRepository ==
  /\ jobs' = << >> /\ next_id' = 1
  /\ config' = << >> /\ seeded' = [t \in Tenants |-> 0]

(* _validate_limit                                                         *)
ValidateLimit(limit) == limit \in Nat

ValidConfig(c) ==
  /\ ValidateLimit(c.default_limit)
  /\ \A t \in DOMAIN c.overrides : ValidateLimit(c.overrides[t])

(* ServiceConfig owns a snapshot of the overrides.  An invalid limit is a  *)
(* ValueError and there is no service.                                     *)
Construct(s) ==
  /\ s \notin DOMAIN config
  /\ \E c \in [default_limit : RawLimits, overrides : Overrides] :
       config' = IF ValidConfig(c)
                   THEN [x \in DOMAIN config \cup {s} |-> IF x = s THEN c ELSE config[x]]
                   ELSE config
  /\ UNCHANGED <<repository, seeded>>

(* tenant_active_job_limits.get(tenant_id, default_active_job_limit)       *)
LimitOf(s, t) ==
  IF t \in DOMAIN config[s].overrides THEN config[s].overrides[t]
  ELSE config[s].default_limit

ActiveJobs(t) ==
  {i \in 1..Len(jobs) : jobs[i].tenant = t /\ jobs[i].status \in ActiveStatuses}
ActiveCount(t) == Cardinality(ActiveJobs(t))

(* InMemoryJobRepository.create                                            *)
CreateJob(t) ==
  /\ Len(jobs) < MaxJobs
  /\ jobs' = Append(jobs, [id |-> next_id, tenant |-> t, status |-> "PENDING"])
  /\ next_id' = next_id + 1

(* Somebody uses the repository before it is given to a service.           *)
Seed(t) ==
  /\ config = << >> /\ Len(jobs) < MaxSeeds
  /\ CreateJob(t)
  /\ seeded' = [seeded EXCEPT ![t] = @ + 1]
  /\ UNCHANGED config

(* What submit_job returns or raises for valid input; a blank tenant or a  *)
(* payload of the wrong types is a ValueError before any of this.          *)
SubmitAnswer(s, t) ==
  IF ActiveCount(t) >= LimitOf(s, t)
    THEN [error |-> "QuotaExceededError", limit |-> LimitOf(s, t), active |-> ActiveCount(t)]
    ELSE [error |-> "", id |-> next_id]

SubmitAccepted(s, t) ==
  /\ s \in DOMAIN config
  /\ ActiveCount(t) < LimitOf(s, t)
  /\ CreateJob(t)
  /\ UNCHANGED <<config, seeded>>

(* Mutant: the job is made before the limit is looked at.                  *)
SubmitRejectedLate(s, t) ==
  /\ s \in DOMAIN config
  /\ ActiveCount(t) >= LimitOf(s, t)
  /\ next_id' = next_id + 1
  /\ UNCHANGED <<jobs, config, seeded>>

SubmitRejected(s, t) ==
  /\ s \in DOMAIN config
  /\ ActiveCount(t) >= LimitOf(s, t)
  /\ UNCHANGED quotaVars

(* Mutant: a finished job can be put back.                                 *)
CanTransitionBack(current, requested) ==
  \/ current = requested
  \/ current = "PENDING" /\ requested \in {"RUNNING", "CANCELLED"}
  \/ current = "RUNNING" /\ requested \in {"SUCCEEDED", "FAILED", "CANCELLED"}
  \/ current = "FAILED" /\ requested = "PENDING"

(* can_transition                                                          *)
CanTransition(current, requested) ==
  \/ current = requested
  \/ current = "PENDING" /\ requested \in {"RUNNING", "CANCELLED"}
  \/ current = "RUNNING" /\ requested \in {"SUCCEEDED", "FAILED", "CANCELLED"}

(* set_status, by any service                                              *)
SetStatus(i, status) ==
  /\ DOMAIN config # {} /\ i \in 1..Len(jobs)
  /\ CanTransition(jobs[i].status, status)
  /\ jobs' = [jobs EXCEPT ![i].status = status]
  /\ UNCHANGED <<next_id, config, seeded>>

(* JobNotFoundError or InvalidTransitionError.                             *)
SetStatusRefused(i, status) ==
  /\ DOMAIN config # {}
  /\ i \in 1..Len(jobs) => ~CanTransition(jobs[i].status, status)
  /\ UNCHANGED quotaVars

QuotaNext ==
  \/ \E s \in Services : Construct(s)
  \/ \E t \in Tenants : Seed(t)
  \/ \E s \in Services, t \in Tenants : SubmitAccepted(s, t) \/ SubmitRejected(s, t)
  \/ \E i \in 1..MaxJobs, status \in Statuses : SetStatus(i, status) \/ SetStatusRefused(i, status)

QuotaSpec == QuotaInit /\ [][QuotaNext]_quotaVars
-----------------------------------------------------------------------------
Configs == [default_limit : RawLimits \cap Nat,
            overrides : UNION {[T -> RawLimits \cap Nat] : T \in SUBSET Tenants}]

(* Every variable of the services has its type; jobs are listed in the     *)
(* order of their numbers, and no number is given twice.                   *)
QuotaTypeOK ==
  /\ jobs \in Seq([id : Nat, tenant : Tenants, status : Statuses])
  /\ next_id = Len(jobs) + 1 /\ \A i \in 1..Len(jobs) : jobs[i].id = i
  /\ DOMAIN config \subseteq Services /\ \A s \in DOMAIN config : config[s] \in Configs
  /\ seeded \in [Tenants -> Nat]

(* Whatever the services, the order of submissions and the changes of      *)
(* status: a tenant never has more active jobs than some service over the  *)
(* repository grants it, or than it had before there was a service.        *)
QuotaHolds ==
  \A t \in Tenants :
    \/ ActiveCount(t) <= seeded[t]
    \/ \E s \in DOMAIN config : ActiveCount(t) <= LimitOf(s, t)
=============================================================================
