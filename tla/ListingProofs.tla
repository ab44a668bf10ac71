----------------------------- MODULE ListingProofs -----------------------------
(***************************************************************************)
(* Theorems about Listing, for any number of jobs, any queries, any        *)
(* replies of the kinds a read has (RepliesAssumption) and any halves      *)
(* compiled in.                                                            *)
(***************************************************************************)
EXTENDS Listing, TLAPS

Order == INSTANCE WellFoundedInduction

\* The reads of a query.
ReadsOf(query) ==
  CASE query = {"alternate"}  -> {"alternates"}
    [] query = {"installed"}  -> {"installed_modules", "installed_packages", "installed_plugins"}
    [] query = {"keywords"}   -> {"search_modules", "search_packages"}
    [] query = {"for_update"} -> {"updates"}
    [] OTHER                  -> {}

ModuleRead == {"installed_modules", "search_modules"}

\* A job knows which read it is in, and the app of the row it is at is made.
AtRead(j) ==
  /\ job[j].pc \in {"reading", "rows", "appending"} => job[j].todo # <<>>
  /\ job[j].pc \in {"rows", "appending"} =>
       \A i \in DOMAIN job[j].reply : Fits(job[j].reply[i], Head(job[j].todo))
  /\ job[j].pc = "appending" =>
       /\ job[j].reply # <<>>
       /\ Head(job[j].reply).key \in DOMAIN appCache

\* What is still to be read belongs to the query, the modules before the rest.
PlanKept(j) ==
  /\ \A i \in DOMAIN job[j].todo :
       /\ job[j].todo[i] \in ReadsOf(job[j].query)
       /\ job[j].todo[i] \in ModuleRead => i = 1
  /\ Alternates(j) => Len(job[j].todo) <= 1

\* A job is answered by the step that ends its work.
Answering(j) ==
  /\ job[j].pc \notin {"idle", "returned", "done"} => Supported(job[j].query)
  /\ job[j].returns = IF job[j].pc \in {"returned", "done"} THEN 1 ELSE 0
  /\ job[j].pc \in {"returned", "done"} =>
       \/ job[j].result = "cancelled" /\ j \in cancelled
       \/ job[j].result = "not_supported" /\ ~Supported(job[j].query) /\ job[j].got = <<>>
       \/ job[j].result = "apps" /\ Supported(job[j].query) /\ job[j].todo = <<>>
  /\ job[j].pc \notin {"returned", "done"} => job[j].result = "none"

JobsOK ==
  /\ job \in [Jobs -> JobRecord]
  /\ \A j \in Jobs : AtRead(j) /\ PlanKept(j) /\ Answering(j)

AppsOK ==
  /\ DOMAIN appCache \subseteq Keys
  /\ \A k \in DOMAIN appCache : appCache[k] \in Ids
  /\ matches \in [Keys -> Nat]
  /\ sortKey \in [Keys -> Nat \cup {Unset}]
  /\ cancelled \subseteq Cancellable

TypeInv == JobsOK /\ AppsOK

-------------------------------------------------------------------------------
LEMMA Concatenation ==
  ASSUME NEW S, NEW a \in Seq(S), NEW b \in Seq(S)
  PROVE  /\ a \o b \in Seq(S)
         /\ \A i \in DOMAIN (a \o b) :
              \/ i \in DOMAIN a /\ (a \o b)[i] = a[i]
              \/ i > Len(a) /\ i - Len(a) \in DOMAIN b /\ (a \o b)[i] = b[i - Len(a)]
OBVIOUS

\* Reads of set S, of which no one but the first is of the modules.
ReadsIn(s, S) == s \in Seq(Read) /\ \A i \in DOMAIN s : s[i] \in S /\ (s[i] \in ModuleRead => i = 1)

LEMMA PlanOfTwo ==
  ASSUME NEW a \in Seq(Read), NEW b \in Seq(Read), NEW S, ReadsIn(a, S),
         \A i \in DOMAIN b : b[i] \in S /\ b[i] \notin ModuleRead
  PROVE  ReadsIn(a \o b, S)
BY Concatenation DEF ReadsIn

LEMMA PlanTyped ==
  ASSUME NEW query
  PROVE  /\ Plan(query) \in Seq(Read)
         /\ \A i \in DOMAIN Plan(query) :
              Plan(query)[i] \in ReadsOf(query) /\ (Plan(query)[i] \in ModuleRead => i = 1)
         /\ query = {"alternate"} => Len(Plan(query)) <= 1
<1> USE DEF Read
<1>1. {"alternate"} # {"installed"} /\ {"alternate"} # {"keywords"} /\ {"alternate"} # {"for_update"}
      /\ {"installed"} # {"keywords"} /\ {"installed"} # {"for_update"} /\ {"keywords"} # {"for_update"}
  <2>1. "alternate" # "installed" /\ "alternate" # "keywords" /\ "alternate" # "for_update"
        /\ "installed" # "keywords" /\ "installed" # "for_update" /\ "keywords" # "for_update"
    OBVIOUS
  <2> QED
    BY <2>1
<1>2. CASE query = {"alternate"}
  BY <1>1, <1>2 DEF Plan, ReadsOf, ModuleRead
<1>3. CASE query = {"for_update"}
  BY <1>1, <1>3 DEF Plan, ReadsOf, ModuleRead
<1>4. CASE query = {"keywords"}
  <2> DEFINE a == IfCompiled("modules", <<"search_modules">>)
             b == IfCompiled("packages", <<"search_packages">>)
  <2>1. Plan(query) = a \o b /\ ReadsOf(query) = {"search_modules", "search_packages"}
    BY <1>1, <1>4 DEF Plan, ReadsOf
  <2>2. a \in {<<>>, <<"search_modules">>} /\ b \in {<<>>, <<"search_packages">>}
    BY DEF IfCompiled
  <2> HIDE DEF a, b
  <2>3. a \in Seq(Read) /\ b \in Seq(Read)
    <3>1. <<>> \in Seq(Read) /\ <<"search_modules">> \in Seq(Read) /\ <<"search_packages">> \in Seq(Read)
      OBVIOUS
    <3> QED
      BY <2>2, <3>1
  <2>4. ReadsIn(a, ReadsOf(query))
    BY <2>1, <2>2, <2>3 DEF ReadsIn
  <2>5. \A i \in DOMAIN b : b[i] \in ReadsOf(query) /\ b[i] \notin ModuleRead
    BY <2>1, <2>2 DEF ModuleRead
  <2>6. ReadsIn(a \o b, ReadsOf(query))
    BY <2>3, <2>4, <2>5, PlanOfTwo
  <2> QED
    BY <1>1, <1>4, <2>1, <2>6 DEF ReadsIn
<1>5. CASE query = {"installed"}
  <2> DEFINE a == IfCompiled("modules", <<"installed_modules">>)
             b == IfCompiled("packages", <<"installed_packages">>)
             c == IfCompiled("modules", <<"installed_plugins">>)
  <2>1. /\ Plan(query) = a \o b \o c
        /\ ReadsOf(query) = {"installed_modules", "installed_packages", "installed_plugins"}
    BY <1>1, <1>5 DEF Plan, ReadsOf
  <2>2. /\ a \in {<<>>, <<"installed_modules">>} /\ b \in {<<>>, <<"installed_packages">>}
        /\ c \in {<<>>, <<"installed_plugins">>}
    BY DEF IfCompiled
  <2> HIDE DEF a, b, c
  <2>3. a \in Seq(Read) /\ b \in Seq(Read) /\ c \in Seq(Read)
    <3>1. /\ <<>> \in Seq(Read) /\ <<"installed_modules">> \in Seq(Read)
          /\ <<"installed_packages">> \in Seq(Read) /\ <<"installed_plugins">> \in Seq(Read)
      OBVIOUS
    <3> QED
      BY <2>2, <3>1
  <2>4. ReadsIn(a, ReadsOf(query))
    BY <2>1, <2>2, <2>3 DEF ReadsIn
  <2>5. /\ \A i \in DOMAIN b : b[i] \in ReadsOf(query) /\ b[i] \notin ModuleRead
        /\ \A i \in DOMAIN c : c[i] \in ReadsOf(query) /\ c[i] \notin ModuleRead
    BY <2>1, <2>2 DEF ModuleRead
  <2>6. ReadsIn(a \o b, ReadsOf(query)) /\ a \o b \in Seq(Read)
    BY <2>3, <2>4, <2>5, PlanOfTwo, Concatenation
  <2>7. ReadsIn((a \o b) \o c, ReadsOf(query))
    BY <2>3, <2>5, <2>6, PlanOfTwo
  <2> QED
    BY <1>1, <1>5, <2>1, <2>7 DEF ReadsIn
<1>6. CASE query \notin {{"alternate"}, {"installed"}, {"keywords"}, {"for_update"}}
  BY <1>6 DEF Plan, ReadsOf, ModuleRead
<1> QED
  BY <1>2, <1>3, <1>4, <1>5, <1>6

LEMMA InitTyped == Init => TypeInv
<1> SUFFICES ASSUME Init PROVE TypeInv
  OBVIOUS
<1>1. NoJob \in JobRecord
  BY DEF NoJob, JobRecord, JobPC, Result
<1>2. JobsOK
  BY <1>1 DEF Init, JobsOK, AtRead, PlanKept, Answering, NoJob, Alternates
<1>3. AppsOK
  BY DEF Init, AppsOK
<1> QED
  BY <1>2, <1>3 DEF TypeInv

JobOK(j) == AtRead(j) /\ PlanKept(j) /\ Answering(j)

\* A step of j leaves the other jobs as they were: apps are only added.
LEMMA OneJobSteps ==
  ASSUME TypeInv, NEW j \in Jobs, NEW new \in JobRecord, job' = [job EXCEPT ![j] = new],
         DOMAIN appCache \subseteq DOMAIN appCache', cancelled \subseteq cancelled',
         JobOK(j)'
  PROVE  JobsOK'
<1>1. job' \in [Jobs -> JobRecord] /\ \A i \in Jobs : i # j => job'[i] = job[i]
  BY DEF TypeInv, JobsOK
<1>2. ASSUME NEW i \in Jobs, i # j PROVE JobOK(i)'
  BY <1>1, <1>2 DEF TypeInv, JobsOK, JobOK, AtRead, PlanKept, Answering, Alternates
<1> QED
  BY <1>1, <1>2 DEF JobsOK, JobOK

\* The job of a query that is answered, and of one that is refused.
Accepted(q) == [NoJob EXCEPT !.pc = "checking", !.query = q, !.todo = Plan(q)]
Refused(q) == [NoJob EXCEPT !.pc = "returned", !.query = q, !.returns = 1, !.result = "not_supported"]

LEMMA NoJobTyped ==
  /\ NoJob \in JobRecord
  /\ NoJob.reply = <<>> /\ NoJob.got = <<>> /\ NoJob.list = <<>> /\ NoJob.returns = 0
  /\ NoJob.result = "none" /\ NoJob.todo = <<>> /\ NoJob.seen = {} /\ NoJob.pc = "idle"
BY DEF NoJob, JobRecord, JobPC, Result

LEMMA StartedTyped ==
  ASSUME NEW q \in SUBSET Property
  PROVE  /\ Accepted(q) \in JobRecord
         /\ Accepted(q).pc = "checking" /\ Accepted(q).query = q /\ Accepted(q).todo = Plan(q)
         /\ Accepted(q).reply = <<>> /\ Accepted(q).got = <<>> /\ Accepted(q).list = <<>>
         /\ Accepted(q).returns = 0 /\ Accepted(q).result = "none" /\ Accepted(q).seen = {}
         /\ Refused(q) \in JobRecord
         /\ Refused(q).pc = "returned" /\ Refused(q).query = q /\ Refused(q).todo = <<>>
         /\ Refused(q).got = <<>> /\ Refused(q).list = <<>> /\ Refused(q).returns = 1
         /\ Refused(q).result = "not_supported" /\ Refused(q).seen = {}
<1>1. Plan(q) \in Seq(Read)
  BY PlanTyped
<1>2. /\ Accepted(q) \in JobRecord
      /\ Accepted(q).pc = "checking" /\ Accepted(q).query = q /\ Accepted(q).todo = Plan(q)
      /\ Accepted(q).reply = <<>> /\ Accepted(q).got = <<>> /\ Accepted(q).list = <<>>
      /\ Accepted(q).returns = 0 /\ Accepted(q).result = "none" /\ Accepted(q).seen = {}
  BY <1>1, NoJobTyped DEF Accepted, JobRecord, JobPC
<1> DEFINE a == [NoJob EXCEPT !.pc = "returned", !.query = q]
           b == [a EXCEPT !.returns = 1, !.result = "not_supported"]
<1>3. a \in JobRecord /\ a.pc = "returned" /\ a.query = q /\ a.todo = <<>> /\ a.got = <<>> /\ a.list = <<>>
      /\ a.seen = {}
  BY NoJobTyped DEF JobRecord, JobPC
<1>4. Refused(q) = b
  BY DEF Refused
<1> HIDE DEF a
<1>5. /\ b \in JobRecord /\ b.pc = "returned" /\ b.query = q /\ b.todo = <<>> /\ b.got = <<>>
      /\ b.list = <<>> /\ b.returns = 1 /\ b.result = "not_supported"
      /\ b.seen = {}
  BY <1>3 DEF JobRecord, Result
<1> QED
  BY <1>2, <1>4, <1>5

LEMMA ReturnedTyped ==
  ASSUME NEW R \in JobRecord, NEW result \in Result
  PROVE  LET new == Returned(R, result)
         IN  /\ new \in JobRecord
             /\ new.pc = "returned" /\ new.returns = R.returns + 1 /\ new.result = result
             /\ new.query = R.query /\ new.todo = R.todo /\ new.reply = R.reply /\ new.seen = R.seen
             /\ new.list = R.list /\ new.got = R.got
<1>1. R.returns + 1 \in Nat
  BY DEF JobRecord
<1>2. Returned(R, result) \in JobRecord
  BY <1>1 DEF Returned, JobRecord, JobPC
<1> QED
  BY <1>2 DEF Returned, JobRecord

LEMMA ListAppsAsyncTyped ==
  ASSUME TypeInv, NEW j \in Jobs, ListAppsAsync(j)
  PROVE  JobsOK'
<1>1. PICK q \in Queries :
        job' = [job EXCEPT ![j] = IF Supported(q) THEN Accepted(q) ELSE Refused(q)]
  BY DEF ListAppsAsync, Accepted, Refused
<1>2. q \in SUBSET Property
  BY ListingAssumption DEF ListingAssumption
<1>3. UNCHANGED <<appCache, cancelled>>
  BY DEF ListAppsAsync
<1>4. CASE Supported(q)
  <2>1. job' = [job EXCEPT ![j] = Accepted(q)] /\ job'[j] = Accepted(q)
    BY <1>1, <1>4 DEF TypeInv, JobsOK
  <2>2. JobOK(j)'
    BY <1>2, <1>4, <2>1, StartedTyped, PlanTyped DEF JobOK, AtRead, PlanKept, Answering, Alternates
  <2> QED
    BY <1>2, <1>3, <2>1, <2>2, StartedTyped, OneJobSteps
<1>5. CASE ~Supported(q)
  <2>1. job' = [job EXCEPT ![j] = Refused(q)] /\ job'[j] = Refused(q)
    BY <1>1, <1>5 DEF TypeInv, JobsOK
  <2>2. JobOK(j)'
    BY <1>2, <1>5, <2>1, StartedTyped DEF JobOK, AtRead, PlanKept, Answering, Alternates
  <2> QED
    BY <1>2, <1>3, <2>1, <2>2, StartedTyped, OneJobSteps
<1> QED
  BY <1>4, <1>5

\* What is known of a job that is at work.
LEMMA AtWork ==
  ASSUME TypeInv, NEW j \in Jobs
  PROVE  /\ job[j] \in JobRecord /\ JobOK(j)
         /\ job[j].todo # <<>> => /\ Head(job[j].todo) \in Read
                                 /\ Head(job[j].todo) \in ReadsOf(job[j].query)
                                 /\ Tail(job[j].todo) \in Seq(Read)
                                 /\ Len(Tail(job[j].todo)) = Len(job[j].todo) - 1
                                 /\ \A i \in DOMAIN Tail(job[j].todo) :
                                      /\ i + 1 \in DOMAIN job[j].todo
                                      /\ Tail(job[j].todo)[i] = job[j].todo[i + 1]
         /\ job[j].reply # <<>> => /\ Head(job[j].reply) \in Row
                                  /\ 1 \in DOMAIN job[j].reply
                                  /\ Head(job[j].reply) = job[j].reply[1]
                                  /\ Tail(job[j].reply) \in Seq(Row)
                                  /\ \A i \in DOMAIN Tail(job[j].reply) :
                                       /\ i + 1 \in DOMAIN job[j].reply
                                       /\ Tail(job[j].reply)[i] = job[j].reply[i + 1]
<1>1. job[j] \in JobRecord /\ JobOK(j)
  BY DEF TypeInv, JobsOK, JobOK
<1>2. job[j].todo \in Seq(Read) /\ job[j].reply \in Seq(Row)
  BY <1>1 DEF JobRecord
<1>3. \A i \in DOMAIN job[j].todo : job[j].todo[i] \in ReadsOf(job[j].query)
  BY <1>1 DEF JobOK, PlanKept
<1>4. ASSUME NEW S, NEW s \in Seq(S), s # <<>>
      PROVE  /\ Head(s) \in S /\ 1 \in DOMAIN s /\ Head(s) = s[1] /\ Tail(s) \in Seq(S)
             /\ Len(Tail(s)) = Len(s) - 1
             /\ \A i \in DOMAIN Tail(s) : i + 1 \in DOMAIN s /\ Tail(s)[i] = s[i + 1]
  BY <1>4
<1> QED
  BY <1>1, <1>2, <1>3, <1>4

LEMMA BailTyped ==
  ASSUME TypeInv, NEW j \in Jobs, BailIfCancelled(j)
  PROVE  JobsOK'
<1> DEFINE a == Returned(job[j], "cancelled")
           new == [a EXCEPT !.list = <<>>]
<1>0. job[j] \in JobRecord /\ JobOK(j) /\ UNCHANGED <<appCache, cancelled>>
  BY AtWork DEF BailIfCancelled
<1>1. job' = [job EXCEPT ![j] = new]
  BY DEF BailIfCancelled
<1>2. /\ a \in JobRecord /\ a.pc = "returned" /\ a.returns = job[j].returns + 1 /\ a.result = "cancelled"
      /\ a.query = job[j].query /\ a.todo = job[j].todo /\ a.got = job[j].got
  BY <1>0, ReturnedTyped DEF Result
<1> HIDE DEF a
<1>3. /\ new \in JobRecord /\ new.pc = a.pc /\ new.returns = a.returns /\ new.result = a.result
      /\ new.query = a.query /\ new.todo = a.todo /\ new.got = a.got
  <2>1. <<>> \in Seq(Keys)
    OBVIOUS
  <2>2. new \in JobRecord
    BY <1>2, <2>1 DEF JobRecord
  <2> QED
    BY <1>2, <2>2 DEF JobRecord
<1> HIDE DEF new
<1>4. job'[j] = new
  BY <1>1 DEF TypeInv, JobsOK
<1>5. JobOK(j)'
  <2>1. job[j].pc = "checking" /\ j \in cancelled
    BY DEF BailIfCancelled
  <2>2. AtRead(j)' /\ PlanKept(j)'
    BY <1>0, <1>2, <1>3, <1>4 DEF JobOK, AtRead, PlanKept, Alternates
  <2>3. Answering(j)'
    BY <1>0, <1>2, <1>3, <1>4, <2>1 DEF JobOK, Answering
  <2> QED
    BY <2>2, <2>3 DEF JobOK
<1> QED
  BY <1>0, <1>1, <1>3, <1>5, OneJobSteps

LEMMA NotCancelledTyped ==
  ASSUME TypeInv, NEW j \in Jobs, NotCancelled(j)
  PROVE  JobsOK'
<1>0. job[j] \in JobRecord /\ JobOK(j) /\ UNCHANGED <<appCache, cancelled>>
  BY AtWork DEF NotCancelled
<1>1. CASE job[j].todo = <<>>
  <2> DEFINE new == Returned(job[j], "apps")
  <2>1. job' = [job EXCEPT ![j] = new] /\ job'[j] = new
    BY <1>1 DEF NotCancelled, TypeInv, JobsOK
  <2>2. /\ new \in JobRecord /\ new.pc = "returned" /\ new.returns = job[j].returns + 1
        /\ new.result = "apps" /\ new.query = job[j].query /\ new.todo = job[j].todo
    BY <1>0, ReturnedTyped DEF Result
  <2> HIDE DEF new
  <2>3. JobOK(j)'
    BY <1>0, <1>1, <2>1, <2>2 DEF NotCancelled, JobOK, AtRead, PlanKept, Answering, Alternates
  <2> QED
    BY <1>0, <2>1, <2>2, <2>3, OneJobSteps
<1>2. CASE job[j].todo # <<>>
  <2> DEFINE new == [job[j] EXCEPT !.pc = "reading"]
  <2>1. job' = [job EXCEPT ![j] = new] /\ job'[j] = new
    BY <1>2 DEF NotCancelled, TypeInv, JobsOK
  <2>2. /\ new \in JobRecord /\ new.pc = "reading" /\ new.returns = job[j].returns
        /\ new.result = job[j].result /\ new.query = job[j].query /\ new.todo = job[j].todo
    BY <1>0 DEF JobRecord, JobPC
  <2> HIDE DEF new
  <2>3. JobOK(j)'
    BY <1>0, <1>2, <2>1, <2>2 DEF NotCancelled, JobOK, AtRead, PlanKept, Answering, Alternates
  <2> QED
    BY <1>0, <2>1, <2>2, <2>3, OneJobSteps
<1> QED
  BY <1>1, <1>2

LEMMA FinishTyped ==
  ASSUME TypeInv, NEW j \in Jobs, Finish(j)
  PROVE  JobsOK'
<1>0. job[j] \in JobRecord /\ JobOK(j) /\ UNCHANGED <<appCache, cancelled>>
  BY AtWork DEF Finish
<1> DEFINE result == IF j \in cancelled THEN "cancelled" ELSE job[j].result
           new == [job[j] EXCEPT !.pc = "done", !.result = result]
<1>1. job' = [job EXCEPT ![j] = new] /\ job'[j] = new
  BY DEF Finish, TypeInv, JobsOK
<1>2. result \in Result /\ result \in {"cancelled", job[j].result}
  BY <1>0 DEF JobRecord, Result
<1>3. result = "cancelled" => j \in cancelled \/ job[j].result = "cancelled"
  OBVIOUS
<1> HIDE DEF result
<1>4. /\ new \in JobRecord /\ new.pc = "done" /\ new.returns = job[j].returns /\ new.got = job[j].got
      /\ new.result = result /\ new.query = job[j].query /\ new.todo = job[j].todo
  BY <1>0, <1>2 DEF JobRecord, JobPC
<1> HIDE DEF new
<1>5. JobOK(j)'
  <2>1. job[j].pc = "returned"
    BY DEF Finish
  <2>2. AtRead(j)' /\ PlanKept(j)'
    BY <1>0, <1>1, <1>4 DEF JobOK, AtRead, PlanKept, Alternates
  <2>3. Answering(j)'
    BY <1>0, <1>1, <1>2, <1>3, <1>4, <2>1 DEF JobOK, Answering
  <2> QED
    BY <2>2, <2>3 DEF JobOK
<1> QED
  BY <1>0, <1>1, <1>4, <1>5, OneJobSteps

LEMMA ReadTyped ==
  ASSUME TypeInv, NEW j \in Jobs, StoreRead(j) \/ StoreReadFails(j)
  PROVE  JobsOK'
<1>0. job[j] \in JobRecord /\ JobOK(j) /\ UNCHANGED <<appCache, cancelled>> /\ job[j].pc = "reading"
  BY AtWork, SMTT(30) DEF StoreRead, StoreReadFails
<1>1. PICK rows \in Seq(Row) :
        /\ job' = [job EXCEPT ![j] = [job[j] EXCEPT !.pc = "rows", !.reply = rows]]
        /\ \A i \in DOMAIN rows : Fits(rows[i], Head(job[j].todo))
  <2>1. Head(job[j].todo) \in Read
    BY <1>0, AtWork DEF JobOK, AtRead
  <2>2. ASSUME NEW rows \in Replies[Head(job[j].todo)]
        PROVE  rows \in Seq(Row) /\ \A i \in DOMAIN rows : Fits(rows[i], Head(job[j].todo))
    BY <2>1, ListingAssumption, RepliesAssumption DEF ListingAssumption, RepliesAssumption
  <2>3. <<>> \in Seq(Row) /\ \A i \in DOMAIN <<>> : FALSE
    OBVIOUS
  <2>4. CASE StoreRead(j)
    <3>1. PICK rows \in Replies[Head(job[j].todo)] :
            job' = [job EXCEPT ![j].pc = "rows", ![j].reply = rows]
      BY <2>4 DEF StoreRead
    <3>2. job' = [job EXCEPT ![j] = [job[j] EXCEPT !.pc = "rows", !.reply = rows]]
      BY <3>1
    <3> QED
      BY <2>2, <3>2
  <2>5. CASE StoreReadFails(j)
    BY <2>3, <2>5 DEF StoreReadFails
  <2> QED
    BY <2>4, <2>5
<1> DEFINE new == [job[j] EXCEPT !.pc = "rows", !.reply = rows]
<1>2. /\ new \in JobRecord /\ new.pc = "rows" /\ new.reply = rows /\ new.returns = job[j].returns
      /\ new.result = job[j].result /\ new.query = job[j].query /\ new.todo = job[j].todo
  BY <1>0 DEF JobRecord, JobPC
<1> HIDE DEF new
<1>3. job' = [job EXCEPT ![j] = new] /\ job'[j] = new
  BY <1>1 DEF TypeInv, JobsOK, new
<1>4. AtRead(j)' /\ PlanKept(j)'
  BY <1>0, <1>1, <1>2, <1>3 DEF JobOK, AtRead, PlanKept, Alternates
<1>5. Answering(j)'
  BY <1>0, <1>2, <1>3 DEF JobOK, Answering
<1> QED
  BY <1>0, <1>2, <1>3, <1>4, <1>5, OneJobSteps DEF JobOK

\* A row whose key is new makes an app; what there was stays.
LEMMA AppsOnlyAdded ==
  ASSUME TypeInv, NEW row \in Row, row.key # NoKey, MakeApp(row)
  PROVE  /\ DOMAIN appCache' = DOMAIN appCache \cup {row.key}
         /\ \A k \in DOMAIN appCache : appCache'[k] = appCache[k]
         /\ DOMAIN appCache' \subseteq Keys
         /\ \A k \in DOMAIN appCache' : appCache'[k] \in Ids
BY DEF TypeInv, AppsOK, MakeApp, Row

LEMMA RowTyped ==
  ASSUME TypeInv, NEW j \in Jobs, RowToApp(j)
  PROVE  JobsOK' /\ AppsOK'
<1>0. /\ job[j] \in JobRecord /\ JobOK(j) /\ UNCHANGED <<matches, sortKey, cancelled>>
      /\ job[j].pc = "rows" /\ job[j].reply # <<>>
  BY AtWork DEF RowToApp
<1> DEFINE row == Head(job[j].reply)
<1>1. row \in Row
  BY <1>0, AtWork
<1>2. CASE row.key = NoKey
  <2> DEFINE new == [job[j] EXCEPT !.reply = Tail(@)]
  <2>1. /\ new \in JobRecord /\ new.pc = "rows" /\ new.reply = Tail(job[j].reply)
        /\ new.returns = job[j].returns /\ new.result = job[j].result /\ new.query = job[j].query
        /\ new.todo = job[j].todo
    BY <1>0, AtWork DEF JobRecord
  <2> HIDE DEF new
  <2>2. job' = [job EXCEPT ![j] = new] /\ job'[j] = new /\ UNCHANGED appCache
    BY <1>2 DEF RowToApp, TypeInv, JobsOK, new
  <2>6. \A i \in DOMAIN new.reply : Fits(new.reply[i], Head(job[j].todo))
    <3>1. \A i \in DOMAIN job[j].reply : Fits(job[j].reply[i], Head(job[j].todo))
      BY <1>0 DEF JobOK, AtRead
    <3>2. ASSUME NEW i \in DOMAIN new.reply PROVE Fits(new.reply[i], Head(job[j].todo))
      <4>1. i + 1 \in DOMAIN job[j].reply /\ new.reply[i] = job[j].reply[i + 1]
        BY <1>0, <2>1, AtWork
      <4> QED
        BY <3>1, <4>1
    <3> QED
      BY <3>2
  <2>3. AtRead(j)' /\ PlanKept(j)'
    BY <1>0, <2>1, <2>2, <2>6 DEF JobOK, AtRead, PlanKept, Alternates
  <2>4. Answering(j)'
    BY <1>0, <2>1, <2>2 DEF JobOK, Answering
  <2>5. JobsOK'
    BY <1>0, <2>1, <2>2, <2>3, <2>4, OneJobSteps DEF JobOK
  <2> QED
    BY <1>0, <2>2, <2>5 DEF TypeInv, AppsOK
<1>3. CASE row.key # NoKey
  <2> DEFINE new == [job[j] EXCEPT !.pc = "appending"]
  <2>1. /\ new \in JobRecord /\ new.pc = "appending" /\ new.reply = job[j].reply
        /\ new.returns = job[j].returns /\ new.result = job[j].result /\ new.query = job[j].query
        /\ new.todo = job[j].todo
    BY <1>0 DEF JobRecord, JobPC
  <2> HIDE DEF new
  <2>2. job' = [job EXCEPT ![j] = new] /\ job'[j] = new /\ MakeApp(row)
    BY <1>3 DEF RowToApp, TypeInv, JobsOK, new
  <2>3. /\ DOMAIN appCache' = DOMAIN appCache \cup {row.key} /\ DOMAIN appCache' \subseteq Keys
        /\ \A k \in DOMAIN appCache' : appCache'[k] \in Ids
    BY <1>1, <1>3, <2>2, AppsOnlyAdded
  <2>4. AtRead(j)' /\ PlanKept(j)'
    BY <1>0, <2>1, <2>2, <2>3 DEF JobOK, AtRead, PlanKept, Alternates
  <2>5. Answering(j)'
    BY <1>0, <2>1, <2>2 DEF JobOK, Answering
  <2>6. JobsOK'
    BY <1>0, <2>1, <2>2, <2>3, <2>4, <2>5, OneJobSteps DEF JobOK
  <2> QED
    BY <1>0, <2>3, <2>6 DEF TypeInv, AppsOK
<1> QED
  BY <1>2, <1>3

\* The app a row is written to, and what the row writes.
LEMMA RowWritten ==
  ASSUME TypeInv, NEW j \in Jobs, AppendRow(j)
  PROVE  LET row == Head(job[j].reply)
         IN  /\ row \in Row /\ row.key \in Keys /\ row.key \in DOMAIN appCache
             /\ Fits(row, Head(job[j].todo))
             /\ Score(row) /\ Rank(row) /\ UNCHANGED <<appCache, cancelled>>
<1>0. job[j].pc = "appending" /\ job[j].reply # <<>> /\ JobOK(j)
  BY AtWork DEF AppendRow, JobOK, AtRead
<1>1. Head(job[j].reply) \in Row /\ Head(job[j].reply) = job[j].reply[1] /\ 1 \in DOMAIN job[j].reply
  BY <1>0, AtWork
<1>2. Head(job[j].reply).key \in DOMAIN appCache
  BY <1>0 DEF JobOK, AtRead
<1>3. Fits(Head(job[j].reply), Head(job[j].todo))
  BY <1>0, <1>1 DEF JobOK, AtRead
<1> QED
  BY <1>1, <1>2, <1>3, SMTT(30) DEF AppendRow, TypeInv, AppsOK

\* What it writes to the list.
AppendedTo(R, row, listed, ids) ==
  [R EXCEPT !.pc = "rows", !.reply = Tail(@), !.got = Append(@, row.key),
            !.list = IF listed THEN Append(@, row.key) ELSE @, !.seen = ids]

LEMMA AppendedTyped ==
  ASSUME NEW R \in JobRecord, R.reply # <<>>, NEW row \in Row, row.key \in Keys,
         NEW listed \in BOOLEAN, NEW ids \in SUBSET Ids
  PROVE  LET new == AppendedTo(R, row, listed, ids)
         IN  /\ new \in JobRecord
             /\ new.pc = "rows" /\ new.reply = Tail(R.reply) /\ new.got = Append(R.got, row.key)
             /\ new.list = (IF listed THEN Append(R.list, row.key) ELSE R.list) /\ new.seen = ids
             /\ new.query = R.query /\ new.todo = R.todo /\ new.returns = R.returns
             /\ new.result = R.result
<1> DEFINE a == [R EXCEPT !.pc = "rows", !.reply = Tail(@)]
           list == IF listed THEN Append(R.list, row.key) ELSE R.list
           b == [a EXCEPT !.got = Append(@, row.key), !.list = list]
           c == [b EXCEPT !.seen = ids]
<1>1. Tail(R.reply) \in Seq(Row) /\ Append(R.got, row.key) \in Seq(Keys) /\ list \in Seq(Keys)
  BY DEF JobRecord
<1>2. /\ a \in JobRecord /\ a.pc = "rows" /\ a.reply = Tail(R.reply) /\ a.got = R.got
      /\ a.list = R.list /\ a.query = R.query /\ a.todo = R.todo /\ a.returns = R.returns
      /\ a.result = R.result
  BY <1>1 DEF JobRecord, JobPC
<1>3. AppendedTo(R, row, listed, ids) = c
  BY DEF AppendedTo
<1> HIDE DEF a, list
<1>4. /\ b \in JobRecord /\ b.pc = a.pc /\ b.reply = a.reply /\ b.got = Append(R.got, row.key)
      /\ b.list = list /\ b.query = a.query /\ b.todo = a.todo /\ b.returns = a.returns
      /\ b.result = a.result
  BY <1>1, <1>2 DEF JobRecord
<1> HIDE DEF b
<1>5. /\ c \in JobRecord /\ c.pc = b.pc /\ c.reply = b.reply /\ c.got = b.got
      /\ c.list = list /\ c.query = b.query /\ c.todo = b.todo /\ c.returns = b.returns
      /\ c.result = b.result /\ c.seen = ids
  BY <1>4 DEF JobRecord
<1> HIDE DEF c
<1> QED
  BY <1>2, <1>3, <1>4, <1>5 DEF list

LEMMA AppendRowTyped ==
  ASSUME TypeInv, NEW j \in Jobs, AppendRow(j)
  PROVE  JobsOK'
<1> DEFINE R == job[j]
           row == Head(R.reply)
           id == appCache[row.key]
           dup == Deduped(j) /\ id \in R.seen
           ids == IF Deduped(j) THEN R.seen \cup {id} ELSE R.seen
           listed == IF dup THEN FALSE ELSE TRUE
           new == AppendedTo(R, row, listed, ids)
<1>0. R \in JobRecord /\ JobOK(j) /\ R.pc = "appending" /\ R.reply # <<>>
  BY AtWork DEF AppendRow, JobOK, AtRead
<1>1. /\ row \in Row /\ row.key \in Keys /\ row.key \in DOMAIN appCache
      /\ UNCHANGED <<appCache, cancelled>>
  BY RowWritten
<1>2. ids \in SUBSET Ids /\ listed \in BOOLEAN
  BY <1>0, <1>1, SMTT(30) DEF JobRecord, TypeInv, AppsOK
<1>3. job' = [job EXCEPT ![j] = new]
  BY DEF AppendRow, AppendedTo
<1> HIDE DEF listed, ids
<1>4. /\ new \in JobRecord /\ new.pc = "rows" /\ new.reply = Tail(R.reply)
      /\ new.query = R.query /\ new.todo = R.todo /\ new.returns = R.returns
      /\ new.result = R.result
  BY <1>0, <1>1, <1>2, AppendedTyped
<1> HIDE DEF new
<1>5. job'[j] = new
  BY <1>3 DEF TypeInv, JobsOK
<1>6. \A i \in DOMAIN new.reply : Fits(new.reply[i], Head(R.todo))
  <2>1. \A i \in DOMAIN R.reply : Fits(R.reply[i], Head(R.todo))
    BY <1>0 DEF JobOK, AtRead
  <2>2. ASSUME NEW i \in DOMAIN new.reply PROVE Fits(new.reply[i], Head(R.todo))
    <3>1. i + 1 \in DOMAIN R.reply /\ new.reply[i] = R.reply[i + 1]
      BY <1>0, <1>4, AtWork
    <3> QED
      BY <2>1, <3>1
  <2> QED
    BY <2>2
<1>7. AtRead(j)' /\ PlanKept(j)'
  BY <1>0, <1>4, <1>5, <1>6 DEF JobOK, AtRead, PlanKept, Alternates
<1>8. Answering(j)'
  BY <1>0, <1>1, <1>4, <1>5 DEF JobOK, Answering
<1> QED
  BY <1>1, <1>3, <1>4, <1>7, <1>8, OneJobSteps DEF JobOK

LEMMA EndReadTyped ==
  ASSUME TypeInv, NEW j \in Jobs, EndRead(j)
  PROVE  JobsOK'
<1> DEFINE R == job[j]
           a == [R EXCEPT !.todo = Tail(@)]
<1>0. /\ R \in JobRecord /\ JobOK(j) /\ UNCHANGED <<appCache, cancelled>> /\ R.pc = "rows"
      /\ R.todo # <<>> /\ R.returns = 0
  BY AtWork DEF EndRead, JobOK, AtRead, Answering
<1>1. /\ Tail(R.todo) \in Seq(Read) /\ Len(Tail(R.todo)) = Len(R.todo) - 1
      /\ \A i \in DOMAIN Tail(R.todo) :
           i + 1 \in DOMAIN R.todo /\ Tail(R.todo)[i] = R.todo[i + 1]
  BY <1>0, AtWork
<1>2. /\ a \in JobRecord /\ a.todo = Tail(R.todo) /\ a.pc = R.pc /\ a.returns = R.returns
      /\ a.result = R.result /\ a.query = R.query
  BY <1>0, <1>1 DEF JobRecord
<1>3. /\ \A i \in DOMAIN a.todo : a.todo[i] \in ReadsOf(R.query) /\ (a.todo[i] \in ModuleRead => i = 1)
      /\ R.query = {"alternate"} => a.todo = <<>>
  <2>1. /\ \A i \in DOMAIN R.todo : R.todo[i] \in ReadsOf(R.query) /\ (R.todo[i] \in ModuleRead => i = 1)
        /\ R.query = {"alternate"} => Len(R.todo) <= 1
    BY <1>0 DEF JobOK, PlanKept, Alternates
  <2>2. ASSUME NEW i \in DOMAIN Tail(R.todo)
        PROVE  Tail(R.todo)[i] \in ReadsOf(R.query) /\ Tail(R.todo)[i] \notin ModuleRead
    <3>1. i \in Nat \ {0} /\ i + 1 \in DOMAIN R.todo /\ Tail(R.todo)[i] = R.todo[i + 1]
      BY <1>1
    <3>2. i + 1 # 1
      BY <3>1
    <3> QED
      BY <2>1, <3>1, <3>2
  <2>3. ASSUME R.query = {"alternate"} PROVE Tail(R.todo) = <<>>
    <3>1. Len(Tail(R.todo)) <= 0 /\ Len(Tail(R.todo)) \in Nat
      <4>1. Len(R.todo) \in Nat /\ Len(Tail(R.todo)) \in Nat
        BY <1>0, <1>1 DEF JobRecord
      <4> QED
        BY <1>1, <2>1, <2>3, <4>1
    <3> QED
      BY <1>1, <3>1
  <2> QED
    BY <1>2, <2>2, <2>3
<1> HIDE DEF a
<1>4. CASE Alternates(j)
  <2> DEFINE new == Returned(a, "apps")
  <2>1. job' = [job EXCEPT ![j] = new]
    BY <1>4 DEF EndRead, a
  <2>2. /\ new \in JobRecord /\ new.pc = "returned" /\ new.returns = a.returns + 1
        /\ new.result = "apps" /\ new.query = a.query /\ new.todo = a.todo
    BY <1>2, ReturnedTyped DEF Result
  <2> HIDE DEF new
  <2>3. job'[j] = new
    BY <2>1 DEF TypeInv, JobsOK
  <2>4. AtRead(j)' /\ PlanKept(j)'
    <3>1. job'[j].todo = a.todo /\ job'[j].query = R.query /\ job'[j].pc = "returned"
      BY <1>2, <2>2, <2>3
    <3>2. R.query = {"alternate"} => Len(a.todo) <= 1
      BY <1>3
    <3> QED
      BY <1>3, <3>1, <3>2 DEF AtRead, PlanKept, Alternates
  <2>5. Answering(j)'
    <3>1. Supported(R.query)
      BY <1>0 DEF JobOK, Answering
    <3>2. a.todo = <<>>
      BY <1>3, <1>4 DEF Alternates
    <3>3. new.returns = 1
      BY <1>0, <1>2, <2>2
    <3> QED
      BY <1>2, <2>2, <2>3, <3>1, <3>2, <3>3 DEF Answering
  <2> QED
    BY <1>0, <2>1, <2>2, <2>4, <2>5, OneJobSteps DEF JobOK
<1>5. CASE ~Alternates(j)
  <2> DEFINE new == [a EXCEPT !.pc = "checking"]
  <2>1. job' = [job EXCEPT ![j] = new]
    BY <1>5 DEF EndRead, a
  <2>2. /\ new \in JobRecord /\ new.pc = "checking" /\ new.returns = R.returns
        /\ new.result = R.result /\ new.query = R.query /\ new.todo = a.todo
    BY <1>2 DEF JobRecord, JobPC
  <2> HIDE DEF new
  <2>3. job'[j] = new
    BY <2>1 DEF TypeInv, JobsOK
  <2>4. AtRead(j)' /\ PlanKept(j)'
    BY <1>2, <1>3, <1>5, <2>2, <2>3 DEF AtRead, PlanKept, Alternates
  <2>5. Answering(j)'
    BY <1>0, <2>2, <2>3 DEF JobOK, Answering
  <2> QED
    BY <1>0, <2>1, <2>2, <2>4, <2>5, OneJobSteps DEF JobOK
<1> QED
  BY <1>4, <1>5

-------------------------------------------------------------------------------
\* The numbers a row writes, whatever the score and the variants of an app.
LEMMA MatchValueBounds ==
  ASSUME NEW score \in Nat, NEW isModule
  PROVE  /\ isModule => MatchValue(score, isModule) \in 129 .. 255
         /\ ~isModule => MatchValue(score, isModule) \in 1 .. 127
<1> DEFINE n == AtMost(score, 1700)
           v == (n * 127) \div 1700
           value == MatchValue(score, isModule)
<1>1. n \in 0 .. 1700
  BY DEF AtMost
<1> HIDE DEF n
<1>2. v \in 0 .. 127
  BY <1>1
<1>3. value = AtLeast(1, v) + (IF isModule THEN 128 ELSE 0)
  BY DEF MatchValue, MODULIX_MATCH_EXACT_SCORE, MODULIX_MATCH_SCALE_MAX,
         MODULIX_MATCH_MODULE_BONUS, n
<1> HIDE DEF v, value
<1>4. AtLeast(1, v) \in 1 .. 127
  BY <1>2 DEF AtLeast
<1>5. isModule => value \in 129 .. 255
  BY <1>3, <1>4
<1>6. ~isModule => value \in 1 .. 127
  BY <1>3, <1>4
<1> QED
  BY <1>5, <1>6 DEF value

\* The match value of an app, if a search has set it, is of its kind; its
\* SortKey is the one its kind has.
Ranked(k) ==
  matches[k] = 0 \/ (IF KindOfKey[k] = "module" THEN matches[k] \in 129 .. 255
                                                ELSE matches[k] \in 1 .. 127)

Sourced(k) ==
  IF KindOfKey[k] \in {"module", "package"}
  THEN sortKey[k] \in {Unset, SortKey(KindOfKey[k] = "module", VariantRank[k])}
  ELSE sortKey[k] = Unset

RanksOK ==
  /\ \A k \in Keys : Ranked(k) /\ Sourced(k)
  /\ \A j \in Jobs : \A n \in DOMAIN job[j].list :
       /\ job[j].list[n] \in DOMAIN appCache
       /\ job[j].query = {"keywords"} => matches[job[j].list[n]] # 0
       /\ Alternates(j) => /\ sortKey[job[j].list[n]] # Unset
                           /\ KindOfKey[job[j].list[n]] \in {"module", "package"}

\* What a row of a read writes.
LEMMA Written ==
  ASSUME TypeInv, RanksOK, NEW j \in Jobs, AppendRow(j)
  PROVE  LET key == Head(job[j].reply).key
         IN  /\ matches' \in [Keys -> Nat] /\ sortKey' \in [Keys -> Nat \cup {Unset}]
             /\ \A k \in Keys \ {key} : matches'[k] = matches[k] /\ sortKey'[k] = sortKey[k]
             /\ \A k \in Keys : Ranked(k)' /\ Sourced(k)'
             /\ matches[key] # 0 => matches'[key] # 0
             /\ sortKey[key] # Unset => sortKey'[key] # Unset
             /\ job[j].query = {"keywords"} => matches'[key] # 0
             /\ job[j].query # {"keywords"} => matches' = matches
             /\ Alternates(j) => /\ KindOfKey[key] \in {"module", "package"}
                                 /\ sortKey'[key] # Unset
<1> DEFINE row == Head(job[j].reply)
           key == row.key
           isModule == KindOfKey[key] = "module"
           value == MatchValue(row.score, isModule)
           source == SortKey(isModule, VariantRank[key])
<1>1. /\ row \in Row /\ key \in Keys /\ key # NoKey /\ Fits(row, Head(job[j].todo))
      /\ Score(row) /\ Rank(row)
  BY RowWritten, ListingAssumption, SMTT(30) DEF ListingAssumption
<1>2. job[j].todo # <<>> /\ Head(job[j].todo) \in ReadsOf(job[j].query)
  BY AtWork DEF AppendRow, JobOK, AtRead
<1>3. matches \in [Keys -> Nat] /\ sortKey \in [Keys -> Nat \cup {Unset}]
  BY DEF TypeInv, AppsOK
<1>4. matches' = [matches EXCEPT ![key] =
                    IF row.score = NoScore THEN matches[key] ELSE MatchValue(row.score, isModule)]
  BY <1>1 DEF Score
<1>5. sortKey' = [sortKey EXCEPT ![key] =
                    IF sortKey[key] # Unset \/ KindOfKey[key] \notin {"module", "package"}
                    THEN sortKey[key] ELSE SortKey(isModule, VariantRank[key])]
  BY <1>1 DEF Rank
<1>6. ASSUME row.score # NoScore
      PROVE  /\ isModule => MatchValue(row.score, isModule) \in 129 .. 255
             /\ ~isModule => MatchValue(row.score, isModule) \in 1 .. 127
  <2>1. row.score \in Nat
    BY <1>1, <1>6 DEF Row
  <2> QED
    BY <2>1, MatchValueBounds, ZenonT(90)
<1>7. SortKey(isModule, VariantRank[key]) \in Nat
  BY <1>1, ListingAssumption, SMTT(30)
     DEF ListingAssumption, SortKey, MODULIX_MODULE_SORT_KEY, MODULIX_PACKAGE_SORT_BASE
<1>8. (row.score # NoScore) <=> job[j].query = {"keywords"}
  <2>1. (row.score # NoScore) <=> IsSearch(Head(job[j].todo))
    BY <1>1 DEF Fits
  <2>2. IsSearch(Head(job[j].todo)) <=> job[j].query = {"keywords"}
    <3>1. {"alternate"} # {"keywords"} /\ {"installed"} # {"keywords"}
          /\ {"for_update"} # {"keywords"}
      <4>1. "alternate" # "keywords" /\ "installed" # "keywords" /\ "for_update" # "keywords"
        OBVIOUS
      <4> QED
        BY <4>1
    <3>2. CASE job[j].query = {"keywords"}
      <4>1. ReadsOf(job[j].query) = {"search_modules", "search_packages"}
        BY <3>1, <3>2 DEF ReadsOf
      <4> QED
        BY <1>2, <3>2, <4>1 DEF IsSearch
    <3>3. CASE job[j].query # {"keywords"}
      <4>1. ReadsOf(job[j].query) \cap {"search_modules", "search_packages"} = {}
        BY <3>3 DEF ReadsOf
      <4> QED
        BY <1>2, <3>3, <4>1 DEF IsSearch
    <3> QED
      BY <3>2, <3>3
  <2> QED
    BY <2>1, <2>2
<1>9. Alternates(j) => KindOfKey[key] \in {"module", "package"}
  <2>1. ASSUME Alternates(j) PROVE Head(job[j].todo) = "alternates"
    BY <1>2, <2>1 DEF Alternates, ReadsOf
  <2>2. KindsIn("alternates") = {"module", "package"}
    BY DEF KindsIn
  <2> QED
    BY <1>1, <2>1, <2>2 DEF Fits
<1> HIDE DEF value, source, row, isModule
<1>10. /\ matches' \in [Keys -> Nat]
       /\ \A k \in Keys \ {key} : matches'[k] = matches[k]
       /\ row.score = NoScore => matches' = matches
       /\ row.score # NoScore => matches'[key] = value
  <2>1. row.score # NoScore => value \in Nat
    BY <1>6 DEF value
  <2>2. matches' = [matches EXCEPT ![key] = IF row.score = NoScore THEN matches[key] ELSE value]
    BY <1>4 DEF value
  <2> QED
    BY <1>1, <1>3, <2>1, <2>2
<1>11. /\ sortKey' \in [Keys -> Nat \cup {Unset}]
       /\ \A k \in Keys \ {key} : sortKey'[k] = sortKey[k]
       /\ sortKey'[key] \in {sortKey[key], source}
       /\ sortKey[key] # Unset => sortKey'[key] = sortKey[key]
       /\ KindOfKey[key] \in {"module", "package"} => sortKey'[key] # Unset
       /\ KindOfKey[key] \notin {"module", "package"} => sortKey'[key] = sortKey[key]
  <2>1. source # Unset
    BY <1>7 DEF Unset, source
  <2>2. source \in Nat
    BY <1>7 DEF source
  <2>3. sortKey' = [sortKey EXCEPT ![key] =
                      IF sortKey[key] # Unset \/ KindOfKey[key] \notin {"module", "package"}
                      THEN sortKey[key] ELSE source]
    BY <1>5 DEF source
  <2> QED
    BY <1>1, <1>3, <2>1, <2>2, <2>3
<1>12. ASSUME NEW k \in Keys PROVE Ranked(k)'
  <2>0. Ranked(k)
    BY DEF RanksOK
  <2>1. CASE k # key \/ row.score = NoScore
    <3>1. matches'[k] = matches[k]
      BY <1>10, <2>1
    <3> QED
      BY <2>0, <3>1 DEF Ranked
  <2>2. CASE k = key /\ row.score # NoScore
    <3>1. matches'[k] = value
      BY <1>10, <2>2
    <3>2. IF KindOfKey[k] = "module" THEN value \in 129 .. 255 ELSE value \in 1 .. 127
      BY <1>6, <2>2 DEF isModule, value
    <3> QED
      BY <3>1, <3>2 DEF Ranked
  <2> QED
    BY <2>1, <2>2
<1>13. ASSUME NEW k \in Keys PROVE Sourced(k)'
  <2>0. Sourced(k)
    BY DEF RanksOK
  <2>1. CASE sortKey'[k] = sortKey[k]
    BY <2>0, <2>1 DEF Sourced
  <2>2. CASE sortKey'[k] # sortKey[k]
    <3>1. k = key /\ KindOfKey[k] \in {"module", "package"} /\ sortKey'[k] = source
      BY <1>11, <2>2
    <3>2. source = SortKey(KindOfKey[k] = "module", VariantRank[k])
      BY <3>1 DEF source, isModule
    <3> QED
      BY <3>1, <3>2 DEF Sourced
  <2> QED
    BY <2>1, <2>2
<1>14. /\ matches[key] # 0 => matches'[key] # 0
       /\ row.score # NoScore => matches'[key] # 0
  <2>1. row.score # NoScore => value # 0
    BY <1>6 DEF value
  <2> QED
    BY <1>10, <2>1
<1> QED
  BY <1>8, <1>9, <1>10, <1>11, <1>12, <1>13, <1>14 DEF row

-------------------------------------------------------------------------------
LEMMA Actions ==
  ASSUME NEW j \in Jobs, ListAppsAsync(j) \/ JobStep(j) \/ Cancel(j)
  PROVE  \/ ListAppsAsync(j) \/ BailIfCancelled(j) \/ NotCancelled(j)
         \/ StoreRead(j) \/ StoreReadFails(j) \/ RowToApp(j)
         \/ AppendRow(j) \/ EndRead(j) \/ Finish(j) \/ Cancel(j)
BY DEF JobStep, LookUpOrMake, LookUpOrMakePlugin

LEMMA CancelTyped ==
  ASSUME TypeInv, NEW j \in Jobs, Cancel(j)
  PROVE  TypeInv'
<1>1. /\ j \in Cancellable /\ cancelled' = cancelled \cup {j}
      /\ UNCHANGED <<appCache, matches, sortKey, job>>
  BY DEF Cancel
<1>2. JobsOK'
  BY <1>1 DEF TypeInv, JobsOK, AtRead, PlanKept, Answering, Alternates
<1>3. AppsOK'
  BY <1>1 DEF TypeInv, AppsOK
<1> QED
  BY <1>2, <1>3 DEF TypeInv

LEMMA TypedMatches ==
  ASSUME TypeInv, NEW j \in Jobs, AppendRow(j)
  PROVE  AppsOK'
<1> DEFINE row == Head(job[j].reply)
           value == MatchValue(row.score, KindOfKey[row.key] = "module")
           source == SortKey(KindOfKey[row.key] = "module", VariantRank[row.key])
<1>1. /\ row \in Row /\ row.key \in Keys /\ Score(row) /\ Rank(row)
      /\ UNCHANGED <<appCache, cancelled>>
  BY RowWritten
<1>2. row.score = NoScore \/ value \in Nat
  <2>1. CASE row.score # NoScore
    <3>1. row.score \in Nat
      BY <1>1, <2>1 DEF Row
    <3>2. /\ (KindOfKey[row.key] = "module") => value \in 129 .. 255
          /\ ~(KindOfKey[row.key] = "module") => value \in 1 .. 127
      BY <3>1, MatchValueBounds, ZenonT(90)
    <3> HIDE DEF value
    <3> QED
      BY <3>2
  <2> QED
    BY <2>1
<1>3. source \in Nat
  BY <1>1, ListingAssumption
     DEF ListingAssumption, SortKey, MODULIX_MODULE_SORT_KEY, MODULIX_PACKAGE_SORT_BASE
<1>4. matches' = [matches EXCEPT ![row.key] = IF row.score = NoScore THEN @ ELSE value]
  BY <1>1 DEF Score
<1>5. sortKey' = [sortKey EXCEPT ![row.key] =
                    IF @ # Unset \/ KindOfKey[row.key] \notin {"module", "package"} THEN @ ELSE source]
  BY <1>1 DEF Rank
<1> HIDE DEF row, value, source
<1>6. matches' \in [Keys -> Nat]
  BY <1>1, <1>2, <1>4 DEF TypeInv, AppsOK
<1>7. sortKey' \in [Keys -> Nat \cup {Unset}]
  BY <1>1, <1>3, <1>5 DEF TypeInv, AppsOK
<1> QED
  BY <1>1, <1>6, <1>7 DEF TypeInv, AppsOK

LEMMA StepTyped ==
  ASSUME TypeInv, [Next]_vars
  PROVE  TypeInv'
<1>1. CASE UNCHANGED vars
  BY <1>1 DEF vars, TypeInv, JobsOK, AppsOK, AtRead, PlanKept, Answering, Alternates
<1>2. ASSUME NEW j \in Jobs, ListAppsAsync(j) \/ JobStep(j) \/ Cancel(j) PROVE TypeInv'
  <2>1. CASE ListAppsAsync(j)
    BY <2>1, ListAppsAsyncTyped DEF ListAppsAsync, TypeInv, AppsOK
  <2>2. CASE BailIfCancelled(j)
    BY <2>2, BailTyped DEF BailIfCancelled, TypeInv, AppsOK
  <2>3. CASE NotCancelled(j)
    BY <2>3, NotCancelledTyped DEF NotCancelled, TypeInv, AppsOK
  <2>4. CASE StoreRead(j) \/ StoreReadFails(j)
    BY <2>4, ReadTyped DEF StoreRead, StoreReadFails, TypeInv, AppsOK
  <2>5. CASE RowToApp(j)
    BY <2>5, RowTyped DEF TypeInv
  <2>6. CASE AppendRow(j)
    BY <2>6, AppendRowTyped, TypedMatches DEF TypeInv
  <2>7. CASE EndRead(j)
    BY <2>7, EndReadTyped DEF EndRead, TypeInv, AppsOK
  <2>8. CASE Finish(j)
    BY <2>8, FinishTyped DEF Finish, TypeInv, AppsOK
  <2>9. CASE Cancel(j)
    BY <2>9, CancelTyped
  <2> QED
    BY <1>2, <2>1, <2>2, <2>3, <2>4, <2>5, <2>6, <2>7, <2>8, <2>9, Actions
<1> QED
  BY <1>1, <1>2 DEF Next

\* Every variable keeps its type, and a job what its place in the worker
\* promises: the read it is in, the app of its row, the reads that are left.
THEOREM ListingTypeCorrect == Spec => []ListingTypeOK
<1>1. TypeInv => ListingTypeOK
  BY DEF TypeInv, JobsOK, AppsOK, ListingTypeOK
<1> QED
  BY <1>1, InitTyped, StepTyped, PTL DEF Spec

\* However its reads end and whenever it is cancelled, a list_apps job is
\* returned once, and only with the answer its query and its cancellable
\* allow (bail_if_cancelled()'s "callers must return immediately").
THEOREM AnswersAreOnce == Spec => []AnsweredOnce
<1>1. TypeInv => AnsweredOnce
  BY DEF TypeInv, JobsOK, Answering, AnsweredOnce
<1> QED
  BY <1>1, InitTyped, StepTyped, PTL DEF Spec

-------------------------------------------------------------------------------
\* What a step that appends nothing does to a list: it begins or drops it, or
\* goes on to the next read.
Steady(i) ==
  \/ job'[i].list = <<>> /\ job'[i].got = <<>> /\ job'[i].seen = {}
  \/ /\ job'[i].query = job[i].query /\ job'[i].got = job[i].got /\ job'[i].seen = job[i].seen
     /\ \/ job'[i].list = <<>> /\ job'[i].result = "cancelled"
        \/ /\ job'[i].list = job[i].list
           /\ job[i].result = "cancelled" => job'[i].result = "cancelled"
     /\ job'[i].todo \in {job[i].todo, Tail(job[i].todo)}

LEMMA SteadyButAppending ==
  ASSUME TypeInv, NEW j \in Jobs, ListAppsAsync(j) \/ JobStep(j) \/ Cancel(j), ~AppendRow(j)
  PROVE  /\ \A i \in Jobs : Steady(i)
         /\ UNCHANGED <<matches, sortKey>>
         /\ DOMAIN appCache \subseteq DOMAIN appCache'
         /\ \A k \in DOMAIN appCache : appCache'[k] = appCache[k]
<1> DEFINE R == job[j]
<1>1. R \in JobRecord /\ job \in [Jobs -> JobRecord]
  BY DEF TypeInv, JobsOK
<1>2. ASSUME NEW new, job' = [job EXCEPT ![j] = new],
             \/ new.list = <<>> /\ new.got = <<>> /\ new.seen = {}
             \/ /\ new.query = R.query /\ new.got = R.got /\ new.seen = R.seen
                /\ \/ new.list = <<>> /\ new.result = "cancelled"
                   \/ /\ new.list = R.list
                      /\ R.result = "cancelled" => new.result = "cancelled"
                /\ new.todo \in {R.todo, Tail(R.todo)}
      PROVE  \A i \in Jobs : Steady(i)
  <2>1. job'[j] = new /\ \A i \in Jobs : i # j => job'[i] = job[i]
    BY <1>1, <1>2
  <2> QED
    BY <1>2, <2>1 DEF Steady
<1>3. CASE ListAppsAsync(j)
  <2>1. PICK q \in Queries :
          job' = [job EXCEPT ![j] = IF Supported(q) THEN Accepted(q) ELSE Refused(q)]
    BY <1>3 DEF ListAppsAsync, Accepted, Refused
  <2>2. q \in SUBSET Property
    BY ListingAssumption DEF ListingAssumption
  <2>3. \A i \in Jobs : Steady(i)
    BY <1>2, <2>1, <2>2, StartedTyped
  <2> QED
    BY <1>3, <2>3 DEF ListAppsAsync
<1>4. CASE BailIfCancelled(j)
  <2> DEFINE a == Returned(R, "cancelled")
             new == [a EXCEPT !.list = <<>>]
  <2>1. job' = [job EXCEPT ![j] = new]
    BY <1>4 DEF BailIfCancelled
  <2>2. a \in JobRecord /\ a.query = R.query /\ a.todo = R.todo /\ a.got = R.got /\ a.seen = R.seen
        /\ a.result = "cancelled"
    BY <1>1, ReturnedTyped DEF Result
  <2> HIDE DEF a
  <2>3. /\ new.query = R.query /\ new.todo = R.todo /\ new.got = R.got /\ new.seen = R.seen
        /\ new.list = <<>> /\ new.result = "cancelled"
    BY <2>2 DEF JobRecord
  <2> HIDE DEF new
  <2> QED
    BY <1>2, <1>4, <2>1, <2>3 DEF BailIfCancelled
<1>5. CASE NotCancelled(j)
  <2>1. CASE R.todo = <<>>
    <3> DEFINE new == Returned(R, "apps")
    <3>1. job' = [job EXCEPT ![j] = new]
      BY <1>5, <2>1 DEF NotCancelled
    <3>2. /\ new.query = R.query /\ new.todo = R.todo /\ new.got = R.got /\ new.seen = R.seen
          /\ new.list = R.list
      BY <1>1, ReturnedTyped DEF Result
    <3>3. R.result # "cancelled"
      BY <1>5, AtWork DEF NotCancelled, JobOK, Answering
    <3> HIDE DEF new
    <3> QED
      BY <1>2, <1>5, <3>1, <3>2, <3>3 DEF NotCancelled
  <2>2. CASE R.todo # <<>>
    <3> DEFINE new == [R EXCEPT !.pc = "reading"]
    <3>1. job' = [job EXCEPT ![j] = new]
      BY <1>5, <2>2 DEF NotCancelled
    <3>2. /\ new.query = R.query /\ new.todo = R.todo /\ new.got = R.got /\ new.seen = R.seen
          /\ new.list = R.list /\ new.result = R.result
      BY <1>1 DEF JobRecord
    <3> HIDE DEF new
    <3> QED
      BY <1>2, <1>5, <3>1, <3>2 DEF NotCancelled
  <2> QED
    BY <2>1, <2>2
<1>6. CASE StoreRead(j) \/ StoreReadFails(j)
  <2>1. PICK rows : job' = [job EXCEPT ![j] = [R EXCEPT !.pc = "rows", !.reply = rows]]
    BY <1>6 DEF StoreRead, StoreReadFails
  <2> DEFINE new == [R EXCEPT !.pc = "rows", !.reply = rows]
  <2>2. /\ new.query = R.query /\ new.todo = R.todo /\ new.got = R.got /\ new.seen = R.seen
        /\ new.list = R.list /\ new.result = R.result
    BY <1>1 DEF JobRecord
  <2> HIDE DEF new
  <2>3. job' = [job EXCEPT ![j] = new]
    BY <2>1 DEF new
  <2> QED
    BY <1>2, <1>6, <2>2, <2>3 DEF StoreRead, StoreReadFails
<1>7. CASE RowToApp(j)
  <2> DEFINE row == Head(R.reply)
  <2>0. row \in Row /\ UNCHANGED <<matches, sortKey>>
    BY <1>7, AtWork DEF RowToApp
  <2>1. CASE row.key = NoKey
    <3> DEFINE new == [R EXCEPT !.reply = Tail(@)]
    <3>1. job' = [job EXCEPT ![j] = new] /\ UNCHANGED appCache
      BY <1>7, <2>1 DEF RowToApp
    <3>2. /\ new.query = R.query /\ new.todo = R.todo /\ new.got = R.got /\ new.seen = R.seen
          /\ new.list = R.list /\ new.result = R.result
      BY <1>1 DEF JobRecord
    <3> HIDE DEF new
    <3> QED
      BY <1>2, <2>0, <3>1, <3>2
  <2>2. CASE row.key # NoKey
    <3> DEFINE new == [R EXCEPT !.pc = "appending"]
    <3>1. job' = [job EXCEPT ![j] = new] /\ MakeApp(row)
      BY <1>7, <2>2 DEF RowToApp
    <3>2. /\ new.query = R.query /\ new.todo = R.todo /\ new.got = R.got /\ new.seen = R.seen
          /\ new.list = R.list /\ new.result = R.result
      BY <1>1 DEF JobRecord
    <3>3. /\ DOMAIN appCache \subseteq DOMAIN appCache'
          /\ \A k \in DOMAIN appCache : appCache'[k] = appCache[k]
      BY <2>0, <2>2, <3>1, AppsOnlyAdded
    <3> HIDE DEF new
    <3> QED
      BY <1>2, <2>0, <3>1, <3>2, <3>3
  <2> QED
    BY <2>1, <2>2
<1>8. CASE EndRead(j)
  <2> DEFINE a == [R EXCEPT !.todo = Tail(@)]
  <2>0. a \in JobRecord /\ a.query = R.query /\ a.todo = Tail(R.todo) /\ a.got = R.got
        /\ a.seen = R.seen /\ a.list = R.list
    <3>1. R.todo # <<>>
      BY <1>8, AtWork DEF EndRead, JobOK, AtRead
    <3>2. Tail(R.todo) \in Seq(Read)
      BY <3>1, AtWork
    <3> QED
      BY <1>1, <3>2 DEF JobRecord
  <2> HIDE DEF a
  <2>1. PICK new : /\ new \in {Returned(a, "apps"), [a EXCEPT !.pc = "checking"]}
                   /\ job' = [job EXCEPT ![j] = new]
    BY <1>8 DEF EndRead, a
  <2>2. /\ new.query = R.query /\ new.todo = Tail(R.todo) /\ new.got = R.got
        /\ new.seen = R.seen /\ new.list = R.list
    <3>1. CASE new = Returned(a, "apps")
      BY <2>0, <3>1, ReturnedTyped DEF Result
    <3>2. CASE new = [a EXCEPT !.pc = "checking"]
      BY <2>0, <3>2 DEF JobRecord
    <3> QED
      BY <2>1, <3>1, <3>2
  <2>3. R.result # "cancelled"
    BY <1>8, AtWork DEF EndRead, JobOK, Answering
  <2> QED
    BY <1>2, <1>8, <2>1, <2>2, <2>3 DEF EndRead
<1>9. CASE Finish(j)
  <2>1. PICK result \in {"cancelled", R.result} :
          job' = [job EXCEPT ![j] = [R EXCEPT !.pc = "done", !.result = result]]
    BY <1>9 DEF Finish
  <2> DEFINE new == [R EXCEPT !.pc = "done", !.result = result]
  <2>2. /\ new.query = R.query /\ new.todo = R.todo /\ new.got = R.got /\ new.seen = R.seen
        /\ new.list = R.list /\ new.result = result
    BY <1>1 DEF JobRecord
  <2> HIDE DEF new
  <2>3. job' = [job EXCEPT ![j] = new]
    BY <2>1 DEF new
  <2> QED
    BY <1>2, <1>9, <2>2, <2>3 DEF Finish
<1>10. CASE Cancel(j)
  BY <1>10 DEF Cancel, Steady
<1> QED
  BY <1>3, <1>4, <1>5, <1>6, <1>7, <1>8, <1>9, <1>10, Actions

\* What a step that appends does to it.
LEMMA Appended ==
  ASSUME TypeInv, NEW j \in Jobs, AppendRow(j)
  PROVE  LET row == Head(job[j].reply)
             id == appCache[row.key]
             dup == Deduped(j) /\ id \in job[j].seen
         IN  /\ job'[j].query = job[j].query /\ job'[j].todo = job[j].todo
             /\ job'[j].got = Append(job[j].got, row.key)
             /\ job'[j].list = (IF dup THEN job[j].list ELSE Append(job[j].list, row.key))
             /\ job'[j].seen = (IF Deduped(j) THEN job[j].seen \cup {id} ELSE job[j].seen)
             /\ \A i \in Jobs : i # j => job'[i] = job[i]
             /\ UNCHANGED appCache
<1> DEFINE R == job[j]
           row == Head(R.reply)
           id == appCache[row.key]
           dup == Deduped(j) /\ id \in R.seen
           ids == IF Deduped(j) THEN R.seen \cup {id} ELSE R.seen
           listed == IF dup THEN FALSE ELSE TRUE
           new == AppendedTo(R, row, listed, ids)
<1>0. R \in JobRecord /\ R.reply # <<>>
  BY AtWork DEF AppendRow, JobOK, AtRead
<1>1. /\ row \in Row /\ row.key \in Keys /\ row.key \in DOMAIN appCache
      /\ UNCHANGED <<appCache, cancelled>>
  BY RowWritten
<1>2. ids \in SUBSET Ids /\ listed \in BOOLEAN
  BY <1>0, <1>1 DEF JobRecord, TypeInv, AppsOK
<1>3. job' = [job EXCEPT ![j] = new]
  BY DEF AppendRow, AppendedTo
<1>4. listed <=> ~dup
  OBVIOUS
<1> HIDE DEF listed, ids
<1>5. /\ new.query = R.query /\ new.todo = R.todo /\ new.got = Append(R.got, row.key)
      /\ new.list = (IF listed THEN Append(R.list, row.key) ELSE R.list) /\ new.seen = ids
  BY <1>0, <1>1, <1>2, AppendedTyped
<1> HIDE DEF new
<1>6. job'[j] = new /\ \A i \in Jobs : i # j => job'[i] = job[i]
  BY <1>3 DEF TypeInv, JobsOK
<1>7. new.list = (IF dup THEN R.list ELSE Append(R.list, row.key))
  BY <1>4, <1>5
<1> QED
  BY <1>1, <1>5, <1>6, <1>7, SMTT(30) DEF ids

-------------------------------------------------------------------------------
\* The row of a step that appends is in the list after it, or was not added.
LEMMA ListAfter ==
  ASSUME NEW s \in Seq(Keys), NEW k \in Keys
  PROVE  \A n \in DOMAIN Append(s, k) :
           \/ n \in DOMAIN s /\ Append(s, k)[n] = s[n]
           \/ Append(s, k)[n] = k
OBVIOUS

LEMMA StepRanked ==
  ASSUME TypeInv, RanksOK, [Next]_vars
  PROVE  RanksOK'
<1>1. CASE UNCHANGED vars
  BY <1>1 DEF vars, RanksOK, Ranked, Sourced, Alternates
<1>2. ASSUME NEW j \in Jobs, ListAppsAsync(j) \/ JobStep(j) \/ Cancel(j), ~AppendRow(j)
      PROVE  RanksOK'
  <2>1. /\ \A i \in Jobs : Steady(i)
        /\ UNCHANGED <<matches, sortKey>>
        /\ DOMAIN appCache \subseteq DOMAIN appCache'
    BY <1>2, SteadyButAppending
  <2>2. ASSUME NEW i \in Jobs, job'[i].list # <<>>
        PROVE  job'[i].list = job[i].list /\ job'[i].query = job[i].query
    <3>1. Steady(i)
      BY <2>1
    <3> QED
      BY <2>2, <3>1 DEF Steady
  <2>3. \A k \in Keys : Ranked(k)' /\ Sourced(k)'
    BY <2>1 DEF RanksOK, Ranked, Sourced
  <2>4. ASSUME NEW i \in Jobs, NEW n \in DOMAIN job'[i].list
        PROVE  /\ job'[i].list[n] \in DOMAIN appCache'
               /\ job'[i].query = {"keywords"} => matches'[job'[i].list[n]] # 0
               /\ Alternates(i)' => /\ sortKey'[job'[i].list[n]] # Unset
                                    /\ KindOfKey[job'[i].list[n]] \in {"module", "package"}
    <3>1. job'[i].list = job[i].list /\ job'[i].query = job[i].query
      <4>1. job'[i].list # <<>>
        BY <2>4
      <4> QED
        BY <2>2, <4>1
    <3> QED
      BY <2>1, <2>4, <3>1 DEF RanksOK, Alternates
  <2> QED
    BY <2>3, <2>4 DEF RanksOK
<1>3. ASSUME NEW j \in Jobs, AppendRow(j)
      PROVE  RanksOK'
  <2> DEFINE key == Head(job[j].reply).key
  <2>1. /\ key \in Keys /\ key \in DOMAIN appCache /\ UNCHANGED appCache
    BY <1>3, RowWritten
  <2>2. /\ \A k \in Keys \ {key} : matches'[k] = matches[k] /\ sortKey'[k] = sortKey[k]
        /\ \A k \in Keys : Ranked(k)' /\ Sourced(k)'
        /\ matches[key] # 0 => matches'[key] # 0
        /\ sortKey[key] # Unset => sortKey'[key] # Unset
        /\ job[j].query = {"keywords"} => matches'[key] # 0
        /\ Alternates(j) => /\ KindOfKey[key] \in {"module", "package"}
                            /\ sortKey'[key] # Unset
    BY <1>3, Written
  <2>3. /\ job'[j].query = job[j].query
        /\ job'[j].list \in {job[j].list, Append(job[j].list, key)}
        /\ \A i \in Jobs : i # j => job'[i] = job[i]
    BY <1>3, Appended
  <2>4. \A i \in Jobs : job[i].list \in Seq(Keys)
    BY DEF TypeInv, JobsOK, JobRecord
  <2> HIDE DEF key
  <2>5. ASSUME NEW i \in Jobs, NEW n \in DOMAIN job'[i].list
        PROVE  /\ job'[i].list[n] \in DOMAIN appCache'
               /\ job'[i].query = {"keywords"} => matches'[job'[i].list[n]] # 0
               /\ Alternates(i)' => /\ sortKey'[job'[i].list[n]] # Unset
                                    /\ KindOfKey[job'[i].list[n]] \in {"module", "package"}
    <3>1. \/ n \in DOMAIN job[i].list /\ job'[i].list[n] = job[i].list[n]
          \/ i = j /\ job'[i].list[n] = key
      <4>1. CASE i # j
        <5>1. job'[i] = job[i]
          BY <2>3, <4>1
        <5> QED
          BY <2>5, <5>1
      <4>2. CASE i = j
        <5>1. CASE job'[j].list = job[j].list
          BY <2>5, <4>2, <5>1
        <5>2. CASE job'[j].list = Append(job[j].list, key)
          <6>1. job[j].list \in Seq(Keys)
            BY <2>4
          <6>2. n \in DOMAIN Append(job[j].list, key)
            BY <2>5, <4>2, <5>2
          <6> QED
            BY <2>1, <4>2, <5>2, <6>1, <6>2, ListAfter
        <5> QED
          BY <2>3, <5>1, <5>2
      <4> QED
        BY <4>1, <4>2
    <3>2. CASE n \in DOMAIN job[i].list /\ job'[i].list[n] = job[i].list[n]
      <4> DEFINE k == job[i].list[n]
      <4>1. /\ k \in Keys /\ k \in DOMAIN appCache
            /\ job[i].query = {"keywords"} => matches[k] # 0
            /\ Alternates(i) => sortKey[k] # Unset /\ KindOfKey[k] \in {"module", "package"}
        BY <2>4, <3>2 DEF RanksOK
      <4>2. /\ matches[k] # 0 => matches'[k] # 0
            /\ sortKey[k] # Unset => sortKey'[k] # Unset
        BY <2>2, <4>1
      <4>3. job'[i].query = job[i].query
        BY <2>3
      <4> HIDE DEF k
      <4>4. job'[i].list[n] = k
        BY <3>2 DEF k
      <4> QED
        BY <2>1, <4>1, <4>2, <4>3, <4>4 DEF Alternates
    <3>3. CASE i = j /\ job'[i].list[n] = key
      <4>1. job'[i].query = job[j].query
        BY <2>3, <3>3
      <4> QED
        BY <2>1, <2>2, <3>3, <4>1 DEF Alternates
    <3> QED
      BY <3>1, <3>2, <3>3
  <2> QED
    BY <2>2, <2>5 DEF RanksOK
<1> QED
  BY <1>1, <1>2, <1>3 DEF Next

LEMMA InitRanked == Init => RanksOK
BY DEF Init, RanksOK, Ranked, Sourced, NoJob, Alternates, Unset

LEMMA TypedAndRanked == Spec => [](TypeInv /\ RanksOK)
BY InitTyped, StepTyped, InitRanked, StepRanked, PTL DEF Spec

\* In the results of a search, whatever other jobs have written to the apps it
\* shares with them, every module ranks above every package and nothing has
\* rank 0 (modulix_match_value()).
THEOREM RanksOfASearch == Spec => []SearchRanks
<1>1. ASSUME TypeInv, RanksOK PROVE SearchRanks
  <2> SUFFICES ASSUME NEW j \in Jobs, job[j].query = {"keywords"},
                      NEW m \in DOMAIN job[j].list, NEW p \in DOMAIN job[j].list
               PROVE  LET M == job[j].list[m]
                          P == job[j].list[p]
                      IN  /\ matches[P] > 0
                          /\ KindOfKey[M] = "module" /\ KindOfKey[P] = "package"
                               => matches[M] > matches[P]
    BY DEF SearchRanks
  <2> DEFINE M == job[j].list[m]
             P == job[j].list[p]
  <2>1. M \in Keys /\ P \in Keys /\ matches[M] # 0 /\ matches[P] # 0
    BY <1>1 DEF TypeInv, JobsOK, JobRecord, RanksOK
  <2>2. Ranked(M) /\ Ranked(P)
    BY <1>1, <2>1 DEF RanksOK
  <2> HIDE DEF M, P
  <2>3. /\ matches[P] > 0
        /\ KindOfKey[M] = "module" /\ KindOfKey[P] = "package" => matches[M] > matches[P]
    <3>1. matches[P] \in 1 .. 127 \/ matches[P] \in 129 .. 255
      BY <2>1, <2>2 DEF Ranked
    <3>2. KindOfKey[P] = "package" => matches[P] \in 1 .. 127
      <4>1. "package" # "module"
        OBVIOUS
      <4> QED
        BY <2>1, <2>2, <4>1 DEF Ranked
    <3>3. KindOfKey[M] = "module" => matches[M] \in 129 .. 255
      BY <2>1, <2>2 DEF Ranked
    <3>4. matches[P] > 0
      BY <3>1
    <3>5. ASSUME KindOfKey[M] = "module", KindOfKey[P] = "package"
          PROVE  matches[M] > matches[P]
      <4>1. matches[M] \in 129 .. 255
        BY <3>3, <3>5
      <4>2. matches[P] \in 1 .. 127
        BY <3>2, <3>5
      <4>3. \A a \in 129 .. 255 : \A b \in 1 .. 127 : a > b
        OBVIOUS
      <4> QED
        BY <4>1, <4>2, <4>3
    <3> QED
      BY <3>4, <3>5
  <2> QED
    BY <2>3 DEF M, P
<1> QED
  BY <1>1, TypedAndRanked, PTL

\* In the "Sources" popover, whichever listing made the apps first, the module
\* of an application comes before its Flatpak, and its packages after the
\* Flatpak and after a source without a SortKey (MODULIX_MODULE_SORT_KEY).
THEOREM SourcesInOrder == Spec => []SourcesOrder
<1>1. ASSUME TypeInv, RanksOK PROVE SourcesOrder
  <2> SUFFICES ASSUME NEW j \in Jobs, Alternates(j), NEW n \in DOMAIN job[j].list
               PROVE  LET k == job[j].list[n]
                      IN  IF KindOfKey[k] = "module"
                          THEN sortKey[k] \in 0 .. FLATPAK_SORT_KEY - 1
                          ELSE sortKey[k] > DEFAULT_SORT_KEY
    BY DEF SourcesOrder
  <2> DEFINE k == job[j].list[n]
  <2>1. k \in Keys /\ sortKey[k] # Unset /\ KindOfKey[k] \in {"module", "package"}
    BY <1>1 DEF TypeInv, JobsOK, JobRecord, RanksOK
  <2>2. Sourced(k) /\ VariantRank[k] \in Nat
    BY <1>1, <2>1, ListingAssumption DEF RanksOK, ListingAssumption
  <2> HIDE DEF k
  <2>3. sortKey[k] = SortKey(KindOfKey[k] = "module", VariantRank[k])
    BY <2>1, <2>2 DEF Sourced
  <2>4. CASE KindOfKey[k] = "module"
    <3>1. sortKey[k] = 50
      BY <2>3, <2>4 DEF SortKey, MODULIX_MODULE_SORT_KEY
    <3> QED
      BY <2>4, <3>1 DEF FLATPAK_SORT_KEY, k
  <2>5. CASE KindOfKey[k] # "module"
    <3>1. sortKey[k] = 2000 + VariantRank[k]
      BY <2>3, <2>5 DEF SortKey, MODULIX_PACKAGE_SORT_BASE
    <3>2. sortKey[k] > 1000
      BY <2>2, <3>1
    <3> QED
      BY <2>5, <3>2 DEF DEFAULT_SORT_KEY, k
  <2> QED
    BY <2>4, <2>5
<1> QED
  BY <1>1, TypedAndRanked, PTL

\* A listing that is no search leaves the rank of a search alone: while only
\* one job searches, each row it lists keeps the rank its score gave it.
THEOREM RanksLeftAlone == Spec => RankIsOfTheSearch
<1> DEFINE Kept == \A j \in Jobs : job[j].query = {"keywords"} /\ OnlyJobToRank(j) =>
                     \A n \in DOMAIN job[j].list :
                       \/ matches'[job[j].list[n]] = matches[job[j].list[n]]
                       \/ AppendRow(j)
<1>1. ASSUME TypeInv, RanksOK, [Next]_vars PROVE Kept
  <2> SUFFICES ASSUME NEW j \in Jobs, OnlyJobToRank(j), ~AppendRow(j)
               PROVE  matches' = matches
    OBVIOUS
  <2>1. CASE UNCHANGED vars
    BY <2>1 DEF vars
  <2>2. ASSUME NEW i \in Jobs, ListAppsAsync(i) \/ JobStep(i) \/ Cancel(i), ~AppendRow(i)
        PROVE  matches' = matches
    BY <1>1, <2>2, SteadyButAppending
  <2>3. ASSUME NEW i \in Jobs, AppendRow(i) PROVE matches' = matches
    <3>1. job[i].query # {"keywords"}
      BY <2>3 DEF OnlyJobToRank
    <3> QED
      BY <1>1, <2>3, <3>1, Written
  <2> QED
    BY <1>1, <2>1, <2>2, <2>3 DEF Next
<1>2. TypeInv /\ RanksOK /\ [Next]_vars => [Kept]_vars
  BY <1>1
<1>3. Spec => [][Kept]_vars
  BY <1>2, TypedAndRanked, PTL DEF Spec
<1> QED
  BY <1>3 DEF RankIsOfTheSearch

-------------------------------------------------------------------------------
\* The reads of a pair: those of plugins have no rows a module could displace.
Pair(j) == job[j].query \in {{"installed"}, {"keywords"}}

\* No package is listed while modules are still read, a pair remembers the id
\* of each module it was given, and lists no package of such an id.
PairOK(j) ==
  /\ \A n \in DOMAIN job[j].list : job[j].list[n] \in DOMAIN appCache
  /\ \A g \in DOMAIN job[j].got : KindOfKey[job[j].got[g]] = "module" =>
       /\ job[j].got[g] \in DOMAIN appCache
       /\ appCache[job[j].got[g]] \in job[j].seen
  /\ job[j].todo # <<>> /\ Head(job[j].todo) \in ModuleRead =>
       \A n \in DOMAIN job[j].list : KindOfKey[job[j].list[n]] # "package"
  /\ \A g \in DOMAIN job[j].got : \A n \in DOMAIN job[j].list :
       KindOfKey[job[j].got[g]] = "module" /\ KindOfKey[job[j].list[n]] = "package"
         => appCache[job[j].got[g]] # appCache[job[j].list[n]]

PairsOK == \A j \in Jobs : Pair(j) => PairOK(j)

\* What a read of a pair may be answered with.
LEMMA RowsOfAPair ==
  ASSUME NEW query \in {{"installed"}, {"keywords"}}, NEW read \in ReadsOf(query), NEW row \in Row,
         row.key # NoKey, Fits(row, read)
  PROVE  \/ read \in ModuleRead /\ KindOfKey[row.key] = "module"
         \/ read \in {"installed_packages", "search_packages"} /\ KindOfKey[row.key] = "package"
         \/ read = "installed_plugins" /\ KindOfKey[row.key] = "plugin"
<1>1. {"alternate"} # {"installed"} /\ {"alternate"} # {"keywords"} /\ {"installed"} # {"keywords"}
  <2>1. "alternate" # "installed" /\ "alternate" # "keywords" /\ "installed" # "keywords"
    OBVIOUS
  <2> QED
    BY <2>1
<1>2. read \in {"installed_modules", "search_modules", "installed_packages", "search_packages",
                "installed_plugins"}
  <2>1. CASE query = {"installed"}
    BY <1>1, <2>1 DEF ReadsOf
  <2>2. CASE query = {"keywords"}
    BY <1>1, <2>2 DEF ReadsOf
  <2> QED
    BY <2>1, <2>2
<1>3. KindOfKey[row.key] \in KindsIn(read)
  BY DEF Fits
<1>4. CASE read \in ModuleRead
  BY <1>3, <1>4 DEF KindsIn, ModuleRead
<1>5. CASE read \in {"installed_packages", "search_packages"}
  BY <1>3, <1>5 DEF KindsIn
<1>6. CASE read = "installed_plugins"
  BY <1>3, <1>6 DEF KindsIn
<1> QED
  BY <1>2, <1>4, <1>5, <1>6 DEF ModuleRead

\* After the first read, no other is of modules.
LEMMA NoMoreModules ==
  ASSUME TypeInv, NEW j \in Jobs, Tail(job[j].todo) # <<>>, job[j].todo # <<>>
  PROVE  Head(Tail(job[j].todo)) \notin ModuleRead
<1> DEFINE rest == Tail(job[j].todo)
<1>1. /\ rest \in Seq(Read)
      /\ \A i \in DOMAIN rest : i + 1 \in DOMAIN job[j].todo /\ rest[i] = job[j].todo[i + 1]
  BY AtWork
<1>2. \A i \in DOMAIN job[j].todo : job[j].todo[i] \in ModuleRead => i = 1
  BY AtWork DEF JobOK, PlanKept
<1> HIDE DEF rest
<1>3. rest # <<>>
  BY DEF rest
<1>4. 1 \in DOMAIN rest /\ Head(rest) = rest[1]
  BY <1>1, <1>3
<1>5. rest[1] = job[j].todo[2] /\ 2 \in DOMAIN job[j].todo
  BY <1>1, <1>4
<1> QED
  BY <1>2, <1>4, <1>5 DEF rest

LEMMA SteadyPair ==
  ASSUME TypeInv, PairsOK, NEW i \in Jobs, Steady(i), Pair(i)',
         DOMAIN appCache \subseteq DOMAIN appCache',
         \A k \in DOMAIN appCache : appCache'[k] = appCache[k]
  PROVE  PairOK(i)'
<1>1. CASE job'[i].list = <<>> /\ job'[i].got = <<>>
  BY <1>1 DEF PairOK
<1>2. CASE /\ job'[i].query = job[i].query /\ job'[i].got = job[i].got /\ job'[i].seen = job[i].seen
           /\ job'[i].list \in {<<>>, job[i].list}
           /\ job'[i].todo \in {job[i].todo, Tail(job[i].todo)}
  <2>1. PairOK(i)
    BY <1>2 DEF PairsOK, Pair
  <2>2. \A n \in DOMAIN job'[i].list : n \in DOMAIN job[i].list /\ job'[i].list[n] = job[i].list[n]
    <3>1. CASE job'[i].list = <<>>
      BY <3>1
    <3>2. CASE job'[i].list = job[i].list
      BY <3>2
    <3> QED
      BY <1>2, <3>1, <3>2
  <2>3. \A n \in DOMAIN job'[i].list : job'[i].list[n] \in DOMAIN appCache'
    BY <2>1, <2>2 DEF PairOK
  <2>4. \A g \in DOMAIN job'[i].got : KindOfKey[job'[i].got[g]] = "module" =>
          /\ job'[i].got[g] \in DOMAIN appCache'
          /\ appCache'[job'[i].got[g]] \in job'[i].seen
    BY <1>2, <2>1 DEF PairOK
  <2>5. ASSUME job'[i].todo # <<>>, Head(job'[i].todo) \in ModuleRead,
               NEW n \in DOMAIN job'[i].list
        PROVE  KindOfKey[job'[i].list[n]] # "package"
    <3>1. CASE job'[i].todo = job[i].todo
      BY <2>1, <2>2, <2>5, <3>1 DEF PairOK
    <3>2. CASE job'[i].todo = Tail(job[i].todo) /\ job[i].todo # <<>>
      BY <2>5, <3>2, NoMoreModules
    <3>3. CASE job'[i].todo = Tail(job[i].todo) /\ job[i].todo = <<>>
      <4>1. Tail(job[i].todo) = <<>>
        BY <3>3
      <4> QED
        BY <2>5, <3>3, <4>1
    <3> QED
      BY <1>2, <3>1, <3>2, <3>3
  <2>6. ASSUME NEW g \in DOMAIN job'[i].got, NEW n \in DOMAIN job'[i].list,
               KindOfKey[job'[i].got[g]] = "module", KindOfKey[job'[i].list[n]] = "package"
        PROVE  appCache'[job'[i].got[g]] # appCache'[job'[i].list[n]]
    BY <1>2, <2>1, <2>2, <2>6, SMTT(30) DEF PairOK
  <2> QED
    BY <2>3, <2>4, <2>5, <2>6 DEF PairOK
<1> QED
  BY <1>1, <1>2 DEF Steady

LEMMA AppendPair ==
  ASSUME TypeInv, PairsOK, NEW j \in Jobs, AppendRow(j), Pair(j)'
  PROVE  PairOK(j)'
<1> DEFINE row == Head(job[j].reply)
           key == row.key
           id == appCache[key]
           read == Head(job[j].todo)
           dup == Deduped(j) /\ id \in job[j].seen
<1>1. /\ row \in Row /\ key \in Keys /\ key # NoKey /\ key \in DOMAIN appCache
      /\ Fits(row, read)
  BY RowWritten, ListingAssumption DEF ListingAssumption
<1>2. job[j].todo # <<>> /\ read \in ReadsOf(job[j].query)
  BY AtWork DEF AppendRow, JobOK, AtRead
<1>3. /\ job'[j].query = job[j].query /\ job'[j].todo = job[j].todo
      /\ job'[j].got = Append(job[j].got, key)
      /\ job'[j].list = (IF dup THEN job[j].list ELSE Append(job[j].list, key))
      /\ job'[j].seen = (IF Deduped(j) THEN job[j].seen \cup {id} ELSE job[j].seen)
      /\ UNCHANGED appCache
  BY Appended
<1>4. Pair(j) /\ PairOK(j)
  BY <1>3 DEF PairsOK, Pair
<1>5. \/ read \in ModuleRead /\ KindOfKey[key] = "module"
      \/ read \in {"installed_packages", "search_packages"} /\ KindOfKey[key] = "package"
      \/ read = "installed_plugins" /\ KindOfKey[key] = "plugin"
  BY <1>1, <1>2, <1>4, RowsOfAPair DEF Pair
<1>6. KindOfKey[key] = "module" => read \in ModuleRead /\ Deduped(j)
  BY <1>5 DEF Deduped, ModuleRead
<1>7. KindOfKey[key] = "package" => read \notin ModuleRead /\ Deduped(j)
  BY <1>5 DEF Deduped, ModuleRead
<1>8. job[j].got \in Seq(Keys) /\ job[j].list \in Seq(Keys)
  BY DEF TypeInv, JobsOK, JobRecord
<1>9. \A g \in DOMAIN job'[j].got :
        \/ g \in DOMAIN job[j].got /\ job'[j].got[g] = job[j].got[g]
        \/ job'[j].got[g] = key
  BY <1>1, <1>3, <1>8, ListAfter
<1>10. \A n \in DOMAIN job'[j].list :
        \/ n \in DOMAIN job[j].list /\ job'[j].list[n] = job[j].list[n]
        \/ ~dup /\ job'[j].list[n] = key
  <2>1. CASE dup
    BY <1>3, <2>1
  <2>2. CASE ~dup
    BY <1>1, <1>3, <1>8, <2>2, ListAfter
  <2> QED
    BY <2>1, <2>2
<1>11. job[j].seen \subseteq job'[j].seen /\ (Deduped(j) => id \in job'[j].seen)
  BY <1>3
<1>12. id \in job[j].seen /\ Deduped(j) => dup
  OBVIOUS
<1> HIDE DEF key, read, dup
<1>13. \A n \in DOMAIN job'[j].list : job'[j].list[n] \in DOMAIN appCache'
  BY <1>1, <1>3, <1>4, <1>10 DEF PairOK
<1>14. ASSUME NEW g \in DOMAIN job'[j].got, KindOfKey[job'[j].got[g]] = "module"
       PROVE  /\ job'[j].got[g] \in DOMAIN appCache'
              /\ appCache'[job'[j].got[g]] \in job'[j].seen
  <2>1. CASE g \in DOMAIN job[j].got /\ job'[j].got[g] = job[j].got[g]
    BY <1>3, <1>4, <1>11, <1>14, <2>1 DEF PairOK
  <2>2. CASE job'[j].got[g] = key
    BY <1>1, <1>3, <1>6, <1>11, <1>14, <2>2
  <2> QED
    BY <1>9, <2>1, <2>2
<1>15. ASSUME job'[j].todo # <<>>, Head(job'[j].todo) \in ModuleRead, NEW n \in DOMAIN job'[j].list
       PROVE  KindOfKey[job'[j].list[n]] # "package"
  <2>1. read \in ModuleRead
    BY <1>3, <1>15 DEF read
  <2>2. CASE n \in DOMAIN job[j].list /\ job'[j].list[n] = job[j].list[n]
    BY <1>2, <1>4, <2>1, <2>2 DEF PairOK, read
  <2>3. CASE job'[j].list[n] = key
    BY <1>7, <2>1, <2>3
  <2> QED
    BY <1>10, <2>2, <2>3
<1>16. ASSUME NEW g \in DOMAIN job'[j].got, NEW n \in DOMAIN job'[j].list,
              KindOfKey[job'[j].got[g]] = "module", KindOfKey[job'[j].list[n]] = "package"
       PROVE  appCache[job'[j].got[g]] # appCache[job'[j].list[n]]
  <2>1. CASE /\ g \in DOMAIN job[j].got /\ job'[j].got[g] = job[j].got[g]
             /\ n \in DOMAIN job[j].list /\ job'[j].list[n] = job[j].list[n]
    BY <1>4, <1>16, <2>1 DEF PairOK
  <2>2. CASE /\ g \in DOMAIN job[j].got /\ job'[j].got[g] = job[j].got[g]
             /\ ~dup /\ job'[j].list[n] = key
    <3>1. appCache[job[j].got[g]] \in job[j].seen
      BY <1>4, <1>16, <2>2 DEF PairOK
    <3>2. id \notin job[j].seen
      BY <1>7, <1>12, <1>16, <2>2
    <3> QED
      BY <2>2, <3>1, <3>2
  <2>3. CASE job'[j].got[g] = key
    <3>1. read \in ModuleRead
      BY <1>6, <1>16, <2>3
    <3>2. KindOfKey[key] # "package"
      BY <1>7, <3>1
    <3>3. n \in DOMAIN job[j].list /\ job'[j].list[n] = job[j].list[n]
      BY <1>10, <1>16, <3>2
    <3>4. KindOfKey[job[j].list[n]] # "package"
      BY <1>2, <1>4, <3>1, <3>3 DEF PairOK, read
    <3> QED
      BY <1>16, <3>3, <3>4
  <2> QED
    BY <1>9, <1>10, <2>1, <2>2, <2>3
<1> QED
  BY <1>3, <1>13, <1>14, <1>15, <1>16 DEF PairOK

LEMMA StepPaired ==
  ASSUME TypeInv, PairsOK, [Next]_vars
  PROVE  PairsOK'
<1>1. CASE UNCHANGED vars
  BY <1>1 DEF vars, PairsOK, Pair, PairOK
<1>2. ASSUME NEW j \in Jobs, ListAppsAsync(j) \/ JobStep(j) \/ Cancel(j), ~AppendRow(j)
      PROVE  PairsOK'
  <2>1. ASSUME NEW i \in Jobs, Pair(i)' PROVE PairOK(i)'
    BY <1>2, <2>1, SteadyButAppending, SteadyPair
  <2> QED
    BY <2>1 DEF PairsOK
<1>3. ASSUME NEW j \in Jobs, AppendRow(j) PROVE PairsOK'
  <2>1. UNCHANGED appCache /\ \A i \in Jobs : i # j => job'[i] = job[i]
    BY <1>3, Appended
  <2>2. ASSUME NEW i \in Jobs, i # j, Pair(i)' PROVE PairOK(i)'
    <3>1. job'[i] = job[i] /\ Pair(i) /\ PairOK(i)
      BY <2>1, <2>2 DEF PairsOK, Pair
    <3> QED
      BY <2>1, <3>1 DEF PairOK
  <2>3. ASSUME Pair(j)' PROVE PairOK(j)'
    BY <1>3, <2>3, AppendPair
  <2> QED
    BY <2>2, <2>3 DEF PairsOK
<1> QED
  BY <1>1, <1>2, <1>3 DEF Next

LEMMA InitPaired == Init => PairsOK
BY DEF Init, PairsOK, Pair, PairOK, NoJob

\* collect_pair()'s "a module wins its own dedup": whoever made the two apps
\* first, no list drops the module of an id for the package of that id.
THEOREM ModulesWin == Spec => []ModuleBeatsPackage
<1>1. PairsOK => ModuleBeatsPackage
  BY DEF PairsOK, Pair, PairOK, ModuleBeatsPackage
<1>2. Spec => [](TypeInv /\ PairsOK)
  BY InitTyped, StepTyped, InitPaired, StepPaired, PTL DEF Spec
<1> QED
  BY <1>1, <1>2, PTL

-------------------------------------------------------------------------------
\* The least element that replaces an induction on the length of a sequence.
LEMMA LeastNatural ==
  ASSUME NEW S \in SUBSET Nat, S # {}
  PROVE  \E n \in S : \A m \in S : n <= m
<1>1. PICK n \in S : \A m \in S : <<m, n>> \notin Order!OpToRel(<, Nat)
  <2> DEFINE R == Order!OpToRel(<, Nat)
  <2>1. Order!IsWellFoundedOn(R, Nat)
    BY Order!NatLessThanWellFounded
  <2> HIDE DEF R
  <2>2. \E n \in S : \A m \in S : <<m, n>> \notin R
    BY <2>1, Order!WFMin
  <2> QED
    BY <2>2 DEF R
<1>2. \A m \in S : ~ (m < n)
  BY <1>1 DEF Order!OpToRel
<1> QED
  BY <1>2

\* f[i] is what the places up to i keep of keys.
UpTo(f, keys, places, n) ==
  f = [i \in 0 .. n |->
         IF i = 0 THEN <<>>
         ELSE IF i \in places THEN Append(f[i - 1], keys[i]) ELSE f[i - 1]]

LEMMA UpToExists ==
  ASSUME NEW keys, NEW places, NEW n \in Nat
  PROVE  \E f : UpTo(f, keys, places, n)
<1> DEFINE none == {i \in Nat : ~ \E f : UpTo(f, keys, places, i)}
<1> SUFFICES ASSUME none # {} PROVE FALSE
  OBVIOUS
<1>1. PICK m \in none : \A i \in none : m <= i
  <2>1. none \in SUBSET Nat
    OBVIOUS
  <2> HIDE DEF none
  <2> QED
    BY <2>1, LeastNatural
<1>2. m \in Nat /\ ~ \E f : UpTo(f, keys, places, m)
  OBVIOUS
<1>3. CASE m = 0
  <2> DEFINE f == [i \in 0 .. 0 |-> <<>>]
  <2>1. UpTo(f, keys, places, 0)
    BY DEF UpTo
  <2> QED
    BY <1>2, <1>3, <2>1
<1>4. CASE m # 0
  <2>1. m - 1 \in Nat /\ m - 1 \notin none
    BY <1>1, <1>2, <1>4
  <2>2. PICK g : UpTo(g, keys, places, m - 1)
    BY <2>1
  <2> DEFINE last == IF m \in places THEN Append(g[m - 1], keys[m]) ELSE g[m - 1]
             f == [i \in 0 .. m |-> IF i = m THEN last ELSE g[i]]
  <2>3. ASSUME NEW i \in 0 .. m, i # 0
        PROVE  f[i] = IF i \in places THEN Append(f[i - 1], keys[i]) ELSE f[i - 1]
    <3>1. i - 1 \in 0 .. m - 1 /\ f[i - 1] = g[i - 1]
      BY <1>2, <2>3
    <3>2. CASE i = m
      BY <3>1, <3>2
    <3>3. CASE i # m
      <4>1. i \in 0 .. m - 1 /\ f[i] = g[i]
        BY <1>2, <3>3
      <4>2. g[i] = IF i \in places THEN Append(g[i - 1], keys[i]) ELSE g[i - 1]
        BY <2>2, <2>3, <4>1 DEF UpTo
      <4> QED
        BY <3>1, <4>1, <4>2
    <3> QED
      BY <3>2, <3>3
  <2>4. f[0] = <<>>
    <3>1. 0 \in 0 .. m - 1 /\ f[0] = g[0]
      BY <1>2, <1>4
    <3> QED
      BY <2>2, <3>1 DEF UpTo
  <2> HIDE DEF last
  <2>5. f = [i \in 0 .. m |-> IF i = 0 THEN <<>>
                    ELSE IF i \in places THEN Append(f[i - 1], keys[i]) ELSE f[i - 1]]
    <3>1. \A i \in 0 .. m : f[i] = IF i = 0 THEN <<>>
                    ELSE IF i \in places THEN Append(f[i - 1], keys[i]) ELSE f[i - 1]
      BY <2>3, <2>4
    <3>2. f = [i \in 0 .. m |-> f[i]]
      OBVIOUS
    <3> HIDE DEF f
    <3> QED
      BY <3>1, <3>2
  <2>6. UpTo(f, keys, places, m)
    BY <2>5 DEF UpTo
  <2> QED
    BY <1>2, <2>6
<1> QED
  BY <1>3, <1>4

\* Up to n, one sequence has the rows of the other and the same places.
SameUpTo(keys, places, more, wider, n) ==
  \A i \in 1 .. n : more[i] = keys[i] /\ (i \in wider <=> i \in places)

LEMMA UpToAgree ==
  ASSUME NEW keys, NEW places, NEW n \in Nat, NEW f, UpTo(f, keys, places, n),
         NEW more, NEW wider, NEW m \in Nat, n <= m, NEW g, UpTo(g, more, wider, m),
         SameUpTo(keys, places, more, wider, n)
  PROVE  \A i \in 0 .. n : f[i] = g[i]
<1> DEFINE differ == {i \in 0 .. n : f[i] # g[i]}
<1> SUFFICES ASSUME differ # {} PROVE FALSE
  OBVIOUS
<1>1. PICK k \in differ : \A i \in differ : k <= i
  <2>1. differ \in SUBSET Nat
    OBVIOUS
  <2> HIDE DEF differ
  <2> QED
    BY <2>1, LeastNatural
<1>2. k \in 0 .. n /\ k \in 0 .. m /\ f[k] # g[k]
  OBVIOUS
<1>3. CASE k = 0
  BY <1>2, <1>3 DEF UpTo
<1>4. CASE k # 0
  <2>1. k - 1 \in 0 .. n /\ k \in 1 .. n /\ k - 1 \notin differ
    BY <1>1, <1>2, <1>4
  <2>2. f[k - 1] = g[k - 1]
    BY <2>1
  <2>3. f[k] = IF k \in places THEN Append(f[k - 1], keys[k]) ELSE f[k - 1]
    BY <1>2, <1>4 DEF UpTo
  <2>4. g[k] = IF k \in wider THEN Append(g[k - 1], more[k]) ELSE g[k - 1]
    BY <1>2, <1>4 DEF UpTo
  <2> HIDE DEF differ
  <2> QED
    BY <1>2, <2>1, <2>2, <2>3, <2>4 DEF SameUpTo
<1> QED
  BY <1>3, <1>4

LEMMA RowsAtUpTo ==
  ASSUME NEW S, NEW keys \in Seq(S), NEW places
  PROVE  \E f : UpTo(f, keys, places, Len(keys)) /\ RowsAt(keys, places) = f[Len(keys)]
<1> DEFINE g == CHOOSE f : UpTo(f, keys, places, Len(keys))
<1>1. Len(keys) \in Nat
  OBVIOUS
<1>2. UpTo(g, keys, places, Len(keys))
  BY <1>1, UpToExists
<1>3. RowsAt(keys, places) = g[Len(keys)]
  BY DEF RowsAt, UpTo
<1> QED
  BY <1>2, <1>3

\* A row read last is kept or not, and disturbs none before it.
LEMMA RowsAtAppend ==
  ASSUME NEW S, NEW keys \in Seq(S), NEW k \in S, NEW places, NEW wider,
         \A i \in DOMAIN keys : i \in wider <=> i \in places
  PROVE  RowsAt(Append(keys, k), wider) =
           IF Len(keys) + 1 \in wider THEN Append(RowsAt(keys, places), k) ELSE RowsAt(keys, places)
<1> DEFINE n == Len(keys)
           more == Append(keys, k)
<1>1. /\ n \in Nat /\ more \in Seq(S) /\ Len(more) = n + 1 /\ more[n + 1] = k
      /\ \A i \in 1 .. n : i \in DOMAIN keys /\ more[i] = keys[i]
  OBVIOUS
<1>2. PICK f : UpTo(f, keys, places, n) /\ RowsAt(keys, places) = f[n]
  BY RowsAtUpTo
<1>3. PICK g : UpTo(g, more, wider, n + 1) /\ RowsAt(more, wider) = g[n + 1]
  BY <1>1, RowsAtUpTo
<1> HIDE DEF n, more
<1>4. \A i \in 0 .. n : f[i] = g[i]
  <2>1. n \in Nat /\ n + 1 \in Nat /\ n <= n + 1
    BY <1>1
  <2>2. SameUpTo(keys, places, more, wider, n)
    BY <1>1 DEF SameUpTo
  <2>3. UpTo(f, keys, places, n) /\ UpTo(g, more, wider, n + 1)
    BY <1>2, <1>3
  <2> QED
    BY <2>1, <2>2, <2>3, UpToAgree
<1>5. g[n + 1] = IF n + 1 \in wider THEN Append(g[n], more[n + 1]) ELSE g[n]
  <2>1. n + 1 \in 0 .. n + 1 /\ n + 1 # 0 /\ (n + 1) - 1 = n
    BY <1>1
  <2> QED
    BY <1>3, <2>1 DEF UpTo
<1>6. f[n] = g[n]
  BY <1>1, <1>4
<1> QED
  BY <1>1, <1>2, <1>3, <1>5, <1>6 DEF n, more

LEMMA RowsAtNone ==
  ASSUME NEW places
  PROVE  RowsAt(<<>>, places) = <<>>
<1>1. <<>> \in Seq({}) /\ Len(<<>>) = 0
  OBVIOUS
<1>2. PICK f : UpTo(f, <<>>, places, 0) /\ RowsAt(<<>>, places) = f[0]
  BY <1>1, RowsAtUpTo
<1> QED
  BY <1>2 DEF UpTo

\* FirstOfEachId() as an operator of the ids the apps have.
IdsIn(cache, query, got) == {cache[got[h]] : h \in Tabled(query, got)}
KeptIn(cache, query, got) ==
  {i \in DOMAIN got : i \in Tabled(query, got) =>
     \A h \in Tabled(query, got) : h < i => cache[got[h]] # cache[got[i]]}
FirstIn(cache, query, got) == RowsAt(got, KeptIn(cache, query, got))

\* Given one row more, the table of ids has one place more or none, and the
\* list one row more or none.
LEMMA FirstOfOneMore ==
  ASSUME NEW cache, NEW query, NEW got \in Seq(Keys), NEW key \in Keys
  PROVE  LET n == Len(got) + 1
             ids == IdsIn(cache, query, got)
             tables == query \in {{"installed"}, {"keywords"}} /\ KindOfKey[key] # "plugin"
         IN  /\ IdsIn(cache, query, Append(got, key))
                  = IF tables THEN ids \cup {cache[key]} ELSE ids
             /\ FirstIn(cache, query, Append(got, key))
                  = IF tables /\ cache[key] \in ids THEN FirstIn(cache, query, got)
                    ELSE Append(FirstIn(cache, query, got), key)
<1> DEFINE n == Len(got) + 1
           more == Append(got, key)
           tables == query \in {{"installed"}, {"keywords"}} /\ KindOfKey[key] # "plugin"
           tabled == Tabled(query, got)
           wider == Tabled(query, more)
           ids == {cache[got[h]] : h \in tabled}
           kept == {i \in DOMAIN got :
                      i \in tabled => \A h \in tabled : h < i => cache[got[h]] # cache[got[i]]}
           keptMore == {i \in DOMAIN more :
                      i \in wider => \A h \in wider : h < i => cache[more[h]] # cache[more[i]]}
<1>1. /\ DOMAIN more = DOMAIN got \cup {n} /\ more[n] = key /\ n \notin DOMAIN got
      /\ \A i \in DOMAIN got : more[i] = got[i] /\ i < n /\ i \in Nat
      /\ n \in Nat
  OBVIOUS
<1> HIDE DEF n, more
<1>2. tabled \subseteq DOMAIN got
  BY DEF Tabled
<1>3. wider = IF tables THEN tabled \cup {n} ELSE tabled
  BY <1>1 DEF Tabled
<1> HIDE DEF tabled, wider, tables
<1>4. {cache[more[h]] : h \in wider} = IF tables THEN ids \cup {cache[key]} ELSE ids
  BY <1>1, <1>2, <1>3
<1>5. ASSUME NEW i \in DOMAIN got PROVE i \in keptMore <=> i \in kept
  <2>1. i \in wider <=> i \in tabled
    BY <1>1, <1>3
  <2>2. \A h \in wider : h < i => h \in tabled
    BY <1>1, <1>3
  <2>3. \A h \in tabled : h \in wider /\ more[h] = got[h] /\ more[i] = got[i]
    BY <1>1, <1>2, <1>3
  <2> QED
    BY <1>1, <2>1, <2>2, <2>3
<1>6. n \in keptMore <=> ~ (tables /\ cache[key] \in ids)
  <2>1. n \in wider <=> tables
    BY <1>1, <1>2, <1>3
  <2>2. (\A h \in wider : h < n => cache[more[h]] # cache[more[n]])
          <=> (\A h \in tabled : cache[got[h]] # cache[key])
    BY <1>1, <1>2, <1>3
  <2> QED
    BY <1>1, <2>1, <2>2
<1>7. FirstIn(cache, query, got) = RowsAt(got, kept)
  BY DEF FirstIn, KeptIn, tabled
<1>8. FirstIn(cache, query, more) = RowsAt(more, keptMore)
  BY DEF FirstIn, KeptIn, wider
<1> HIDE DEF kept, keptMore
<1>9. RowsAt(more, keptMore) = IF n \in keptMore THEN Append(RowsAt(got, kept), key)
                               ELSE RowsAt(got, kept)
  BY <1>5, RowsAtAppend DEF n, more
<1> QED
  BY <1>4, <1>6, <1>7, <1>8, <1>9 DEF IdsIn, more, tables, tabled, wider

\* Apps that were made keep their ids, so a list keeps its rows.
LEMMA FirstStays ==
  ASSUME NEW old, NEW new, NEW query, NEW got, \A g \in DOMAIN got : new[got[g]] = old[got[g]]
  PROVE  /\ IdsIn(new, query, got) = IdsIn(old, query, got)
         /\ FirstIn(new, query, got) = FirstIn(old, query, got)
<1>1. Tabled(query, got) \subseteq DOMAIN got
  BY DEF Tabled
<1>2. KeptIn(new, query, got) = KeptIn(old, query, got)
  BY <1>1 DEF KeptIn
<1>3. IdsIn(new, query, got) = IdsIn(old, query, got)
  BY <1>1 DEF IdsIn
<1> QED
  BY <1>2, <1>3 DEF FirstIn

LEMMA NothingListed ==
  ASSUME NEW cache, NEW query
  PROVE  IdsIn(cache, query, <<>>) = {} /\ FirstIn(cache, query, <<>>) = <<>>
<1>1. Tabled(query, <<>>) = {}
  BY DEF Tabled
<1>2. \A places : RowsAt(<<>>, places) = <<>>
  BY RowsAtNone
<1> QED
  BY <1>1, <1>2 DEF FirstIn, IdsIn

\* The table holds the ids of the rows read with one, and a list that was not
\* dropped is the one its rows make.
ListOK(j) ==
  /\ \A g \in DOMAIN job[j].got : job[j].got[g] \in DOMAIN appCache
  /\ job[j].seen = IdsIn(appCache, job[j].query, job[j].got)
  /\ job[j].result # "cancelled" => job[j].list = FirstIn(appCache, job[j].query, job[j].got)

ListsOK == \A j \in Jobs : ListOK(j)

LEMMA SteadyList ==
  ASSUME TypeInv, ListsOK, NEW i \in Jobs, Steady(i),
         DOMAIN appCache \subseteq DOMAIN appCache',
         \A k \in DOMAIN appCache : appCache'[k] = appCache[k]
  PROVE  ListOK(i)'
<1>0. ListOK(i)
  BY DEF ListsOK
<1>1. CASE job'[i].list = <<>> /\ job'[i].got = <<>> /\ job'[i].seen = {}
  <2>1. /\ IdsIn(appCache', job'[i].query, <<>>) = {}
        /\ FirstIn(appCache', job'[i].query, <<>>) = <<>>
    BY NothingListed
  <2> QED
    BY <1>1, <2>1 DEF ListOK
<1>2. CASE /\ job'[i].query = job[i].query /\ job'[i].got = job[i].got /\ job'[i].seen = job[i].seen
           /\ \/ job'[i].list = <<>> /\ job'[i].result = "cancelled"
              \/ /\ job'[i].list = job[i].list
                 /\ job[i].result = "cancelled" => job'[i].result = "cancelled"
  <2> DEFINE got == job[i].got
             query == job[i].query
  <2>1. \A g \in DOMAIN got : appCache'[got[g]] = appCache[got[g]]
    BY <1>0 DEF ListOK
  <2>2. /\ IdsIn(appCache', query, got) = IdsIn(appCache, query, got)
        /\ FirstIn(appCache', query, got) = FirstIn(appCache, query, got)
    <3> HIDE DEF got, query
    <3> QED
      BY <2>1, FirstStays
  <2> QED
    BY <1>0, <1>2, <2>2 DEF ListOK
<1> QED
  BY <1>1, <1>2 DEF Steady

LEMMA AppendList ==
  ASSUME TypeInv, ListsOK, NEW j \in Jobs, AppendRow(j)
  PROVE  ListOK(j)'
<1> DEFINE row == Head(job[j].reply)
           key == row.key
           id == appCache[key]
           read == Head(job[j].todo)
           dup == Deduped(j) /\ id \in job[j].seen
           got == job[j].got
           query == job[j].query
           tables == query \in {{"installed"}, {"keywords"}} /\ KindOfKey[key] # "plugin"
<1>1. /\ row \in Row /\ key \in Keys /\ key # NoKey /\ key \in DOMAIN appCache
      /\ Fits(row, read)
  BY RowWritten, ListingAssumption DEF ListingAssumption
<1>2. job[j].todo # <<>> /\ read \in ReadsOf(query)
  BY AtWork DEF AppendRow, JobOK, AtRead
<1>3. /\ job'[j].query = query /\ job'[j].got = Append(got, key)
      /\ job'[j].list = (IF dup THEN job[j].list ELSE Append(job[j].list, key))
      /\ job'[j].seen = (IF Deduped(j) THEN job[j].seen \cup {id} ELSE job[j].seen)
      /\ UNCHANGED appCache
  BY Appended
<1>4. ListOK(j) /\ job[j].result # "cancelled" /\ got \in Seq(Keys)
  BY AtWork DEF ListsOK, AppendRow, JobOK, Answering, JobRecord
<1>5. Deduped(j) <=> tables
  <2>1. CASE query \in {{"installed"}, {"keywords"}}
    <3>1. \/ read \in ModuleRead /\ KindOfKey[key] = "module"
          \/ read \in {"installed_packages", "search_packages"} /\ KindOfKey[key] = "package"
          \/ read = "installed_plugins" /\ KindOfKey[key] = "plugin"
      BY <1>1, <1>2, <2>1, RowsOfAPair
    <3> QED
      BY <2>1, <3>1 DEF Deduped, ModuleRead
  <2>2. CASE query \notin {{"installed"}, {"keywords"}}
    <3>1. read \in {"alternates", "updates"}
      BY <1>2, <2>2 DEF ReadsOf
    <3> QED
      BY <2>2, <3>1 DEF Deduped
  <2> QED
    BY <2>1, <2>2
<1> HIDE DEF key, read, got, query
<1>6. /\ IdsIn(appCache, query, Append(got, key))
           = IF tables THEN IdsIn(appCache, query, got) \cup {id} ELSE IdsIn(appCache, query, got)
      /\ FirstIn(appCache, query, Append(got, key))
           = IF tables /\ id \in IdsIn(appCache, query, got) THEN FirstIn(appCache, query, got)
             ELSE Append(FirstIn(appCache, query, got), key)
  BY <1>1, <1>4, FirstOfOneMore
<1> HIDE DEF tables
<1>7. /\ job[j].seen = IdsIn(appCache, query, got)
      /\ job[j].list = FirstIn(appCache, query, got)
      /\ \A g \in DOMAIN got : got[g] \in DOMAIN appCache
  BY <1>4 DEF ListOK, got, query
<1>8. \A g \in DOMAIN Append(got, key) : Append(got, key)[g] \in DOMAIN appCache
  BY <1>1, <1>4, <1>7, ListAfter
<1>9. /\ job'[j].seen = IdsIn(appCache', job'[j].query, job'[j].got)
      /\ job'[j].list = FirstIn(appCache', job'[j].query, job'[j].got)
  BY <1>3, <1>5, <1>6, <1>7
<1> QED
  BY <1>3, <1>8, <1>9 DEF ListOK

LEMMA StepLists ==
  ASSUME TypeInv, ListsOK, [Next]_vars
  PROVE  ListsOK'
<1>1. CASE UNCHANGED vars
  BY <1>1 DEF vars, ListsOK, ListOK
<1>2. ASSUME NEW j \in Jobs, ListAppsAsync(j) \/ JobStep(j) \/ Cancel(j), ~AppendRow(j)
      PROVE  ListsOK'
  <2>1. ASSUME NEW i \in Jobs PROVE ListOK(i)'
    BY <1>2, SteadyButAppending, SteadyList
  <2> QED
    BY <2>1 DEF ListsOK
<1>3. ASSUME NEW j \in Jobs, AppendRow(j) PROVE ListsOK'
  <2>1. UNCHANGED appCache /\ \A i \in Jobs : i # j => job'[i] = job[i]
    BY <1>3, Appended
  <2>2. ASSUME NEW i \in Jobs, i # j PROVE ListOK(i)'
    <3>1. job'[i] = job[i] /\ ListOK(i)
      BY <2>1, <2>2 DEF ListsOK
    <3> QED
      BY <2>1, <3>1 DEF ListOK
  <2>3. ListOK(j)'
    BY <1>3, AppendList
  <2> QED
    BY <2>2, <2>3 DEF ListsOK
<1> QED
  BY <1>1, <1>2, <1>3 DEF Next

LEMMA InitLists == Init => ListsOK
<1> SUFFICES ASSUME Init, NEW j \in Jobs PROVE ListOK(j)
  BY DEF ListsOK
<1>1. job[j] = NoJob
  BY DEF Init
<1> QED
  BY <1>1, NoJobTyped, NothingListed DEF ListOK

\* The contract of gs_modulix_append_apps_from_variant() over both reads of a
\* pair: whoever makes the same apps meanwhile, a list holds the rows the
\* daemon gave, in order, less those whose id came earlier.
THEOREM FirstOfEachIdListed == Spec => []FirstWins
<1>1. ListsOK => FirstWins
  BY DEF ListsOK, ListOK, FirstWins, FirstOfEachId, FirstIn, KeptIn
<1>2. Spec => [](TypeInv /\ ListsOK)
  BY InitTyped, StepTyped, InitLists, StepLists, PTL DEF Spec
<1> QED
  BY <1>1, <1>2, PTL
===============================================================================
