---------------------------- MODULE OTAJobProofs ----------------------------
(* Proofs about the server and the job of a session (OTAJob), for any         *)
(* documents, any versions and any parameters.                                *)
EXTENDS OTAJob, SequenceTheorems, TLAPS

------------------------------------------------------------------------------
(* The inductive invariant                                                    *)

\* The types, and what a redirect may take from the parsed job.
JobType ==
  /\ TypeOK
  /\ job_doc \in Documents \cup {NoDocument}
  /\ parsed_job.parse_result = "CHANGING_SERVER" => parsed_job.connect_type \in Types

\* What cy_ota_parse_job_info() has checked of a document that it lets pass.
Passed(doc) ==
  doc # NoDocument /\ ~Malformed(doc) /\ ~TooOld(VersionOf(doc)) /\ doc.board = Board

\* A document that waits for its redirect was parsed against the server in use.
ParsedInv ==
  curr_state = "JOB_REDIRECT" =>
    /\ curr_server = HomeOf(curr_connect_type)
    /\ Passed(job_doc)
    /\ parsed_job.parse_result = IF SameServer(job_doc) THEN "SUCCESS" ELSE "CHANGING_SERVER"
    /\ ~SameServer(job_doc) =>
         /\ parsed_job.connect_type = TypeOf(job_doc)
         /\ parsed_job.host = HostOf(job_doc)
         /\ parsed_job.port = PortOf(job_doc)

\* While there is a slot to write, the document has passed and is followed.
StoringInv == curr_state \in Storing => Passed(job_doc) /\ IsNamedServer

JobInv == JobType /\ KnowsItsServer /\ ParsedInv /\ StoringInv

------------------------------------------------------------------------------
(* Words and documents                                                        *)

\* What a word keeps of a number.
LEMMA WordOf ==
  ASSUME NEW w \in Nat \ {0}, NEW x \in Nat
  PROVE  x % w \in Nat /\ x % w <= x /\ (x < w => x % w = x)
  OBVIOUS

\* A home is never the pointer into the job.
LEMMA HomeIs ==
  ASSUME NEW type \in Types
  PROVE  HomeOf(type) \in {"mqtt", "http"}
  BY DEF HomeOf, Types

\* A document that is well formed has one of the three types.
LEMMA TypeIs ==
  ASSUME JobType, job_doc # NoDocument, ~Malformed(job_doc)
  PROVE  TypeOf(job_doc) \in Types
<1>1. job_doc.connection \in Types \cup {"absent", "", "other"}
  BY JobAssumption DEF JobType
<1> QED BY <1>1 DEF TypeOf, Malformed, JobType, TypeOK, Types

\* The parts of the application's version are numbers.
LEMMA AppVersionIs == AppVersion[1] \in Nat /\ AppVersion[2] \in Nat /\ AppVersion[3] \in Nat
<1>1. Word \in Nat /\ AppVersion \in [1..3 -> 0..(Word - 1)]
  BY JobAssumption
<1>2. 0..(Word - 1) \subseteq Nat
  BY <1>1
<1> QED BY <1>1, <1>2

\* A version with no part below one that is not refused is newer.
LEMMA NotTooOldIsNewer ==
  ASSUME NEW v, NEW w, ~TooOld(w),
         \A i \in 1..3 : v[i] \in Nat /\ w[i] \in Nat /\ w[i] <= v[i]
  PROVE  Newer(v, AppVersion)
<1>1. /\ v[1] \in Nat /\ w[1] \in Nat /\ w[1] <= v[1]
      /\ v[2] \in Nat /\ w[2] \in Nat /\ w[2] <= v[2]
      /\ v[3] \in Nat /\ w[3] \in Nat /\ w[3] <= v[3]
  OBVIOUS
<1>2. /\ AppVersion[1] <= w[1]
      /\ AppVersion[1] = w[1] => AppVersion[2] <= w[2]
      /\ AppVersion[1] = w[1] /\ AppVersion[2] = w[2] => AppVersion[3] < w[3]
  BY <1>1, AppVersionIs DEF TooOld
<1>3. CASE v[1] > AppVersion[1]
  BY <1>3 DEF Newer
<1>4. CASE v[1] = AppVersion[1] /\ v[2] > AppVersion[2]
  BY <1>4 DEF Newer
<1>5. CASE v[1] = AppVersion[1] /\ v[2] = AppVersion[2] /\ v[3] > AppVersion[3]
  BY <1>5 DEF Newer
<1>6. \/ v[1] > AppVersion[1]
      \/ v[1] = AppVersion[1] /\ v[2] > AppVersion[2]
      \/ v[1] = AppVersion[1] /\ v[2] = AppVersion[2] /\ v[3] > AppVersion[3]
  BY <1>1, <1>2, AppVersionIs
<1> QED BY <1>3, <1>4, <1>5, <1>6

\* A version that is not refused is above the application's, although only
\* the words of its parts were compared, and zeros if it was missing.
LEMMA PassedIsNewer ==
  ASSUME JobType, Passed(job_doc)
  PROVE  /\ Len(job_doc.version) >= 3 => Newer(job_doc.version, AppVersion)
         /\ Len(job_doc.version) < 3 => Newer(<<0, 0, 0>>, AppVersion)
<1> DEFINE v == job_doc.version
<1>1. v \in Seq(Nat) /\ Word \in Nat \ {0} /\ Len(v) \notin {1, 2}
  BY JobAssumption DEF JobType, Passed, Malformed
<1>2. CASE v = <<>>
  <2>1. ~TooOld(<<0, 0, 0>>)
    BY <1>2 DEF Passed, VersionOf
  <2>2. Newer(<<0, 0, 0>>, AppVersion)
    BY <2>1, NotTooOldIsNewer
  <2> QED BY <1>2, <2>2
<1>3. CASE v # <<>>
  <2>1. Len(v) >= 3
    <3>1. Len(v) \in Nat /\ Len(v) # 0
      BY <1>1, <1>3, EmptySeq, LenProperties
    <3>2. \A n \in Nat : n \notin {0, 1, 2} => n >= 3
      OBVIOUS
    <3> QED BY <1>1, <3>1, <3>2, Zenon
  <2>2. ~TooOld([i \in 1..3 |-> v[i] % Word])
    BY <1>3 DEF Passed, VersionOf
  <2>3. \A i \in 1..3 : v[i] \in Nat
    BY <1>1, <2>1
  <2>4. \A i \in 1..3 : v[i] % Word \in Nat /\ v[i] % Word <= v[i]
    BY <1>1, <2>3, WordOf
  <2>5. Newer(v, AppVersion)
    BY <2>2, <2>3, <2>4, NotTooOldIsNewer
  <2> QED BY <2>1, <2>5, <1>1
<1> QED BY <1>2, <1>3

------------------------------------------------------------------------------
(* The invariant holds                                                        *)

JobRows == {"JOB_CONNECT", "JOB_DOWNLOAD", "JOB_PARSE"}
ResultRows == {"RESULT_CONNECT", "RESULT_SEND"}
IdleRows == {"AGENT_WAITING", "START_UPDATE", "OTA_COMPLETE"}

LEMMA InitJob == Init => JobInv
<1> SUFFICES ASSUME Init PROVE JobInv
  OBVIOUS
<1>1. TypeOK
  BY JobAssumption DEF Init, TypeOK, States, Types
<1>2. parsed_job.parse_result = "SUCCESS" /\ job_doc = NoDocument
  BY DEF Init, Cleared
<1>3. JobType
  BY <1>1, <1>2 DEF JobType
<1> QED BY <1>3 DEF Init, JobInv, KnowsItsServer, ParsedInv, StoringInv, Storing

\* What a step that keeps type, pointer, document and parsed job keeps.
LEMMA StaysKeeps ==
  ASSUME Stays
  PROVE  /\ Passed(job_doc)' <=> Passed(job_doc)
         /\ IsNamedServer' <=> IsNamedServer
         /\ SameServer(job_doc)' <=> SameServer(job_doc)
         /\ TypeOf(job_doc)' = TypeOf(job_doc)
         /\ HostOf(job_doc)' = HostOf(job_doc)
         /\ PortOf(job_doc)' = PortOf(job_doc)
<1>1. Server' = Server
  BY DEF Stays, Server
<1> QED BY <1>1 DEF Stays, Passed, Malformed, TooOld, VersionOf, IsNamedServer, SameServer,
                    TypeOf, HostOf, PortOf, HomeOf

\* Such a step keeps the invariant if it leaves no row out on its way.
LEMMA StaysInv ==
  ASSUME JobInv, Stays, curr_state' \in States, curr_state' # "JOB_REDIRECT",
         curr_state' \in Storing => curr_state \in Storing,
         curr_state' \in JobRows => curr_state \in JobRows,
         curr_state' \in ResultRows => curr_state \in ResultRows,
         curr_state \in IdleRows => curr_state' \in IdleRows
  PROVE  JobInv'
<1>1. JobType'
  BY DEF JobInv, JobType, TypeOK, Stays
<1>2. KnowsItsServer'
  BY DEF JobInv, KnowsItsServer, Stays, HomeOf, JobRows, ResultRows, IdleRows
<1>3. ParsedInv'
  BY DEF ParsedInv
<1>4. StoringInv'
  BY StaysKeeps DEF JobInv, StoringInv
<1> QED BY <1>1, <1>2, <1>3, <1>4 DEF JobInv

\* A document that passes its checks leads to its redirect.
LEMMA ParseInv == ASSUME JobInv, JobParse PROVE JobInv'
<1> DEFINE result == ParseResult(job_doc)
<1>1. /\ curr_state = "JOB_PARSE" /\ curr_server = HomeOf(curr_connect_type)
      /\ UNCHANGED <<curr_connect_type, curr_server, job_doc>>
      /\ curr_state' \in {"JOB_REDIRECT", "RESULT_REDIRECT"}
      /\ curr_state' = "JOB_REDIRECT" => result \in {"SUCCESS", "CHANGING_SERVER"}
  BY DEF JobParse, GoesTo, JobInv, KnowsItsServer
<1>2. curr_server \in {"mqtt", "http"} /\ Server' = Server
  BY <1>1, HomeIs DEF JobInv, JobType, TypeOK, Server
<1>3. result \in {"SUCCESS", "CHANGING_SERVER"} =>
        /\ Passed(job_doc)
        /\ result = IF SameServer(job_doc) THEN "SUCCESS" ELSE "CHANGING_SERVER"
        /\ parsed_job'.parse_result = result
        /\ parsed_job'.connect_type = TypeOf(job_doc)
        /\ parsed_job'.host = HostOf(job_doc)
        /\ ~SameServer(job_doc) => parsed_job'.port = PortOf(job_doc)
  BY DEF JobParse, ParseResult, Passed
<1>4. parsed_job'.parse_result = "CHANGING_SERVER" => result = "CHANGING_SERVER"
  BY <1>1 DEF JobParse
<1>5. JobType'
  <2>1. result = "CHANGING_SERVER" => TypeOf(job_doc) \in Types
    BY <1>3, TypeIs DEF Passed, JobInv
  <2> QED BY <1>1, <1>3, <1>4, <2>1 DEF JobInv, JobType, TypeOK, States
<1>6. KnowsItsServer'
  BY <1>1, <1>2 DEF KnowsItsServer
<1>7. ParsedInv'
  <2>1. /\ SameServer(job_doc)' <=> SameServer(job_doc)
        /\ TypeOf(job_doc)' = TypeOf(job_doc)
        /\ HostOf(job_doc)' = HostOf(job_doc)
        /\ PortOf(job_doc)' = PortOf(job_doc)
        /\ Passed(job_doc)' <=> Passed(job_doc)
        /\ HomeOf(curr_connect_type)' = HomeOf(curr_connect_type)
    BY <1>1, <1>2 DEF SameServer, TypeOf, HostOf, PortOf, Passed, Malformed, TooOld, VersionOf, HomeOf
  <2> QED BY <1>1, <1>3, <2>1 DEF ParsedInv
<1>8. StoringInv'
  BY <1>1 DEF StoringInv, Storing
<1> QED BY <1>5, <1>6, <1>7, <1>8 DEF JobInv

\* A redirect, or none, leads to the server that the document names.
LEMMA RedirectInv == ASSUME JobInv, JobRedirect PROVE JobInv'
<1>1. /\ curr_state = "JOB_REDIRECT" /\ curr_state' = "STORAGE_OPEN"
      /\ UNCHANGED <<job_doc, parsed_job>>
  BY DEF JobRedirect, GoesTo
<1>2. /\ curr_server = HomeOf(curr_connect_type) /\ Passed(job_doc)
      /\ parsed_job.parse_result = IF SameServer(job_doc) THEN "SUCCESS" ELSE "CHANGING_SERVER"
      /\ ~SameServer(job_doc) =>
           /\ parsed_job.connect_type = TypeOf(job_doc)
           /\ parsed_job.host = HostOf(job_doc)
           /\ parsed_job.port = PortOf(job_doc)
  BY <1>1 DEF JobInv, ParsedInv
<1>3. curr_server \in {"mqtt", "http"} /\ Server = Params[HomeOf(curr_connect_type)]
  BY <1>2, HomeIs DEF JobInv, JobType, TypeOK, Server
<1>4. Word \in Nat \ {0} /\ job_doc.port \in Nat \cup {-1} /\ TypeOf(job_doc) \in Types
  BY <1>2, TypeIs, JobAssumption DEF Passed, JobInv, JobType
<1>5. /\ job_doc.port \in 1..(Word - 1) => PortOf(job_doc) = job_doc.port /\ job_doc.port # 0
      /\ job_doc.port = 0 => PortOf(job_doc) = 0
      /\ job_doc.port = -1 => PortOf(job_doc) = Server.port
  BY <1>4, WordOf DEF PortOf
<1>6. CASE SameServer(job_doc)
  <2>1. UNCHANGED <<curr_connect_type, curr_server>> /\ Server' = Server
    BY <1>1, <1>2, <1>6 DEF JobRedirect, Server
  <2>2. IsNamedServer
    BY <1>3, <1>5, <1>6 DEF IsNamedServer, SameServer, TypeOf, HostOf, Types
  <2>3. Passed(job_doc)' /\ IsNamedServer'
    BY <1>1, <1>2, <2>1, <2>2, StaysKeeps DEF Stays
  <2>4. JobType'
    BY <1>1, <2>1 DEF JobInv, JobType, TypeOK, States
  <2>5. KnowsItsServer'
    BY <1>1, <1>3, <2>1 DEF KnowsItsServer
  <2> QED BY <1>1, <2>3, <2>4, <2>5 DEF JobInv, ParsedInv, StoringInv
<1>7. CASE ~SameServer(job_doc)
  <2>1. curr_connect_type' = TypeOf(job_doc) /\ curr_server' = IF Moves THEN "job" ELSE curr_server
    BY <1>2, <1>7 DEF JobRedirect
  <2>2. Server'.host = HostOf(job_doc) /\ Server'.port = PortOf(job_doc)
    <3>1. CASE Moves
      BY <1>1, <1>2, <1>7, <2>1, <3>1 DEF Server
    <3>2. CASE ~Moves
      <4>1. Server' = Server
        BY <1>1, <1>3, <2>1, <3>2 DEF Server
      <4> QED BY <1>2, <1>7, <3>2, <4>1 DEF Moves
    <3> QED BY <3>1, <3>2
  <2>3. IsNamedServer'
    <3>1. /\ job_doc.connection \in Types => TypeOf(job_doc) = job_doc.connection
          /\ job_doc.host # "" => HostOf(job_doc) = job_doc.host
      BY DEF TypeOf, HostOf, Types
    <3>2. ~(job_doc.connection = "absent" /\ job_doc.host = "" /\ job_doc.port \in {-1, 0})
      BY <1>5, <1>7 DEF SameServer, TypeOf, HostOf
    <3> QED BY <1>1, <1>5, <2>1, <2>2, <3>1, <3>2 DEF IsNamedServer
  <2>4. Passed(job_doc)'
    BY <1>1, <1>2 DEF Passed, Malformed, TooOld, VersionOf
  <2>5. JobType'
    BY <1>1, <1>3, <1>4, <2>1 DEF JobInv, JobType, TypeOK, States
  <2>6. KnowsItsServer'
    BY <1>1, <1>2, <1>7 DEF KnowsItsServer
  <2> QED BY <1>1, <2>3, <2>4, <2>5, <2>6 DEF JobInv, ParsedInv, StoringInv
<1> QED BY <1>6, <1>7

\* The rows that set the server from the parameters.
LEMMA ServerInv == ASSUME JobInv, DetermineFlow \/ ResultRedirect PROVE JobInv'
<1>1. CASE DetermineFlow
  <2>1. /\ curr_state' = "JOB_CONNECT" /\ curr_server' = HomeOf(curr_connect_type)
        /\ UNCHANGED <<curr_connect_type, job_doc, parsed_job>>
    BY <1>1 DEF DetermineFlow, GoesTo
  <2>2. JobType'
    BY <2>1, HomeIs DEF JobInv, JobType, TypeOK, States
  <2>3. KnowsItsServer'
    BY <2>1, HomeIs DEF JobInv, JobType, TypeOK, KnowsItsServer, HomeOf
  <2> QED BY <2>1, <2>2, <2>3 DEF JobInv, ParsedInv, StoringInv, Storing
<1>2. CASE ResultRedirect
  <2>1. /\ curr_state' \in {"RESULT_CONNECT", "OTA_COMPLETE"}
        /\ UNCHANGED <<job_doc, parsed_job>>
        /\ \/ curr_connect_type' = Initial /\ curr_server' = HomeOf(Initial)
           \/ curr_state' = "OTA_COMPLETE" /\ UNCHANGED <<curr_connect_type, curr_server>>
    BY <1>2 DEF ResultRedirect, GoesTo
  <2>2. Initial \in Types /\ HomeOf(Initial) \in {"mqtt", "http"}
    BY HomeIs, JobAssumption
  <2>3. JobType'
    BY <2>1, <2>2 DEF JobInv, JobType, TypeOK, States
  <2>4. KnowsItsServer'
    BY <2>1, <2>2 DEF KnowsItsServer, HomeOf
  <2> QED BY <2>1, <2>3, <2>4 DEF JobInv, ParsedInv, StoringInv, Storing
<1> QED BY <1>1, <1>2

\* The rows that only go on, and those before a document is there.
LEMMA OtherInv ==
  ASSUME JobInv, \/ WaitForStart \/ Connect \/ JobDownload \/ StorageOpen \/ DataDownload
                 \/ ResultSend \/ Complete \/ AppStops
  PROVE  JobInv'
<1> USE DEF JobRows, ResultRows, IdleRows, Storing, States
<1>1. CASE WaitForStart
  BY <1>1 DEF WaitForStart, GoesTo, Cleared, JobInv, JobType, TypeOK, KnowsItsServer, ParsedInv, StoringInv
<1>2. CASE Connect
  BY <1>2, StaysInv DEF Connect
<1>3. CASE JobDownload
  BY <1>3 DEF JobDownload, JobInv, JobType, TypeOK, KnowsItsServer, HomeOf, ParsedInv, StoringInv
<1>4. CASE StorageOpen
  BY <1>4, StaysInv DEF StorageOpen
<1>5. CASE DataDownload
  BY <1>5, StaysInv DEF DataDownload
<1>6. CASE ResultSend
  BY <1>6, StaysInv DEF ResultSend, GoesTo
<1>7. CASE Complete
  <2>1. CASE Stays
    BY <1>7, <2>1, StaysInv DEF Complete, GoesTo
  <2>2. CASE ~Stays
    <3>1. Initial \in Types /\ HomeOf(Initial) \in {"mqtt", "http"}
      BY HomeIs, JobAssumption
    <3>2. /\ curr_state' = "AGENT_WAITING" /\ curr_connect_type' = Initial
          /\ curr_server' = HomeOf(Initial) /\ job_doc' = NoDocument /\ parsed_job' = Cleared
      BY <1>7, <2>2 DEF Complete, GoesTo
    <3> QED BY <3>1, <3>2 DEF Cleared, JobInv, JobType, TypeOK, KnowsItsServer, ParsedInv, StoringInv
  <2> QED BY <2>1, <2>2
<1>8. CASE AppStops
  BY <1>8, StaysInv DEF AppStops, GoesTo
<1> QED BY <1>1, <1>2, <1>3, <1>4, <1>5, <1>6, <1>7, <1>8

LEMMA StepJob == JobInv /\ [Next]_vars => JobInv'
<1> SUFFICES ASSUME JobInv, [Next]_vars PROVE JobInv'
  OBVIOUS
<1>1. CASE Next
  BY <1>1, ParseInv, RedirectInv, ServerInv, OtherInv DEF Next
<1>2. CASE UNCHANGED vars
  <2>1. Stays /\ curr_state' = curr_state
    BY <1>2 DEF vars, Stays
  <2>2. JobType' /\ KnowsItsServer'
    BY <2>1 DEF JobInv, JobType, TypeOK, KnowsItsServer, Stays, HomeOf
  <2>3. ParsedInv' /\ StoringInv'
    BY <2>1, StaysKeeps DEF JobInv, ParsedInv, StoringInv, Stays, HomeOf
  <2> QED BY <2>2, <2>3 DEF JobInv
<1> QED BY <1>1, <1>2

LEMMA JobInvariant == Spec => []JobInv
  BY InitJob, StepJob, PTL DEF Spec

------------------------------------------------------------------------------
(* The theorems                                                               *)

\* Row, type and pointer stay within their ranges (cy_ota_context_t).
THEOREM JobTypeCorrect == Spec => []TypeOK
<1>1. JobInv => TypeOK
  BY DEF JobInv, JobType
<1> QED BY <1>1, JobInvariant, PTL

\* For every document, the data comes from the server that it names
\* (cy_ota_parse_job_info, cy_ota_job_redirect).
THEOREM JobNamesServer == Spec => []DataFromJobServer
<1>1. JobInv => DataFromJobServer
  BY DEF JobInv, StoringInv, Storing, DataFromJobServer
<1> QED BY <1>1, JobInvariant, PTL

\* For every document and every version of the application, the slot is opened
\* only for a newer version for this board (cy_ota_parse_job_info).
THEOREM JobIsNewer == Spec => []UpdatesAreNewer
<1>1. JobInv => UpdatesAreNewer
  BY PassedIsNewer DEF JobInv, StoringInv, UpdatesAreNewer, Passed
<1> QED BY <1>1, JobInvariant, PTL

\* A cleared server is never used, and the result goes to the initial
\* connection (cy_ota_determine_flow, cy_ota_result_redirect).
THEOREM JobKnowsServer == Spec => []KnowsItsServer
<1>1. JobInv => KnowsItsServer
  BY DEF JobInv
<1> QED BY <1>1, JobInvariant, PTL
=============================================================================
