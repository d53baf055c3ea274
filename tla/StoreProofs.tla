---------------------------- MODULE StoreProofs ----------------------------
(***************************************************************************)
(* Theorems about the durable stores (RemoteStore, LocalStore, Retention), *)
(* about the execution that fills them (ArtifactPipeline) and about the    *)
(* restore that reads them back (MediaRestore).                            *)
(***************************************************************************)
EXTENDS ArtifactPipeline, MediaRestore, Retention, RemoteStore, SequenceTheorems, SumTheorems

-----------------------------------------------------------------------------
(* The bucket.  A key that was handed out and is not to be deleted holds    *)
(* the artifact; so does the key of an upload that has verified it, for an  *)
(* upload and a deletion of one key exclude each other.                     *)

Contents == {"none", "whole", "odd", "other"}
Artifact == {"whole", "odd"}
Request == [op : {"store", "delete", "read"}, key : Keys,
            step : {"head", "put", "verify", "staging", "delete", "confirm",
                    "get", "close", "good"},
            got : Contents]

RequestIsSound(s) ==
    /\ s.op = "store" => s.key \notin condemned
    /\ s.op = "store" /\ s.step = "staging" => bucket[s.key] \in Artifact
    /\ s.op = "delete" => s.key \in condemned

RemoteInv ==
    /\ bucket \in [Keys -> Contents]
    /\ session \in [Clients -> Request \cup {Quiet}]
    /\ \A k \in known \ condemned : bucket[k] \in Artifact
    /\ \A c \in Clients : session[c] # Quiet => RequestIsSound(session[c])

\* A client's step that keeps the buckets and condemned keys.
LEMMA SessionSteps ==
    ASSUME RemoteInv, NEW c \in Clients, NEW s \in Request \cup {Quiet},
           session' = [session EXCEPT ![c] = s], UNCHANGED <<bucket, condemned>>,
           \A k \in known' \ known : bucket[k] \in Artifact,
           s # Quiet => RequestIsSound(s)
    PROVE  RemoteInv'
  BY DEF RemoteInv, RequestIsSound

LEMMA RemoteInitially == RemoteInit => RemoteInv
  BY DEF RemoteInit, RemoteInv, Contents

LEMMA RemoteUpload ==
    ASSUME RemoteInv, NEW c \in Clients, Upload(c) PROVE RemoteInv'
<1> DEFINE k == session[c].key
<1>1. session[c] # Quiet /\ session[c] \in Request /\ k \in Keys
      /\ RequestIsSound(session[c])
  BY DEF Upload, RemoteInv, Request
<1>2. \A t \in {"put", "verify", "staging"} : [session[c] EXCEPT !.step = t] \in Request
  BY <1>1 DEF Request
<1>3. \A t \in {"put", "verify"} : Steps(c, t) /\ session[c].op = "store"
          /\ UNCHANGED <<bucket, condemned, known>> => RemoteInv'
  <2> SUFFICES ASSUME NEW t \in {"put", "verify"}, Steps(c, t), session[c].op = "store",
                      UNCHANGED <<bucket, condemned, known>>
               PROVE  RemoteInv'
    OBVIOUS
  <2>1. RequestIsSound([session[c] EXCEPT !.step = t])
    BY <1>1 DEF RequestIsSound, Request
  <2> QED BY <1>2, <2>1, SessionSteps DEF Steps
<1>4. Ends(c) /\ UNCHANGED <<bucket, condemned>>
          /\ (\A j \in known' \ known : bucket[j] \in Artifact) => RemoteInv'
  BY SessionSteps DEF Ends
<1>5. CASE UploadHead(c, k)
  BY <1>3, <1>4, <1>5 DEF UploadHead, In, Told
<1>6. CASE PutObject(c, k)
  <2>1. k \notin condemned
    BY <1>1, <1>6 DEF PutObject, In, RequestIsSound
  <2>2. PICK left \in {bucket[k], "whole"} : bucket' = [bucket EXCEPT ![k] = left]
    BY <1>1, <1>6 DEF PutObject, RemoteInv
  <2>3. bucket' \in [Keys -> Contents]
        /\ \A j \in Keys : bucket[j] \in Artifact => bucket'[j] \in Artifact
    BY <2>2, <1>1 DEF RemoteInv, Contents, Artifact
  <2>4. PICK s \in Request \cup {Quiet} :
          /\ session' = [session EXCEPT ![c] = s]
          /\ s # Quiet => s.op = "store" /\ s.step = "verify" /\ s.key = k
    <3>1. CASE Steps(c, "verify")
      <4>1. session' = [session EXCEPT ![c] = [session[c] EXCEPT !.step = "verify"]]
        BY <3>1 DEF Steps
      <4>2. LET s == [session[c] EXCEPT !.step = "verify"]
            IN  s.op = "store" /\ s.step = "verify" /\ s.key = k
        BY <1>1, <1>6 DEF Request, PutObject, In
      <4> QED BY <4>1, <4>2, <1>2
    <3> QED BY <3>1, <1>6 DEF PutObject, Ends
  <2>5. UNCHANGED <<known, condemned>>
    BY <1>6 DEF PutObject, Told
  <2>6. bucket'[k] \in Artifact \/ session'[c] = Quiet \/ session'[c].step # "staging"
    BY <2>4 DEF RemoteInv
  <2>7. ASSUME NEW d \in Clients, session'[d] # Quiet
        PROVE  /\ session'[d].op = "store" => session'[d].key \notin condemned
               /\ session'[d].op = "store" /\ session'[d].step = "staging"
                     => bucket'[session'[d].key] \in Artifact
               /\ session'[d].op = "delete" => session'[d].key \in condemned
    <3>1. CASE d = c
      BY <2>1, <2>4, <2>7, <3>1 DEF RemoteInv
    <3>2. CASE d # c
      <4>1. session'[d] = session[d] /\ session[d] \in Request
            /\ RequestIsSound(session[d])
        BY <2>4, <2>7, <3>2 DEF RemoteInv
      <4> QED BY <4>1, <2>3 DEF RequestIsSound, Request
    <3> QED BY <3>1, <3>2
  <2>8. session' \in [Clients -> Request \cup {Quiet}]
    BY <2>4 DEF RemoteInv
  <2>9. \A j \in known' \ condemned' : bucket'[j] \in Artifact
    <3> SUFFICES ASSUME NEW j \in known \ condemned PROVE bucket'[j] \in Artifact
      BY <2>5
    <3>1. bucket[j] \in Artifact
      BY DEF RemoteInv
    <3>2. CASE j \in Keys
      BY <3>1, <3>2, <2>3
    <3>3. CASE j \notin Keys
      BY <3>1, <3>3, <2>2 DEF RemoteInv
    <3> QED BY <3>2, <3>3
  <2> QED BY <2>3, <2>5, <2>7, <2>8, <2>9 DEF RemoteInv, RequestIsSound
<1>7. CASE UploadVerify(c, k)
  <2>1. CASE Verified(k)
    <3>1. RequestIsSound([session[c] EXCEPT !.step = "staging"])
      BY <1>1, <1>7, <2>1 DEF RequestIsSound, Request, UploadVerify, In, Verified, Artifact
    <3> QED BY <1>2, <1>7, <2>1, <3>1, SessionSteps DEF UploadVerify, Steps
  <2> QED BY <1>7, <2>1, <1>4 DEF UploadVerify
<1>8. CASE UploadReply(c, k)
  BY <1>1, <1>8, <1>4 DEF UploadReply, In, RequestIsSound
<1> QED BY <1>5, <1>6, <1>7, <1>8 DEF Upload

LEMMA RemoteErase ==
    ASSUME RemoteInv, NEW c \in Clients, Erase(c) PROVE RemoteInv'
<1> DEFINE k == session[c].key
<1>1. session[c] # Quiet /\ session[c] \in Request /\ k \in Keys
      /\ RequestIsSound(session[c])
  BY DEF Erase, RemoteInv, Request
<1>2. CASE DeleteObject(c, k)
  <2>1. k \in condemned
    BY <1>1, <1>2 DEF DeleteObject, In, RequestIsSound
  <2>2. PICK left \in {bucket[k], "none"} : bucket' = [bucket EXCEPT ![k] = left]
    BY <1>1, <1>2 DEF DeleteObject, RemoteInv
  <2>3. bucket' \in [Keys -> Contents] /\ \A j \in Keys \ {k} : bucket'[j] = bucket[j]
    BY <2>2, <1>1 DEF RemoteInv, Contents
  <2>4. PICK s \in Request \cup {Quiet} :
          /\ session' = [session EXCEPT ![c] = s]
          /\ s # Quiet => s.op = "delete" /\ s.key = k
    <3>1. CASE Steps(c, "confirm")
      <4>1. session' = [session EXCEPT ![c] = [session[c] EXCEPT !.step = "confirm"]]
        BY <3>1 DEF Steps
      <4>2. LET s == [session[c] EXCEPT !.step = "confirm"]
            IN  s \in Request /\ s.op = "delete" /\ s.key = k
        BY <1>1, <1>2 DEF Request, DeleteObject, In
      <4> QED BY <4>1, <4>2
    <3> QED BY <3>1, <1>2 DEF DeleteObject, Ends
  <2>5. UNCHANGED <<known, condemned>>
    BY <1>2 DEF DeleteObject, Told
  <2>6. ASSUME NEW d \in Clients, session'[d] # Quiet
        PROVE  /\ session'[d].op = "store" => session'[d].key \notin condemned
               /\ session'[d].op = "store" /\ session'[d].step = "staging"
                     => bucket'[session'[d].key] \in Artifact
               /\ session'[d].op = "delete" => session'[d].key \in condemned
    <3>1. CASE d = c
      BY <2>1, <2>4, <2>6, <3>1 DEF RemoteInv
    <3>2. CASE d # c
      <4>1. session'[d] = session[d] /\ session[d] \in Request
            /\ RequestIsSound(session[d])
        BY <2>4, <2>6, <3>2 DEF RemoteInv
      <4> QED BY <4>1, <2>1, <2>3 DEF RequestIsSound, Request
    <3> QED BY <3>1, <3>2
  <2>7. session' \in [Clients -> Request \cup {Quiet}]
    BY <2>4 DEF RemoteInv
  <2>8. \A j \in known' \ condemned' : bucket'[j] \in Artifact
    <3> SUFFICES ASSUME NEW j \in known \ condemned PROVE bucket'[j] \in Artifact
      BY <2>5
    <3>1. bucket[j] \in Artifact /\ j # k
      BY <2>1 DEF RemoteInv
    <3> QED BY <3>1, <2>2, <1>1 DEF RemoteInv
  <2> QED BY <2>3, <2>5, <2>6, <2>7, <2>8 DEF RemoteInv, RequestIsSound
<1>3. CASE ConfirmErased(c, k)
  BY <1>3, SessionSteps DEF ConfirmErased, Ends
<1> QED BY <1>2, <1>3 DEF Erase

LEMMA RemoteFetch ==
    ASSUME RemoteInv, NEW c \in Clients, Fetch(c) PROVE RemoteInv'
<1>1. session[c] # Quiet /\ session[c] \in Request /\ session[c].op = "read"
      /\ bucket[session[c].key] \in Contents
  BY DEF Fetch, RemoteInv, Request, In
<1>2. PICK t \in {"close", "good"}, g \in Contents \cup {session[c].got} :
        \/ session' = [session EXCEPT ![c] = [session[c] EXCEPT !.step = t, !.got = g]]
        \/ session' = [session EXCEPT ![c] = Quiet]
  <2>1. CASE Ends(c)
    BY <2>1 DEF Ends
  <2>2. CASE Steps(c, "good")
    <3>1. session' = [session EXCEPT ![c] = [session[c] EXCEPT !.step = "good",
                                                 !.got = session[c].got]]
      BY <2>2, <1>1 DEF Steps, Request
    <3> QED BY <3>1
  <2>3. CASE session' = [session EXCEPT ![c].step = "close",
                                        ![c].got = bucket[session[c].key]]
    <3>1. session' = [session EXCEPT ![c] = [session[c] EXCEPT !.step = "close",
                                                 !.got = bucket[session[c].key]]]
      BY <2>3, <1>1 DEF RemoteInv
    <3> QED BY <3>1, <1>1
  <2> QED BY <2>1, <2>2, <2>3 DEF Fetch
<1>3. UNCHANGED <<bucket, condemned, known>>
  BY DEF Fetch, Told
<1>4. [session[c] EXCEPT !.step = t, !.got = g] \in Request
      /\ [session[c] EXCEPT !.step = t, !.got = g].op = "read"
  BY <1>1 DEF Request
<1> QED BY <1>2, <1>3, <1>4, SessionSteps DEF RequestIsSound

LEMMA RemoteOthers ==
    ASSUME RemoteInv, NEW c \in Clients, NEW k \in Keys,
           BeginUpload(c, k) \/ BeginErase(c, k) \/ BeginFetch(c, k)
    PROVE  RemoteInv'
<1>1. CASE BeginErase(c, k)
  <2>1. PICK s \in Request : /\ session' = [session EXCEPT ![c] = s]
                             /\ s.op = "delete" /\ s.key = k
    <3> DEFINE s == [op |-> "delete", key |-> k, step |-> "delete", got |-> "none"]
    <3>1. s \in Request
      BY DEF Request, Contents
    <3> QED BY <3>1, <1>1 DEF BeginErase, Opens
  <2>2. ASSUME NEW d \in Clients, session'[d] # Quiet
        PROVE  session'[d].op # "store" /\ (session'[d].op = "delete"
                                              => session'[d].key \in condemned')
    <3>1. CASE d = c
      BY <1>1, <2>1, <3>1 DEF RemoteInv, BeginErase
    <3>2. CASE d # c
      BY <1>1, <2>1, <2>2, <3>2 DEF RemoteInv, BeginErase, RequestIsSound
    <3> QED BY <3>1, <3>2
  <2>3. session' \in [Clients -> Request \cup {Quiet}]
    BY <2>1 DEF RemoteInv
  <2> QED BY <1>1, <2>2, <2>3 DEF RemoteInv, BeginErase, RequestIsSound
<1>2. CASE BeginUpload(c, k)
  <2> DEFINE s == [op |-> "store", key |-> k, step |-> "head", got |-> "none"]
  <2>1. s \in Request /\ RequestIsSound(s)
    BY <1>2 DEF Request, Contents, RequestIsSound, BeginUpload
  <2> QED BY <1>2, <2>1, SessionSteps DEF BeginUpload, Opens, Told
<1>3. CASE BeginFetch(c, k)
  <2> DEFINE s == [op |-> "read", key |-> k, step |-> "get", got |-> "none"]
  <2>1. s \in Request /\ RequestIsSound(s)
    BY <1>3 DEF Request, Contents, RequestIsSound
  <2> QED BY <1>3, <2>1, SessionSteps DEF BeginFetch, Opens, Told
<1> QED BY <1>1, <1>2, <1>3

LEMMA RemoteStep == RemoteInv /\ [RemoteNext]_remoteVars => RemoteInv'
<1> SUFFICES ASSUME RemoteInv, [RemoteNext]_remoteVars PROVE RemoteInv'
  OBVIOUS
<1>1. ASSUME NEW k \in Keys, Rots(k) PROVE RemoteInv'
  <2>1. bucket' \in [Keys -> Contents]
        /\ \A j : bucket[j] \in Artifact => bucket'[j] \in Artifact
    BY <1>1 DEF Rots, RemoteInv, Contents, Artifact
  <2> QED BY <1>1, <2>1 DEF Rots, RemoteInv, RequestIsSound, Told
<1>2. ASSUME NEW k \in Keys, Prove(k) PROVE RemoteInv'
  BY <1>2 DEF Prove, RemoteInv, RequestIsSound
<1>3. CASE LosesMemory
  BY <1>3 DEF LosesMemory, RemoteInv
<1>4. CASE UNCHANGED remoteVars
  BY <1>4 DEF remoteVars, RemoteInv, RequestIsSound
<1> QED BY <1>1, <1>2, <1>3, <1>4, RemoteUpload, RemoteErase, RemoteFetch, RemoteOthers
        DEF RemoteNext

(* Whatever requests fail halfway and are repeated, and however often the   *)
(* process restarts, every step of the bucket is one the contract of a      *)
(* durable store allows, or leaves what the contract speaks of as it is.    *)
THEOREM BucketKeepsPromises == RemoteSpec => RemoteKeepsPromises
<1> DEFINE Kind(v) == CASE v = "none" -> "absent" [] v = "other" -> "partial"
                        [] OTHER -> "whole"
           KindOf == [k \in Keys |-> Kind(bucket[k])]
           Step == [Remote!ContractNext]_(Remote!contractVars)
<1>1. ASSUME UNCHANGED bucket, UNCHANGED <<known, condemned, erased>> PROVE Step
  BY <1>1 DEF Remote!contractVars
<1>2. ASSUME NEW k \in Keys, NEW v, bucket' = [bucket EXCEPT ![k] = v], RemoteInv,
             UNCHANGED <<known, condemned, erased>>,
             \/ Kind(v) = Kind(bucket[k])
             \/ v = "whole" /\ k \notin known \cup condemned
             \/ v = "none" /\ k \in condemned
      PROVE  Step
  <2>1. KindOf' = [KindOf EXCEPT ![k] = Kind(v)]
    BY <1>2 DEF RemoteInv
  <2>2. CASE Kind(v) = Kind(bucket[k])
    <3>1. KindOf' = KindOf
      BY <2>1, <2>2
    <3> QED BY <3>1, <1>2 DEF Remote!contractVars
  <2>3. CASE v = "whole" /\ k \notin known \cup condemned
    <3>1. Kind(v) = "whole"
      BY <2>3
    <3>2. Remote!Grow(k)
      BY <2>1, <2>3, <3>1, <1>2 DEF Remote!Grow, Remote!Becomes
    <3> QED BY <3>2 DEF Remote!ContractNext
  <2>4. CASE v = "none" /\ k \in condemned /\ bucket[k] # "none"
    <3>1. Kind(v) = "absent" /\ KindOf[k] # "absent"
      BY <2>4
    <3>2. Remote!Withdraw(k)
      BY <2>1, <2>4, <3>1, <1>2 DEF Remote!Withdraw, Remote!Becomes
    <3> QED BY <3>2 DEF Remote!ContractNext
  <2> QED BY <1>2, <2>2, <2>3, <2>4
<1>3. ASSUME RemoteInv, NEW c \in Clients, Upload(c) PROVE Step
  <2> DEFINE k == session[c].key
  <2>1. k \in Keys /\ RequestIsSound(session[c]) /\ bucket[k] \in Contents
    BY <1>3 DEF Upload, RemoteInv, Request
  <2>2. CASE UploadHead(c, k) \/ UploadVerify(c, k)
    BY <2>2, <1>1 DEF UploadHead, UploadVerify, Told
  <2>3. CASE PutObject(c, k)
    <3>1. k \notin condemned /\ (k \in known => bucket[k] \in Artifact)
      BY <2>1, <2>3, <1>3 DEF PutObject, In, RequestIsSound, RemoteInv
    <3>2. k \in known => Kind("whole") = Kind(bucket[k])
      BY <3>1 DEF Artifact
    <3>3. PICK left \in {bucket[k], "whole"} : bucket' = [bucket EXCEPT ![k] = left]
      BY <1>3, <2>1, <2>3 DEF PutObject, RemoteInv
    <3>4. UNCHANGED <<known, condemned, erased>>
      BY <2>3 DEF PutObject, Told
    <3>5. \/ Kind(left) = Kind(bucket[k])
          \/ left = "whole" /\ k \notin known \cup condemned
      BY <3>1, <3>2
    <3> HIDE DEF k, Kind, Step, KindOf
    <3> QED BY <3>3, <3>4, <3>5, <1>2, <1>3, <2>1
  <2>4. CASE UploadReply(c, k)
    <3>1. bucket[k] \in Artifact /\ UNCHANGED KindOf
      BY <2>1, <2>4 DEF UploadReply, In, RequestIsSound
    <3>2. KindOf[k] = "whole"
      BY <2>1, <3>1 DEF Artifact
    <3>3. Remote!Promise(k)
      BY <2>4, <3>1, <3>2 DEF Remote!Promise, UploadReply
    <3> QED BY <2>1, <3>3 DEF Remote!ContractNext
  <2> QED BY <1>3, <2>2, <2>3, <2>4 DEF Upload
<1>4. ASSUME RemoteInv, NEW c \in Clients, Erase(c) PROVE Step
  <2> DEFINE k == session[c].key
  <2>1. k \in Keys /\ RequestIsSound(session[c]) /\ bucket[k] \in Contents
    BY <1>4 DEF Erase, RemoteInv, Request
  <2>2. CASE DeleteObject(c, k)
    <3>1. k \in condemned
      BY <2>1, <2>2 DEF DeleteObject, In, RequestIsSound
    <3>2. PICK left \in {bucket[k], "none"} : bucket' = [bucket EXCEPT ![k] = left]
      BY <1>4, <2>1, <2>2 DEF DeleteObject, RemoteInv
    <3>3. UNCHANGED <<known, condemned, erased>>
      BY <2>2 DEF DeleteObject, Told
    <3>4. Kind(left) = Kind(bucket[k]) \/ (left = "none" /\ k \in condemned)
      BY <3>1
    <3> HIDE DEF k, Kind, Step, KindOf
    <3> QED BY <3>2, <3>3, <3>4, <1>2, <1>4, <2>1
  <2>3. CASE ConfirmErased(c, k) /\ bucket[k] = "none"
    <3>1. session[c].op = "delete" /\ KindOf[k] = "absent" /\ UNCHANGED KindOf
      BY <2>1, <2>3 DEF ConfirmErased, In
    <3>2. Remote!ConfirmGone(k)
      BY <2>1, <2>3, <3>1 DEF Remote!ConfirmGone, ConfirmErased, RequestIsSound
    <3> QED BY <2>1, <3>2 DEF Remote!ContractNext
  <2>4. CASE ConfirmErased(c, k) /\ bucket[k] # "none"
    BY <2>4, <1>1 DEF ConfirmErased
  <2> QED BY <1>4, <2>2, <2>3, <2>4 DEF Erase
<1>5. ASSUME RemoteInv, NEW c \in Clients, NEW k \in Keys, BeginErase(c, k) PROVE Step
  <2>1. Remote!Ask(k)
    BY <1>5 DEF Remote!Ask, BeginErase
  <2> QED BY <1>5, <2>1 DEF Remote!ContractNext
<1>6. ASSUME RemoteInv, NEW k \in Keys, Rots(k) PROVE Step
  <2>1. Kind("odd") = Kind(bucket[k])
    BY <1>6 DEF Rots
  <2>2. bucket' = [bucket EXCEPT ![k] = "odd"] /\ UNCHANGED <<known, condemned, erased>>
    BY <1>6 DEF Rots, Told
  <2> HIDE DEF Kind, Step, KindOf
  <2> QED BY <2>1, <2>2, <1>2, <1>6
<1>7. RemoteInv /\ [RemoteNext]_remoteVars => Step
  <2> SUFFICES ASSUME RemoteInv, [RemoteNext]_remoteVars PROVE Step
    OBVIOUS
  <2>1. CASE \E c \in Clients : Fetch(c) \/ \E k \in Keys : BeginUpload(c, k) \/ BeginFetch(c, k)
    BY <2>1, <1>1 DEF Fetch, BeginUpload, BeginFetch, Told
  <2>2. CASE (\E k \in Keys : Prove(k)) \/ LosesMemory \/ UNCHANGED remoteVars
    BY <2>2, <1>1 DEF Prove, LosesMemory, remoteVars
  <2> HIDE DEF Kind, Step, KindOf
  <2> QED BY <1>3, <1>4, <1>5, <1>6, <2>1, <2>2 DEF RemoteNext
<1> QED BY <1>7, RemoteInitially, RemoteStep, PTL DEF RemoteSpec, RemoteKeepsPromises

-----------------------------------------------------------------------------
(* The directories of the local store.  A thread that builds an object is   *)
(* alone with it, and where it is tells the names on disk; whoever deletes  *)
(* was asked to; and an object that was handed out is whole until then.     *)

Build == {"mkdir", "copy", "link", "drop", "register"}
DiskAt == [mkdir |-> {}, copy |-> {"dir"}, link |-> {"dir", "part"},
           drop |-> {"dir", "part", "file"}, register |-> Exact]
Evidences == {"none", "stored", "unlinked", "deleted"}
StoreTypeOK ==
    /\ disk \in [Objects -> SUBSET {"dir", "part", "file"}]
    /\ bytes \in [Objects -> {"none", "whole", "odd"}]
    /\ evidence \in [Objects -> Evidences]
    /\ call \in [Threads -> Call \cup {NoCall}]
    /\ told \subseteq Objects /\ asked \subseteq told /\ attested \subseteq told
    /\ faults \in Nat

ObjectIsSound(o) ==
    /\ o \in told => disk[o] \subseteq Exact
    /\ o \in told \ asked => disk[o] = Exact
    /\ disk[o] # {} => "dir" \in disk[o]

Builds(c) == c.op = "store" /\ c.step \in Build \cup {"undo"}
CallIsSound(c) ==
    /\ Builds(c) => c.of \notin told /\ evidence[c.of] = "none"
    /\ c.op = "store" /\ c.step \in Build => disk[c.of] = DiskAt[c.step]
    /\ c.op = "store" /\ c.step = "staging" /\ c.of \notin asked => disk[c.of] = Exact
    /\ c.op = "delete" => c.of \in asked
    /\ c.op = "delete" /\ c.step \in {"unlink", "mark"} => c.seen = "stored"
    /\ c.op = "delete" /\ c.step \in {"rmdir", "forget"} => c.seen = "unlinked"
    /\ c.op = "delete" /\ c.step \in {"mark", "rmdir", "forget"} => "file" \notin disk[c.of]
    /\ c.op = "delete" /\ c.step = "forget" => disk[c.of] = {}
    /\ c.op = "read" => c.of \in told \/ evidence[c.of] # "none"
    /\ c.op = "read" /\ c.step = "close" /\ bytes[c.of] = "whole" => c.seen = "whole"
    /\ c.op = "read" /\ c.step = "good" => c.seen = "whole"

\* One store call for an object.
OneStoreEach == \A v, w \in Threads :
    v # w /\ call[v] # NoCall /\ call[w] # NoCall
    /\ call[v].op = "store" /\ call[w].op = "store" => call[v].of # call[w].of

StoreInv == /\ StoreTypeOK /\ OneStoreEach
            /\ \A o \in Objects : ObjectIsSound(o)
            /\ \A w \in Threads : call[w] # NoCall => CallIsSound(call[w])

\* Without a fault, a thread works on everything that is not registered.
Works(c) == Builds(c) \/ (c.op = "delete" /\ c.step = "rmdir")
NothingForgotten == faults = 0 => \A o \in Objects :
    disk[o] # {} /\ evidence[o] # "stored"
    => \E w \in Threads : call[w] # NoCall /\ call[w].of = o /\ Works(call[w])

OneEach == \A o, p \in Objects :
    Of[o] = Of[p] /\ evidence[o] \in Registered /\ evidence[p] \in Registered => o = p

-----------------------------------------------------------------------------
(* A thread's step that changes its call and perhaps what it was told.      *)
LEMMA CallFrame ==
    ASSUME StoreInv, NEW w \in Threads, NEW c \in Call \cup {NoCall},
           call' = [call EXCEPT ![w] = c],
           UNCHANGED <<disk, bytes, evidence>>,
           told \subseteq told', told' \subseteq Objects,
           \A o \in told' \ told :
              /\ disk[o] = Exact
              /\ \A v \in Threads \ {w} : call[v] # NoCall /\ call[v].of = o => ~Builds(call[v]),
           asked \subseteq asked', asked' \subseteq told', attested' \subseteq told',
           faults' \in Nat,
           c # NoCall => CallIsSound(c)',
           c # NoCall => \/ c.op # "store" \/ c.of \notin InUse
                         \/ call[w] # NoCall /\ call[w].op = "store" /\ c.of = call[w].of
    PROVE  StoreInv'
<1>1. StoreTypeOK'
  BY DEF StoreInv, StoreTypeOK
<1>2. OneStoreEach'
  <2> SUFFICES ASSUME NEW u \in Threads, NEW v \in Threads, u # v,
                      call'[u] # NoCall, call'[v] # NoCall,
                      call'[u].op = "store", call'[v].op = "store"
               PROVE  call'[u].of # call'[v].of
    BY DEF OneStoreEach
  <2>1. \A x \in Threads : call'[x] = IF x = w THEN c ELSE call[x]
    BY DEF StoreInv, StoreTypeOK
  <2>2. \A x \in Threads : call[x] # NoCall => call[x].of \in InUse
    BY DEF InUse
  <2> QED BY <2>1, <2>2 DEF StoreInv, OneStoreEach
<1>3. ASSUME NEW o \in Objects PROVE ObjectIsSound(o)'
  BY DEF StoreInv, ObjectIsSound, Exact
<1>4. ASSUME NEW v \in Threads, call'[v] # NoCall PROVE CallIsSound(call[v])'
  <2>1. CASE v = w
    <3>1. call'[v] = c
      BY <2>1 DEF StoreInv, StoreTypeOK
    <3> QED BY <3>1, <1>4 DEF CallIsSound
  <2>2. CASE v # w
    <3>1. call'[v] = call[v] /\ call[v] \in Call /\ CallIsSound(call[v])
      BY <2>2, <1>4 DEF StoreInv, StoreTypeOK
    <3>2. Builds(call[v]) => call[v].of \notin told'
      BY <3>1, <2>2, <1>4 DEF CallIsSound
    <3> QED BY <3>1, <3>2 DEF CallIsSound, Builds
  <2> QED BY <2>1, <2>2
<1> QED BY <1>1, <1>2, <1>3, <1>4 DEF StoreInv

(* A thread's step on the object it builds or deletes.                      *)
LEMMA WorkFrame ==
    ASSUME StoreInv, NEW w \in Threads, NEW c \in Call \cup {NoCall}, NEW o \in Objects,
           NEW d \in SUBSET {"dir", "part", "file"}, NEW y \in {"none", "whole", "odd"},
           NEW e \in Evidences,
           call[w] # NoCall, call[w].of = o,
           call' = [call EXCEPT ![w] = c],
           disk' = [disk EXCEPT ![o] = d], bytes' = [bytes EXCEPT ![o] = y],
           evidence' = [evidence EXCEPT ![o] = e],
           UNCHANGED <<told, asked, attested>>, faults' \in Nat,
           d # {} => "dir" \in d,
           c # NoCall => CallIsSound(c)' /\ c.of = o /\ c.op = call[w].op,
           \/ Builds(call[w])
           \/ /\ o \in asked /\ d \subseteq disk[o] /\ bytes[o] = y
              /\ evidence[o] # "none" => e # "none"
    PROVE  StoreInv'
<1>0. CallIsSound(call[w]) /\ call[w] \in Call /\ ObjectIsSound(o)
  BY DEF StoreInv, StoreTypeOK
<1>1. StoreTypeOK'
  BY DEF StoreInv, StoreTypeOK
<1>2. OneStoreEach'
  <2> SUFFICES ASSUME NEW u \in Threads, NEW v \in Threads, u # v,
                      call'[u] # NoCall, call'[v] # NoCall,
                      call'[u].op = "store", call'[v].op = "store"
               PROVE  call'[u].of # call'[v].of
    BY DEF OneStoreEach
  <2>1. \A x \in Threads : call'[x] = IF x = w THEN c ELSE call[x]
    BY DEF StoreInv, StoreTypeOK
  <2> QED BY <2>1 DEF StoreInv, OneStoreEach
<1>3. ASSUME NEW p \in Objects PROVE ObjectIsSound(p)'
  <2>1. CASE p = o
    BY <1>0, <2>1 DEF StoreInv, StoreTypeOK, ObjectIsSound, CallIsSound
  <2>2. CASE p # o
    <3>1. disk'[p] = disk[p] /\ ObjectIsSound(p)
      BY <2>2 DEF StoreInv, StoreTypeOK
    <3> QED BY <3>1 DEF ObjectIsSound
  <2> QED BY <2>1, <2>2
<1>4. ASSUME NEW v \in Threads, call'[v] # NoCall PROVE CallIsSound(call[v])'
  <2>1. CASE v = w
    <3>1. call'[v] = c
      BY <2>1 DEF StoreInv, StoreTypeOK
    <3> QED BY <3>1, <1>4 DEF CallIsSound
  <2>2. CASE v # w
    <3>1. call'[v] = call[v] /\ call[v] \in Call /\ CallIsSound(call[v])
      BY <2>2, <1>4 DEF StoreInv, StoreTypeOK
    <3>2. CASE call[v].of # o
      <4>1. /\ disk'[call[v].of] = disk[call[v].of] /\ bytes'[call[v].of] = bytes[call[v].of]
            /\ evidence'[call[v].of] = evidence[call[v].of]
        BY <3>1, <3>2 DEF StoreInv, StoreTypeOK, Call
      <4> QED BY <3>1, <4>1 DEF CallIsSound, Builds
    <3>3. CASE call[v].of = o
      <4>1. o \in asked /\ d \subseteq disk[o] /\ bytes[o] = y
            /\ (evidence[o] # "none" => e # "none")
        <5>1. ~ Builds(call[w])
          <6> SUFFICES ASSUME Builds(call[w]) PROVE FALSE
            OBVIOUS
          <6>1. o \notin told /\ evidence[o] = "none"
            BY <1>0 DEF CallIsSound
          <6>2. call[v].op \notin {"delete", "read"}
            BY <3>1, <3>3, <6>1 DEF CallIsSound, StoreInv, StoreTypeOK
          <6> QED BY <6>2, <3>1, <3>3, <2>2, <1>4 DEF Call, StoreInv, OneStoreEach, Builds
        <5> QED BY <5>1
      <4>2. disk'[o] = d /\ bytes'[o] = y /\ evidence'[o] = e
        BY DEF StoreInv, StoreTypeOK
      <4>3. o \in told
        BY <4>1 DEF StoreInv, StoreTypeOK
      <4>4. ~ Builds(call[v])
        BY <3>1, <3>3, <4>3 DEF CallIsSound
      <4> QED BY <3>1, <3>3, <4>1, <4>2, <4>3, <4>4 DEF CallIsSound, Builds
    <3> QED BY <3>2, <3>3
  <2> QED BY <2>1, <2>2
<1> QED BY <1>1, <1>2, <1>3, <1>4 DEF StoreInv

\* What a thread knows of its call.
LEMMA Caller ==
    ASSUME StoreInv, NEW w \in Threads, call[w] # NoCall
    PROVE  /\ call[w] \in Call /\ call[w].of \in Objects /\ CallIsSound(call[w])
           /\ ObjectIsSound(call[w].of)
           /\ disk[call[w].of] \in SUBSET {"dir", "part", "file"}
           /\ bytes[call[w].of] \in {"none", "whole", "odd"}
           /\ evidence[call[w].of] \in Evidences
           /\ disk = [disk EXCEPT ![call[w].of] = disk[call[w].of]]
           /\ bytes = [bytes EXCEPT ![call[w].of] = bytes[call[w].of]]
           /\ evidence = [evidence EXCEPT ![call[w].of] = evidence[call[w].of]]
  BY DEF StoreInv, StoreTypeOK, Call

\* A call that goes on to another step.
LEMMA GoesTo ==
    ASSUME StoreInv, NEW w \in Threads, call[w] # NoCall,
           NEW t \in Build \cup {"undo", "staging", "mark", "forget", "deleted", "refused",
                                 "good"},
           Go(w, t)
    PROVE  \E c \in Call : /\ call' = [call EXCEPT ![w] = c]
                           /\ c.op = call[w].op /\ c.of = call[w].of /\ c.step = t
                           /\ c.seen = call[w].seen
<1> DEFINE c == [call[w] EXCEPT !.step = t]
<1>1. call' = [call EXCEPT ![w] = c]
  BY DEF Go
<1>2. c \in Call /\ c.op = call[w].op /\ c.of = call[w].of /\ c.step = t
      /\ c.seen = call[w].seen
  BY Caller DEF Call, Build
<1> QED BY <1>1, <1>2

\* An object that is built.
LEMMA BuildTo ==
    ASSUME StoreInv, NEW w \in Threads, call[w] # NoCall, Builds(call[w]),
           NEW t \in Build \cup {"undo", "staging"}, Go(w, t),
           NEW d \in SUBSET {"dir", "part", "file"}, NEW y \in {"none", "whole", "odd"},
           NEW e \in Evidences,
           disk' = [disk EXCEPT ![call[w].of] = d], bytes' = [bytes EXCEPT ![call[w].of] = y],
           evidence' = [evidence EXCEPT ![call[w].of] = e],
           UNCHANGED <<told, asked, attested>>, faults' \in Nat,
           d # {} => "dir" \in d,
           t # "staging" => e = "none",
           t \in Build => d = DiskAt[t],
           t = "staging" => d = Exact
    PROVE  StoreInv'
<1> DEFINE o == call[w].of
<1>1. PICK c \in Call : /\ call' = [call EXCEPT ![w] = c]
                        /\ c.op = call[w].op /\ c.of = o /\ c.step = t
                        /\ c.seen = call[w].seen
  BY GoesTo
<1>2. c.op = "store" /\ o \in Objects /\ o \notin told
  BY <1>1, Caller DEF Builds, CallIsSound
<1>3. disk'[o] = d /\ evidence'[o] = e
  BY <1>2 DEF StoreInv, StoreTypeOK
<1>4. CallIsSound(c)'
  BY <1>1, <1>2, <1>3 DEF CallIsSound, Builds, Build
<1> HIDE DEF o
<1> QED BY <1>1, <1>2, <1>4, WorkFrame DEF o

LEMMA BuildSteps ==
    ASSUME StoreInv, NEW w \in Threads, StoreBuild(w) PROVE StoreInv'
<1> DEFINE o == call[w].of
<1>1. call[w] # NoCall
  BY DEF StoreBuild
<1>2. Builds(call[w])
  BY DEF StoreBuild, StoreDirectory, StoreCopy, StoreLink, StoreDrop, StoreRegister,
         Calling, Builds, Build
<1>3. /\ o \in Objects /\ o \notin told /\ evidence[o] = "none"
      /\ call[w].step \in Build => disk[o] = DiskAt[call[w].step]
  BY <1>1, <1>2, Caller DEF CallIsSound, Builds
<1>4. /\ disk = [disk EXCEPT ![o] = disk[o]] /\ bytes = [bytes EXCEPT ![o] = bytes[o]]
      /\ evidence = [evidence EXCEPT ![o] = evidence[o]]
      /\ disk[o] \in SUBSET {"dir", "part", "file"} /\ bytes[o] \in {"none", "whole", "odd"}
      /\ evidence[o] \in Evidences /\ ObjectIsSound(o)
  BY <1>1, Caller
<1>5. UNCHANGED <<told, asked, attested, faults>> /\ faults' \in Nat
  BY DEF StoreBuild, Replies, Rest, NoFault, StoreInv, StoreTypeOK
<1>0. bytes[o] \in {"none", "whole", "odd"} /\ "none" \in Evidences /\ "stored" \in Evidences
      /\ "undo" \notin Build /\ "staging" \notin Build /\ "undo" # "staging"
  BY <1>4 DEF Evidences, Build
<1>a. ASSUME NEW t \in Build, Go(w, t), disk' = [disk EXCEPT ![o] = DiskAt[t]],
             NEW y \in {"none", "whole", "odd"}, bytes' = [bytes EXCEPT ![o] = y],
             evidence' = evidence
      PROVE  StoreInv'
  <2>1. DiskAt[t] \in SUBSET {"dir", "part", "file"} /\ (DiskAt[t] # {} => "dir" \in DiskAt[t])
        /\ t # "staging"
    BY DEF Build, DiskAt, Exact
  <2>2. evidence' = [evidence EXCEPT ![o] = "none"] /\ "none" \in Evidences
    BY <1>a, <1>3, <1>4 DEF Evidences
  <2> HIDE DEF o
  <2> QED BY <1>1, <1>2, <1>5, <1>a, <2>1, <2>2, BuildTo DEF o
<1>b. ASSUME NEW d \in SUBSET {"dir", "part", "file"}, disk' = [disk EXCEPT ![o] = d],
             d # {} => "dir" \in d,
             UNCHANGED bytes, Go(w, "undo"), evidence' = evidence
      PROVE  StoreInv'
  <2>1. evidence' = [evidence EXCEPT ![o] = "none"] /\ "none" \in Evidences
    BY <1>b, <1>3, <1>4 DEF Evidences
  <2>2. "undo" \notin Build /\ bytes' = [bytes EXCEPT ![o] = bytes[o]]
    BY <1>b, <1>4 DEF Build
  <2> HIDE DEF o
  <2> QED BY <1>0, <1>1, <1>2, <1>5, <1>b, <2>1, <2>2, BuildTo DEF o
<1>6. CASE StoreDirectory(w, o)
  <2>1. disk' = [disk EXCEPT ![o] = {"dir"}] /\ Go(w, "copy") /\ UNCHANGED <<bytes, evidence>>
    BY <1>6 DEF StoreDirectory, Holding
  <2>2. "copy" \in Build /\ DiskAt["copy"] = {"dir"}
    BY DEF Build, DiskAt
  <2> QED BY <1>4, <2>1, <2>2, <1>a
<1>7. CASE StoreCopy(w, o)
  <2>1. disk' = [disk EXCEPT ![o] = {"dir", "part"}] /\ UNCHANGED evidence
        /\ \/ bytes' = [bytes EXCEPT ![o] = "whole"] /\ Go(w, "link")
           \/ bytes' = [bytes EXCEPT ![o] = bytes[o]] /\ Go(w, "undo")
    BY <1>4, <1>7 DEF StoreCopy, Holding
  <2>2. "link" \in Build /\ DiskAt["link"] = {"dir", "part"} /\ "undo" \notin Build
    BY DEF Build, DiskAt
  <2>3. CASE bytes' = [bytes EXCEPT ![o] = "whole"] /\ Go(w, "link")
    BY <2>1, <2>2, <2>3, <1>a
  <2>4. CASE bytes' = [bytes EXCEPT ![o] = bytes[o]] /\ Go(w, "undo")
    BY <1>4, <2>1, <2>2, <2>4, <1>b
  <2> QED BY <2>1, <2>3, <2>4
<1>8. CASE StoreLink(w, o)
  <2>1. disk[o] = {"dir", "part"}
    BY <1>3, <1>8 DEF StoreLink, Calling, Build, DiskAt
  <2>2. disk' = [disk EXCEPT ![o] = {"dir", "part", "file"}] /\ Go(w, "drop")
        /\ UNCHANGED <<bytes, evidence>>
    <3>1. disk[o] \cup {"file"} = {"dir", "part", "file"}
      BY <2>1
    <3> QED BY <1>8, <3>1 DEF StoreLink, Holding
  <2>3. "drop" \in Build /\ DiskAt["drop"] = {"dir", "part", "file"}
    BY DEF Build, DiskAt
  <2> QED BY <1>4, <2>2, <2>3, <1>a
<1>9. CASE StoreDrop(w, o)
  <2>1. disk[o] = {"dir", "part", "file"}
    BY <1>3, <1>9 DEF StoreDrop, Calling, Build, DiskAt
  <2>2. disk' = [disk EXCEPT ![o] = Exact] /\ Go(w, "register")
        /\ UNCHANGED <<bytes, evidence>>
    <3>1. disk[o] \ {"part"} = Exact
      BY <2>1 DEF Exact
    <3> QED BY <1>9, <3>1 DEF StoreDrop, Holding
  <2>3. "register" \in Build /\ DiskAt["register"] = Exact
        /\ Exact \in SUBSET {"dir", "part", "file"} /\ "dir" \in Exact
    BY DEF Build, DiskAt, Exact
  <2> QED BY <1>4, <2>2, <2>3, <1>a
<1>10. CASE StoreRegister(w, o)
  <2>2. \/ disk[o] = Exact /\ evidence' = [evidence EXCEPT ![o] = "stored"] /\ Go(w, "staging")
        \/ evidence' = evidence /\ Go(w, "undo")
    BY <1>10 DEF StoreRegister, Evidence, PathHolds
  <2>3. UNCHANGED <<disk, bytes>> /\ "staging" \notin Build /\ "undo" \notin Build
        /\ "stored" \in Evidences /\ (disk[o] # {} => "dir" \in disk[o])
    BY <1>10, <1>4 DEF StoreRegister, OnDisk, Build, Evidences, ObjectIsSound
  <2>4. CASE disk[o] = Exact /\ evidence' = [evidence EXCEPT ![o] = "stored"] /\ Go(w, "staging")
    <3>1. disk' = [disk EXCEPT ![o] = Exact] /\ bytes' = [bytes EXCEPT ![o] = bytes[o]]
          /\ Exact \in SUBSET {"dir", "part", "file"} /\ "dir" \in Exact
      BY <1>4, <2>3, <2>4 DEF Exact
    <3> HIDE DEF o
    <3> QED BY <1>0, <1>1, <1>2, <1>5, <2>4, <3>1, BuildTo DEF o
  <2>5. CASE evidence' = evidence /\ Go(w, "undo")
    BY <1>4, <2>3, <2>5, <1>b
  <2> QED BY <2>2, <2>4, <2>5
<1> QED BY <1>6, <1>7, <1>8, <1>9, <1>10 DEF StoreBuild

LEMMA UndoSteps ==
    ASSUME StoreInv, NEW w \in Threads, StoreUndo(w) PROVE StoreInv'
<1> DEFINE o == call[w].of
<1>1. call[w] # NoCall /\ Builds(call[w])
  BY DEF StoreUndo, Calling, Builds
<1>2. PICK d \in SUBSET {"dir", "part", "file"}, y \in {"none", "whole", "odd"} :
        /\ disk' = [disk EXCEPT ![o] = d] /\ bytes' = [bytes EXCEPT ![o] = y]
        /\ d # {} => "dir" \in d
  <2>1. CASE Holding(o, {}) /\ bytes' = [bytes EXCEPT ![o] = "none"]
    BY <2>1 DEF Holding
  <2>2. CASE UNCHANGED bytes /\ \E left \in {disk[o], {"dir"}} : Holding(o, left)
    BY <2>2, <1>1, Caller DEF Holding, ObjectIsSound
  <2> QED BY <2>1, <2>2 DEF StoreUndo
<1>3. UNCHANGED <<told, asked, attested, evidence>> /\ faults' \in Nat
      /\ call' = [call EXCEPT ![w] = NoCall]
  BY DEF StoreUndo, Replies, Rest, NoFault, Fault, Leave, StoreInv, StoreTypeOK
<1> HIDE DEF o
<1> QED BY <1>1, <1>2, <1>3, Caller, WorkFrame DEF o

\* A call that begins, goes on or ends while nothing else changes.
LEMMA CallOnly ==
    ASSUME StoreInv, NEW w \in Threads, NEW c \in Call \cup {NoCall},
           call' = [call EXCEPT ![w] = c],
           UNCHANGED <<disk, bytes, evidence, told, asked, attested>>, faults' \in Nat,
           c # NoCall => CallIsSound(c),
           c # NoCall => \/ c.op # "store" \/ c.of \notin InUse
                         \/ call[w] # NoCall /\ call[w].op = "store" /\ c.of = call[w].of
    PROVE  StoreInv'
<1>1. c # NoCall => CallIsSound(c)'
  BY DEF CallIsSound, Builds
<1>2. told' \subseteq Objects /\ asked' \subseteq told' /\ attested' \subseteq told'
      /\ told \subseteq told' /\ asked \subseteq asked' /\ told' \ told = {}
  BY DEF StoreInv, StoreTypeOK
<1> QED BY <1>1, <1>2, CallFrame

LEMMA StoreOthers ==
    ASSUME StoreInv, NEW w \in Threads,
           \/ StoreBreaks(w) \/ StoreReply(w)
           \/ \E b \in Backups : StoreAgain(w, b) \/ BeginStore(w, b)
    PROVE  StoreInv'
<1>0. told \subseteq Objects /\ asked \subseteq told /\ attested \subseteq told /\ faults \in Nat
  BY DEF StoreInv, StoreTypeOK
<1>1. CASE StoreBreaks(w)
  <2>1. call[w] # NoCall /\ Builds(call[w]) /\ Go(w, "undo")
    BY <1>1 DEF StoreBreaks, Calling, Builds, Build
  <2>2. PICK c \in Call : /\ call' = [call EXCEPT ![w] = c]
                          /\ c.op = call[w].op /\ c.of = call[w].of /\ c.step = "undo"
    BY <2>1, GoesTo
  <2>3. CallIsSound(c)
    BY <2>1, <2>2, Caller DEF CallIsSound, Builds, Build
  <2>4. UNCHANGED <<disk, bytes, evidence, told, asked, attested>> /\ faults' \in Nat
    BY <1>0, <1>1 DEF StoreBreaks, OnDisk, Replies, Rest, Fault
  <2>5. c.op = "store"
    BY <2>1, <2>2 DEF Builds
  <2> QED BY <2>1, <2>2, <2>3, <2>4, <2>5, CallOnly
<1>2. CASE StoreReply(w)
  <2> DEFINE o == call[w].of
  <2>1. call[w] # NoCall /\ call[w].op = "store" /\ call[w].step = "staging"
        /\ call' = [call EXCEPT ![w] = NoCall]
        /\ UNCHANGED <<disk, bytes, evidence, asked, attested>> /\ faults' \in Nat
        /\ told' \in {told, told \cup {o}}
    BY <1>0, <1>2 DEF StoreReply, Calling, Leave, OnDisk, NoFault, Fault
  <2>2. o \in Objects /\ (o \in told \/ disk[o] = Exact)
    BY <1>0, <2>1, Caller DEF CallIsSound
  <2>3. ASSUME NEW v \in Threads \ {w}, call[v] # NoCall, call[v].of = o
        PROVE  ~ Builds(call[v])
    BY <2>1, <2>3 DEF StoreInv, OneStoreEach, Builds
  <2>4. told \subseteq told' /\ told' \subseteq Objects /\ attested' \subseteq told'
        /\ asked \subseteq asked' /\ asked' \subseteq told'
    BY <1>0, <2>1, <2>2
  <2>5. \A p \in told' \ told : p = o /\ disk[p] = Exact
    BY <2>1, <2>2
  <2> HIDE DEF o
  <2> QED BY <2>1, <2>3, <2>4, <2>5, CallFrame
<1>3. ASSUME NEW b \in Backups, StoreAgain(w, b) PROVE StoreInv'
  <2>1. PICK o \in BySource(b) : told' = IF StoredHolds(o) THEN told \cup {o} ELSE told
    BY <1>3 DEF StoreAgain
  <2>2. call' = [call EXCEPT ![w] = NoCall] /\ faults' \in Nat
        /\ UNCHANGED <<disk, bytes, evidence, asked, attested>>
    BY <1>0, <1>3 DEF StoreAgain, OnDisk, Rest, StoreInv, StoreTypeOK
  <2>3. o \in Objects /\ (StoredHolds(o) => disk[o] = Exact /\ evidence[o] = "stored")
    BY DEF BySource, StoredHolds, PathHolds
  <2>4. ASSUME NEW v \in Threads \ {w}, call[v] # NoCall, call[v].of = o, StoredHolds(o)
        PROVE  ~ Builds(call[v])
    BY <2>3, <2>4 DEF StoreInv, CallIsSound
  <2>5. told \subseteq told' /\ told' \subseteq Objects /\ attested' \subseteq told'
        /\ asked \subseteq asked' /\ asked' \subseteq told'
        /\ \A p \in told' \ told : p = o /\ StoredHolds(o)
    BY <1>0, <2>1, <2>2, <2>3
  <2> QED BY <2>2, <2>3, <2>4, <2>5, CallFrame
<1>4. ASSUME NEW b \in Backups, BeginStore(w, b) PROVE StoreInv'
  <2>1. PICK o \in Objects : /\ o \notin InUse /\ o \notin asked
                             /\ disk[o] = {} /\ evidence[o] = "none"
                             /\ Enter(w, o, "store", "mkdir")
    BY <1>4 DEF BeginStore
  <2> DEFINE c == [op |-> "store", of |-> o, step |-> "mkdir", seen |-> evidence[o]]
  <2>2. c \in Call /\ call' = [call EXCEPT ![w] = c]
    BY <2>1 DEF Call, Enter, Build, Evidences
  <2>3. o \notin told
    BY <2>1 DEF StoreInv, ObjectIsSound, Exact
  <2>4. CallIsSound(c)
    BY <2>1, <2>3 DEF CallIsSound, Builds, Build, DiskAt
  <2>5. UNCHANGED <<disk, bytes, evidence, told, asked, attested>> /\ faults' \in Nat
    BY <1>0, <1>4 DEF BeginStore, OnDisk, Replies, Rest
  <2>6. c.of \notin InUse
    BY <2>1
  <2> HIDE DEF c
  <2> QED BY <2>2, <2>4, <2>5, <2>6, CallOnly
<1> QED BY <1>1, <1>2, <1>3, <1>4

LEMMA ReadSteps ==
    ASSUME StoreInv, NEW w \in Threads, ReadAll(w) \/ \E o \in Objects : BeginRead(w, o)
    PROVE  StoreInv'
<1>0. told \subseteq Objects /\ asked \subseteq told /\ attested \subseteq told /\ faults \in Nat
  BY DEF StoreInv, StoreTypeOK
<1>1. UNCHANGED <<disk, bytes, evidence, told, asked, attested>> /\ faults' \in Nat
  BY <1>0 DEF ReadAll, BeginRead, OnDisk, Replies, Rest
<1>2. CASE Leave(w)
  BY <1>1, <1>2, CallOnly DEF Leave
<1>3. ASSUME NEW o \in Objects, BeginRead(w, o) PROVE StoreInv'
  <2> DEFINE c == [op |-> "read", of |-> o, step |-> "open", seen |-> evidence[o]]
  <2>1. c \in Call /\ call' = [call EXCEPT ![w] = c]
    BY <1>3 DEF Call, BeginRead, Enter, StoreInv, StoreTypeOK, Evidences
  <2>2. CallIsSound(c)
    BY <1>0, <1>3 DEF CallIsSound, Builds, BeginRead, StoredHolds
  <2>3. c.op # "store"
    OBVIOUS
  <2> HIDE DEF c
  <2> QED BY <1>1, <2>1, <2>2, <2>3, CallOnly
<1>4. CASE Calling(w, "read", "open") /\ Saw(w, "close", bytes[call[w].of])
  <2> DEFINE c == [call[w] EXCEPT !.step = "close", !.seen = bytes[call[w].of]]
  <2>1. call[w] # NoCall /\ call[w] \in Call /\ CallIsSound(call[w])
        /\ bytes[call[w].of] \in {"none", "whole", "odd"}
    BY <1>4, Caller DEF Calling
  <2>2. c \in Call /\ call' = [call EXCEPT ![w] = c]
        /\ c.op = "read" /\ c.of = call[w].of /\ c.step = "close" /\ c.seen = bytes[call[w].of]
    BY <1>4, <2>1 DEF Call, Saw, Calling, Evidences, StoreInv, StoreTypeOK
  <2> HIDE DEF c
  <2>3. CallIsSound(c)
    BY <1>4, <2>1, <2>2 DEF CallIsSound, Builds, Calling
  <2> QED BY <1>1, <2>2, <2>3, CallOnly
<1>5. CASE Calling(w, "read", "close") /\ PathHolds(call[w].of) /\ Go(w, "good")
  <2>1. call[w] # NoCall /\ CallIsSound(call[w]) /\ call[w].op = "read"
        /\ bytes[call[w].of] = "whole" /\ call[w].step = "close"
    BY <1>5, Caller DEF Calling, PathHolds
  <2>2. PICK c \in Call : /\ call' = [call EXCEPT ![w] = c]
                          /\ c.op = call[w].op /\ c.of = call[w].of /\ c.step = "good"
                          /\ c.seen = call[w].seen
    BY <1>5, <2>1, GoesTo
  <2>3. CallIsSound(c)
    BY <2>1, <2>2 DEF CallIsSound, Builds
  <2> QED BY <1>1, <2>1, <2>2, <2>3, CallOnly
<1> QED BY <1>2, <1>3, <1>4, <1>5 DEF ReadAll

\* A call that deletes goes on with the object or gives up.
LEMMA DeleteTo ==
    ASSUME StoreInv, NEW w \in Threads, call[w] # NoCall, call[w].op = "delete",
           NEW c \in Call, call' = [call EXCEPT ![w] = c],
           c.op = "delete", c.of = call[w].of,
           NEW d \in SUBSET disk[call[w].of], NEW e \in Evidences,
           disk' = [disk EXCEPT ![call[w].of] = d],
           evidence' = [evidence EXCEPT ![call[w].of] = e],
           UNCHANGED <<bytes, told, asked, attested, faults>>,
           d # {} => "dir" \in d,
           evidence[call[w].of] # "none" => e # "none",
           c.step \in {"unlink", "mark"} => c.seen = "stored",
           c.step \in {"rmdir", "forget"} => c.seen = "unlinked",
           c.step \in {"mark", "rmdir", "forget"} => "file" \notin d,
           c.step = "forget" => d = {}
    PROVE  StoreInv'
<1> DEFINE o == call[w].of
<1>1. o \in Objects /\ o \in asked /\ d \in SUBSET {"dir", "part", "file"}
      /\ bytes[o] \in {"none", "whole", "odd"} /\ bytes' = [bytes EXCEPT ![o] = bytes[o]]
  BY Caller DEF CallIsSound
<1>2. CallIsSound(c)'
  BY <1>1 DEF CallIsSound, Builds, StoreInv, StoreTypeOK
<1>3. faults' \in Nat
  BY DEF StoreInv, StoreTypeOK
<1> HIDE DEF o
<1> QED BY <1>1, <1>2, <1>3, WorkFrame DEF o

LEMMA DeleteSteps ==
    ASSUME StoreInv, NEW w \in Threads, Delete(w) PROVE StoreInv'
<1> DEFINE o == call[w].of
<1>1. call[w] # NoCall /\ call[w].op = "delete"
      /\ UNCHANGED <<bytes, told, asked, attested, faults>>
  BY DEF Delete, Replies, Rest, NoFault, DeleteLook, DeleteUnlink, DeleteMark,
         DeleteDirectory, DeleteForget, Calling
<1>2. /\ call[w] \in Call /\ o \in Objects /\ o \in asked /\ CallIsSound(call[w])
      /\ disk[o] \subseteq Exact /\ (disk[o] # {} => "dir" \in disk[o])
      /\ evidence[o] \in Evidences
  BY <1>1, Caller DEF CallIsSound, ObjectIsSound, StoreInv, StoreTypeOK
<1>3. disk = [disk EXCEPT ![o] = disk[o]] /\ evidence = [evidence EXCEPT ![o] = evidence[o]]
  BY <1>1, Caller
<1>4. ASSUME UNCHANGED <<disk, evidence>>, NEW t \in {"mark", "forget", "deleted", "refused"},
             Go(w, t), t \notin {"mark", "forget"}
      PROVE  StoreInv'
  <2>1. PICK c \in Call : /\ call' = [call EXCEPT ![w] = c]
                          /\ c.op = call[w].op /\ c.of = o /\ c.step = t
                          /\ c.seen = call[w].seen
    BY <1>1, <1>4, GoesTo
  <2>2. disk' = [disk EXCEPT ![o] = disk[o]] /\ evidence' = [evidence EXCEPT ![o] = evidence[o]]
    BY <1>3, <1>4
  <2>3. c.step \notin {"unlink", "mark", "rmdir", "forget"}
    BY <1>4, <2>1
  <2> HIDE DEF o
  <2> QED BY <1>1, <1>2, <1>4, <2>1, <2>2, <2>3, DeleteTo DEF o
<1>5. CASE DeleteLook(w, o)
  <2>1. PICK t \in {"deleted", "unlink", "forget", "rmdir", "refused"} :
          /\ Saw(w, t, evidence[o])
          /\ t = "unlink" => evidence[o] = "stored"
          /\ t \in {"rmdir", "forget"} => evidence[o] = "unlinked"
          /\ t = "forget" => disk[o] = {}
          /\ t = "rmdir" => disk[o] = {"dir"}
    BY <1>5 DEF DeleteLook, StoredHolds
  <2> DEFINE c == [call[w] EXCEPT !.step = t, !.seen = evidence[o]]
  <2>2. c \in Call /\ call' = [call EXCEPT ![w] = c]
        /\ c.op = "delete" /\ c.of = o /\ c.step = t /\ c.seen = evidence[o]
    BY <1>1, <1>2, <2>1 DEF Call, Saw, Build, Evidences, StoreInv, StoreTypeOK
  <2>3. disk' = [disk EXCEPT ![o] = disk[o]] /\ evidence' = [evidence EXCEPT ![o] = evidence[o]]
    BY <1>3, <1>5 DEF DeleteLook
  <2> HIDE DEF o, c
  <2> QED BY <1>1, <1>2, <2>1, <2>2, <2>3, DeleteTo DEF o
<1>6. CASE DeleteUnlink(w, o)
  <2>1. PICK c \in Call : /\ call' = [call EXCEPT ![w] = c]
                          /\ c.op = call[w].op /\ c.of = o /\ c.step = "mark"
                          /\ c.seen = call[w].seen
    BY <1>1, <1>6, GoesTo DEF DeleteUnlink
  <2>2. c.seen = "stored"
    BY <1>1, <1>2, <1>6, <2>1 DEF DeleteUnlink, Calling, CallIsSound
  <2> DEFINE d == disk[o] \ {"file"}
  <2>3. disk' = [disk EXCEPT ![o] = d] /\ evidence' = [evidence EXCEPT ![o] = evidence[o]]
        /\ d \in SUBSET disk[o] /\ (d # {} => "dir" \in d) /\ "file" \notin d
    BY <1>2, <1>3, <1>6 DEF DeleteUnlink, Holding
  <2> HIDE DEF o, d
  <2> QED BY <1>1, <1>2, <2>1, <2>2, <2>3, DeleteTo DEF o
<1>7. CASE DeleteMark(w, o)
  <2>1. CASE evidence[o] = call[w].seen /\ Evidence(o, "unlinked") /\ Saw(w, "rmdir", "unlinked")
    <3> DEFINE c == [call[w] EXCEPT !.step = "rmdir", !.seen = "unlinked"]
    <3>1. c \in Call /\ call' = [call EXCEPT ![w] = c]
          /\ c.op = "delete" /\ c.of = o /\ c.step = "rmdir" /\ c.seen = "unlinked"
      BY <1>1, <1>2, <2>1 DEF Call, Saw, Evidences, StoreInv, StoreTypeOK
    <3>2. disk' = [disk EXCEPT ![o] = disk[o]] /\ evidence' = [evidence EXCEPT ![o] = "unlinked"]
          /\ "unlinked" \in Evidences
      BY <1>3, <1>7, <2>1 DEF DeleteMark, Evidence, Evidences
    <3>3. "file" \notin disk[o]
      BY <1>2, <1>7 DEF DeleteMark, Calling, CallIsSound
    <3> HIDE DEF o, c
    <3> QED BY <1>1, <1>2, <3>1, <3>2, <3>3, DeleteTo DEF o
  <2> QED BY <1>4, <1>7, <2>1 DEF DeleteMark
<1>8. CASE DeleteDirectory(w, o)
  <2>1. CASE disk[o] = {"dir"} /\ Holding(o, {}) /\ Go(w, "forget")
    <3>1. PICK c \in Call : /\ call' = [call EXCEPT ![w] = c]
                            /\ c.op = call[w].op /\ c.of = o /\ c.step = "forget"
                            /\ c.seen = call[w].seen
      BY <1>1, <2>1, GoesTo
    <3>2. c.seen = "unlinked"
      BY <1>1, <1>2, <1>8, <3>1 DEF DeleteDirectory, Calling, CallIsSound
    <3>3. disk' = [disk EXCEPT ![o] = {}] /\ evidence' = [evidence EXCEPT ![o] = evidence[o]]
      BY <1>3, <1>8, <2>1 DEF DeleteDirectory, Holding
    <3> HIDE DEF o
    <3> QED BY <1>1, <1>2, <3>1, <3>2, <3>3, DeleteTo DEF o
  <2> QED BY <1>4, <1>8, <2>1 DEF DeleteDirectory
<1>9. CASE DeleteForget(w, o)
  <2>1. CASE Evidence(o, "deleted") /\ Go(w, "deleted")
    <3>1. PICK c \in Call : /\ call' = [call EXCEPT ![w] = c]
                            /\ c.op = call[w].op /\ c.of = o /\ c.step = "deleted"
                            /\ c.seen = call[w].seen
      BY <1>1, <2>1, GoesTo
    <3>2. disk' = [disk EXCEPT ![o] = disk[o]] /\ evidence' = [evidence EXCEPT ![o] = "deleted"]
          /\ "deleted" \in Evidences
      BY <1>3, <1>9, <2>1 DEF DeleteForget, Evidence, Evidences
    <3> HIDE DEF o
    <3> QED BY <1>1, <1>2, <3>1, <3>2, DeleteTo DEF o
  <2> QED BY <1>4, <1>9, <2>1 DEF DeleteForget
<1> QED BY <1>5, <1>6, <1>7, <1>8, <1>9 DEF Delete

\* The begin and the end of a deletion.
LEMMA DeleteOthers ==
    ASSUME StoreInv, NEW w \in Threads,
           \/ DeleteBreaks(w) \/ DeleteReturns(w)
           \/ \E o \in Objects : BeginDelete(w, o)
    PROVE  StoreInv'
<1>0. told \subseteq Objects /\ asked \subseteq told /\ attested \subseteq told /\ faults \in Nat
  BY DEF StoreInv, StoreTypeOK
<1>1. CASE DeleteBreaks(w)
  <2>1. call[w] # NoCall /\ call[w].op = "delete" /\ Go(w, "refused")
    BY <1>1 DEF DeleteBreaks, Calling
  <2>2. PICK c \in Call : /\ call' = [call EXCEPT ![w] = c]
                          /\ c.op = call[w].op /\ c.of = call[w].of /\ c.step = "refused"
    BY <2>1, GoesTo
  <2>3. CallIsSound(c)
    BY <2>1, <2>2, Caller DEF CallIsSound, Builds
  <2>4. UNCHANGED <<disk, bytes, evidence, told, asked, attested>> /\ faults' \in Nat
    BY <1>0, <1>1 DEF DeleteBreaks, OnDisk, Replies, Rest, Fault
  <2> QED BY <2>1, <2>2, <2>3, <2>4, CallOnly
<1>2. CASE DeleteReturns(w)
  BY <1>0, <1>2, CallOnly DEF DeleteReturns, Leave, OnDisk, Rest
<1>3. ASSUME NEW o \in Objects, BeginDelete(w, o) PROVE StoreInv'
  <2>1. PICK c \in Call : /\ call' = [call EXCEPT ![w] = c]
                          /\ c.op = "delete" /\ c.of = o /\ c.step = "look"
    <3> DEFINE c == [op |-> "delete", of |-> o, step |-> "look", seen |-> evidence[o]]
    <3>1. c \in Call
      BY DEF Call, StoreInv, StoreTypeOK, Evidences
    <3> QED BY <1>3, <3>1 DEF BeginDelete, Enter
  <2>2. CallIsSound(c)' /\ c.op # "store"
    BY <1>3, <2>1 DEF CallIsSound, Builds, BeginDelete
  <2>3. UNCHANGED <<disk, bytes, evidence, told, attested>> /\ faults' \in Nat
        /\ asked \subseteq asked' /\ asked' \subseteq told
    BY <1>0, <1>3 DEF BeginDelete, OnDisk, Rest
  <2>4. told \subseteq told' /\ told' \subseteq Objects /\ told' \ told = {}
        /\ asked' \subseteq told' /\ attested' \subseteq told'
    BY <1>0, <2>3
  <2> QED BY <2>1, <2>2, <2>3, <2>4, CallFrame
<1> QED BY <1>1, <1>2, <1>3

LEMMA StoreInitially == StoreInit => StoreInv
  BY DEF StoreInit, StoreInv, StoreTypeOK, OneStoreEach, ObjectIsSound, Evidences

LEMMA StoreStep == StoreInv /\ [StoreNext]_storeVars => StoreInv'
<1> SUFFICES ASSUME StoreInv, [StoreNext]_storeVars PROVE StoreInv'
  OBVIOUS
<1>1. ASSUME NEW o \in Objects, Reattest(o) \/ Release(o) PROVE StoreInv'
  BY <1>1 DEF Reattest, Release, OnDisk, Replies, StoreInv, StoreTypeOK, OneStoreEach,
              ObjectIsSound, CallIsSound, Builds
<1>2. ASSUME NEW o \in Objects, Decay(o) PROVE StoreInv'
  <2>1. \A p \in Objects : bytes'[p] = bytes[p] \/ bytes'[p] = "odd"
    BY <1>2 DEF Decay, StoreInv, StoreTypeOK
  <2>2. StoreTypeOK'
    BY <1>2 DEF Decay, Replies, Fault, StoreInv, StoreTypeOK
  <2>3. \A w \in Threads : call[w] # NoCall => call[w].of \in Objects
    BY Caller
  <2> QED BY <1>2, <2>1, <2>2, <2>3 DEF Decay, Replies, StoreInv, OneStoreEach,
              ObjectIsSound, CallIsSound, Builds
<1>3. CASE Crash
  BY <1>3 DEF Crash, OnDisk, Replies, Fault, StoreInv, StoreTypeOK, OneStoreEach,
              ObjectIsSound, Evidences
<1>4. CASE UNCHANGED storeVars
  BY <1>4 DEF storeVars, StoreInv, StoreTypeOK, OneStoreEach, ObjectIsSound, CallIsSound, Builds
<1> QED BY <1>1, <1>2, <1>3, <1>4, BuildSteps, UndoSteps, StoreOthers, ReadSteps, DeleteSteps,
           DeleteOthers DEF StoreNext, StoreCall, DeleteCall

-----------------------------------------------------------------------------
(* The local store implements the contract.                                 *)
LEMMA LocalRefines ==
    StoreInv /\ [StoreNext]_storeVars => [Contract!ContractNext]_(Contract!contractVars)
<1> DEFINE Kind(d) == CASE d = {} -> "absent" [] d = Exact -> "whole" [] OTHER -> "partial"
           KindOf == [o \in Objects |-> Kind(disk[o])]
           Step == [Contract!ContractNext]_(Contract!contractVars)
<1> SUFFICES ASSUME StoreInv, [StoreNext]_storeVars PROVE Step
  OBVIOUS
<1>0. disk \in [Objects -> SUBSET {"dir", "part", "file"}]
      /\ told \subseteq Objects /\ asked \subseteq told
  BY DEF StoreInv, StoreTypeOK
<1>1. ASSUME UNCHANGED <<disk, told, asked, gone>> PROVE Step
  BY <1>1 DEF Contract!contractVars
<1>2. ASSUME NEW o \in Objects, NEW d, disk' = [disk EXCEPT ![o] = d],
             UNCHANGED <<told, asked, gone>>,
             \/ Kind(d) = Kind(disk[o])
             \/ o \notin told \cup asked /\ Kind(d) \in {"partial", "whole"}
             \/ (o \notin told \/ o \in asked) /\ Kind(d) \in {"partial", "absent"}
                /\ Kind(disk[o]) # "absent"
      PROVE  Step
  <2>1. KindOf' = [KindOf EXCEPT ![o] = Kind(d)] /\ KindOf[o] = Kind(disk[o])
    <3>1. KindOf' = [p \in Objects |-> Kind(disk'[p])]
      OBVIOUS
    <3>2. \A p \in Objects : disk'[p] = IF p = o THEN d ELSE disk[p]
      BY <1>0, <1>2
    <3> HIDE DEF Kind
    <3> QED BY <3>1, <3>2
  <2>2. CASE Kind(d) = Kind(disk[o])
    <3>1. KindOf' = KindOf
      BY <2>1, <2>2
    <3> QED BY <3>1, <1>2 DEF Contract!contractVars
  <2>3. CASE o \notin told \cup asked /\ Kind(d) \in {"partial", "whole"}
    <3>1. Contract!Grow(o)
      BY <2>1, <2>3, <1>2 DEF Contract!Grow, Contract!Becomes
    <3> QED BY <3>1 DEF Contract!ContractNext
  <2>4. CASE (o \notin told \/ o \in asked) /\ Kind(d) \in {"partial", "absent"}
             /\ Kind(disk[o]) # "absent"
    <3>1. Contract!Withdraw(o)
      BY <2>1, <2>4, <1>2 DEF Contract!Withdraw, Contract!Becomes
    <3> QED BY <3>1 DEF Contract!ContractNext
  <2> QED BY <1>2, <2>2, <2>3, <2>4
<1>3. ASSUME NEW o \in Objects, disk[o] = Exact, told' = told \cup {o},
             UNCHANGED <<disk, asked, gone>>
      PROVE  Step
  <2>1. KindOf[o] = "whole" /\ KindOf' = KindOf
    BY <1>3 DEF Exact
  <2>2. Contract!Promise(o)
    BY <1>3, <2>1 DEF Contract!Promise
  <2> QED BY <2>2 DEF Contract!ContractNext
<1>4. ASSUME NEW w \in Threads, StoreBuild(w) PROVE Step
  <2> DEFINE o == call[w].of
  <2>1. call[w] # NoCall /\ Builds(call[w]) /\ UNCHANGED <<told, asked, gone>>
    BY <1>4 DEF StoreBuild, StoreDirectory, StoreCopy, StoreLink, StoreDrop, StoreRegister,
                Calling, Builds, Build, Replies
  <2>2. o \in Objects /\ o \notin told \cup asked
        /\ (call[w].step \in Build => disk[o] = DiskAt[call[w].step])
    BY <1>0, <2>1, Caller DEF CallIsSound, Builds
  <2>3. PICK d \in SUBSET {"dir", "part", "file"} :
          (disk' = [disk EXCEPT ![o] = d] /\ d # {}) \/ disk' = disk
    <3>1. CASE StoreDirectory(w, o)
      BY <3>1 DEF StoreDirectory, Holding
    <3>2. CASE StoreCopy(w, o)
      BY <3>2 DEF StoreCopy, Holding
    <3>3. CASE StoreLink(w, o)
      BY <3>3, <1>0, <2>2 DEF StoreLink, Holding
    <3>4. CASE StoreDrop(w, o)
      <4>1. disk[o] \ {"part"} = Exact
        BY <2>2, <3>4 DEF StoreDrop, Calling, Build, DiskAt, Exact
      <4>2. Exact \in SUBSET {"dir", "part", "file"} /\ Exact # {}
        BY DEF Exact
      <4> QED BY <3>4, <4>1, <4>2 DEF StoreDrop, Holding
    <3>5. CASE StoreRegister(w, o)
      BY <3>5 DEF StoreRegister, OnDisk
    <3> QED BY <1>4, <3>1, <3>2, <3>3, <3>4, <3>5 DEF StoreBuild
  <2>4. d # {} => Kind(d) \in {"partial", "whole"}
    OBVIOUS
  <2> HIDE DEF o, Kind, KindOf, Step
  <2> QED BY <1>1, <1>2, <2>1, <2>2, <2>3, <2>4
<1>5. ASSUME NEW w \in Threads, StoreUndo(w) PROVE Step
  <2> DEFINE o == call[w].of
  <2>1. call[w] # NoCall /\ Builds(call[w]) /\ UNCHANGED <<told, asked, gone>>
    BY <1>5 DEF StoreUndo, Calling, Builds, Replies
  <2>2. o \in Objects /\ o \notin told
    BY <2>1, Caller DEF CallIsSound
  <2>3. PICK d \in {{}, disk[o], {"dir"}} : disk' = [disk EXCEPT ![o] = d]
                                            /\ (d = {"dir"} => disk[o] # {} \/ d = disk[o])
    BY <1>5 DEF StoreUndo, Holding
  <2>4. \/ Kind(d) = Kind(disk[o])
        \/ Kind(d) \in {"partial", "absent"} /\ Kind(disk[o]) # "absent"
    BY <2>3 DEF Exact
  <2> HIDE DEF o, Kind, KindOf, Step
  <2> QED BY <1>2, <2>1, <2>2, <2>3, <2>4
<1>6. ASSUME NEW w \in Threads, Delete(w) PROVE Step
  <2> DEFINE o == call[w].of
  <2>1. call[w] # NoCall /\ call[w].op = "delete" /\ UNCHANGED <<told, asked, gone>>
    BY <1>6 DEF Delete, Replies, DeleteLook, DeleteUnlink, DeleteMark,
                DeleteDirectory, DeleteForget, Calling
  <2>2. o \in Objects /\ o \in asked
    BY <2>1, Caller DEF CallIsSound
  <2>3. PICK d \in {{}, disk[o] \ {"file"}} :
          \/ disk' = disk
          \/ /\ disk' = [disk EXCEPT ![o] = d]
             /\ d = {} => disk[o] = {"dir"} \/ d = disk[o] \ {"file"}
    BY <1>6 DEF Delete, DeleteLook, DeleteUnlink, DeleteMark, DeleteDirectory, DeleteForget,
                Holding
  <2>4. \/ disk' = disk
        \/ Kind(d) = Kind(disk[o])
        \/ Kind(d) \in {"partial", "absent"} /\ Kind(disk[o]) # "absent"
    BY <2>3 DEF Exact
  <2> HIDE DEF o, Kind, KindOf, Step
  <2> QED BY <1>1, <1>2, <2>1, <2>2, <2>3, <2>4
<1>7. ASSUME NEW w \in Threads, NEW b \in Backups, StoreAgain(w, b) PROVE Step
  <2>1. PICK o \in BySource(b) : told' = IF StoredHolds(o) THEN told \cup {o} ELSE told
    BY <1>7 DEF StoreAgain
  <2>2. UNCHANGED <<disk, asked, gone>> /\ o \in Objects /\ (StoredHolds(o) => disk[o] = Exact)
    BY <1>7 DEF StoreAgain, OnDisk, BySource, StoredHolds, PathHolds
  <2> QED BY <1>1, <1>3, <2>1, <2>2
<1>8. ASSUME NEW w \in Threads, StoreReply(w) PROVE Step
  <2> DEFINE o == call[w].of
  <2>1. call[w] # NoCall /\ call[w].op = "store" /\ call[w].step = "staging"
        /\ UNCHANGED <<disk, asked, gone>> /\ told' \in {told, told \cup {o}}
    BY <1>8 DEF StoreReply, Calling, OnDisk
  <2>2. o \in Objects /\ (o \in told \/ disk[o] = Exact)
    BY <1>0, <2>1, Caller DEF CallIsSound
  <2> HIDE DEF o, Kind, KindOf, Step
  <2>3. CASE told' = told
    BY <1>1, <2>1, <2>3
  <2> QED BY <1>3, <2>1, <2>2, <2>3
<1>9. ASSUME NEW w \in Threads, NEW o \in Objects, BeginDelete(w, o) PROVE Step
  <2>1. Contract!Ask(o)
    BY <1>9 DEF Contract!Ask, BeginDelete, OnDisk
  <2> QED BY <2>1 DEF Contract!ContractNext
<1>10. ASSUME NEW w \in Threads, DeleteReturns(w) PROVE Step
  <2> DEFINE o == call[w].of
  <2>1. call[w] # NoCall /\ call[w].op = "delete" /\ UNCHANGED <<disk, told, asked>>
    BY <1>10 DEF DeleteReturns, Calling, OnDisk
  <2>2. o \in Objects /\ o \in asked
    BY <2>1, Caller DEF CallIsSound
  <2>3. CASE gone' = gone \cup {o} /\ disk[o] = {}
    <3>1. KindOf[o] = "absent"
      BY <2>2, <2>3 DEF Exact
    <3>2. Contract!ConfirmGone(o)
      BY <2>1, <2>2, <2>3, <3>1 DEF Contract!ConfirmGone
    <3> QED BY <2>2, <3>2 DEF Contract!ContractNext
  <2> QED BY <1>1, <1>10, <2>1, <2>3 DEF DeleteReturns, ConfirmAbsent
<1>11. ASSUME NEW w \in Threads, \/ StoreBreaks(w) \/ DeleteBreaks(w) \/ ReadAll(w)
                                 \/ \E b \in Backups : BeginStore(w, b)
                                 \/ \E o \in Objects : BeginRead(w, o)
       PROVE  Step
  BY <1>1, <1>11 DEF StoreBreaks, DeleteBreaks, ReadAll, BeginStore, BeginRead, OnDisk, Replies
<1>12. CASE Crash \/ UNCHANGED storeVars
            \/ \E o \in Objects : Reattest(o) \/ Release(o) \/ Decay(o)
  BY <1>1, <1>12 DEF Crash, storeVars, Reattest, Release, Decay, OnDisk, Replies
<1> HIDE DEF Kind, KindOf, Step
<1> QED BY <1>4, <1>5, <1>6, <1>7, <1>8, <1>9, <1>10, <1>11, <1>12
        DEF StoreNext, StoreCall, DeleteCall

(* Through failures, restarts and calls of several threads, every step of   *)
(* the local store is one the contract of a durable store allows, or leaves *)
(* what the contract speaks of as it is.                                    *)
THEOREM LocalStoreKeepsPromises == StoreSpec => KeepsPromises
<1>1. StoreInv /\ [StoreNext]_storeVars => [Contract!ContractNext]_(Contract!contractVars)
  BY LocalRefines
<1> QED BY <1>1, StoreInitially, StoreStep, PTL DEF StoreSpec, KeepsPromises

-----------------------------------------------------------------------------
(* One registered object of a backup, and nothing left without a fault.     *)

\* Who registers an object finds no other one, and only a restart forgets.
LEMMA OneEachStep ==
    ASSUME StoreInv, OneEach, [StoreNext]_storeVars PROVE OneEach'
<1>0. evidence \in [Objects -> Evidences]
  BY DEF StoreInv, StoreTypeOK
<1>1. CASE evidence' = evidence
  BY <1>1 DEF OneEach
<1>2. ASSUME NEW w \in Threads, StoreBuild(w), evidence' # evidence PROVE OneEach'
  <2> DEFINE o == call[w].of
  <2>1. call[w] # NoCall /\ BySource(Of[o]) = {} /\ evidence' = [evidence EXCEPT ![o] = "stored"]
    BY <1>2 DEF StoreBuild, StoreDirectory, StoreCopy, StoreLink, StoreDrop, StoreRegister, Evidence
  <2>2. \A p \in Objects : evidence'[p] = IF p = o THEN "stored" ELSE evidence[p]
    BY <1>0, <2>1, Caller
  <2>3. \A p \in Objects : Of[p] = Of[o] => evidence[p] \notin Registered
    BY <2>1 DEF BySource
  <2> HIDE DEF o
  <2> QED BY <2>2, <2>3 DEF OneEach
<1>3. ASSUME NEW w \in Threads, Delete(w), evidence' # evidence PROVE OneEach'
  <2> DEFINE o == call[w].of
  <2>1. call[w] # NoCall /\ o \in Objects /\ CallIsSound(call[w])
    BY <1>3, Caller DEF Delete
  <2>2. PICK e \in {"unlinked", "deleted"} :
          /\ evidence' = [evidence EXCEPT ![o] = e]
          /\ e = "unlinked" => evidence[o] = "stored"
    BY <1>3, <2>1 DEF Delete, DeleteLook, DeleteUnlink, DeleteMark, DeleteDirectory,
                      DeleteForget, Evidence, CallIsSound, Calling
  <2>3. \A p \in Objects : evidence'[p] \in Registered => evidence[p] \in Registered
    BY <1>0, <2>1, <2>2 DEF Registered
  <2> QED BY <2>3 DEF OneEach
<1>4. CASE Crash
  BY <1>4 DEF Crash, OneEach, Registered
<1>5. CASE \/ UNCHANGED storeVars
           \/ \E w \in Threads : StoreBreaks(w) \/ StoreUndo(w) \/ StoreReply(w)
                                 \/ DeleteBreaks(w) \/ DeleteReturns(w) \/ ReadAll(w)
           \/ \E w \in Threads, b \in Backups : StoreAgain(w, b) \/ BeginStore(w, b)
           \/ \E w \in Threads, o \in Objects : BeginDelete(w, o) \/ BeginRead(w, o)
           \/ \E o \in Objects : Reattest(o) \/ Release(o) \/ Decay(o)
  <2>1. evidence' = evidence
    BY <1>5 DEF storeVars, StoreBreaks, StoreUndo, StoreReply, DeleteBreaks, DeleteReturns,
         ReadAll, StoreAgain, BeginStore, BeginDelete, BeginRead, Reattest, Release, Decay
  <2> QED BY <1>1, <2>1
<1> QED BY <1>1, <1>2, <1>3, <1>4, <1>5 DEF StoreNext, StoreCall, DeleteCall

LEMMA OneEachCounts ==
    ASSUME OneEach, NEW b \in Backups PROVE Cardinality(BySource(b)) <= 1
<1>1. CASE BySource(b) = {}
  BY <1>1, FS_EmptySet
<1>2. ASSUME NEW o \in BySource(b) PROVE Cardinality(BySource(b)) <= 1
  <2>1. BySource(b) = {o}
    BY <1>2 DEF BySource, OneEach
  <2>2. Cardinality({o}) = 1
    BY FS_Singleton
  <2> QED BY <2>1, <2>2
<1> QED BY <1>1, <1>2

\* What a step without a fault leaves of an object's files.
LEMMA NothingForgottenStep ==
    ASSUME StoreInv, NothingForgotten, [StoreNext]_storeVars PROVE NothingForgotten'
<1> USE DEF Works
<1> SUFFICES ASSUME faults' = 0, NEW p \in Objects, disk'[p] # {}, evidence'[p] # "stored"
             PROVE  (\E w \in Threads : call[w] # NoCall /\ call[w].of = p /\ Works(call[w]))'
  BY DEF NothingForgotten
<1> DEFINE Busy == \E w \in Threads : call[w] # NoCall /\ call[w].of = p /\ Works(call[w])
<1>0. faults = 0 /\ UNCHANGED faults
  BY DEF StoreNext, StoreCall, DeleteCall, StoreAgain, BeginStore, StoreBuild, StoreBreaks,
         StoreUndo, StoreReply, Delete, DeleteBreaks, DeleteReturns, ReadAll, BeginDelete,
         BeginRead, Reattest, Release, Decay, Crash, Fault, NoFault, storeVars,
         StoreInv, StoreTypeOK
<1>1. disk \in [Objects -> SUBSET {"dir", "part", "file"}] /\ evidence \in [Objects -> Evidences]
      /\ call \in [Threads -> Call \cup {NoCall}]
  BY DEF StoreInv, StoreTypeOK
\* Either the step is about another object, or a thread that works goes on.
<1>2. ASSUME disk[p] # {}, evidence[p] # "stored",
             NEW w \in Threads, \A v \in Threads \ {w} : call'[v] = call[v],
             call[w] # NoCall /\ Works(call[w]) /\ call[w].of = p
             => call'[w] # NoCall /\ Works(call'[w]) /\ call'[w].of = p
      PROVE  Busy'
  <2>1. PICK v \in Threads : call[v] # NoCall /\ call[v].of = p /\ Works(call[v])
    BY <1>0, <1>2 DEF NothingForgotten
  <2>2. CASE v = w
    BY <1>2, <2>1, <2>2
  <2>3. CASE v # w
    BY <1>2, <2>1, <2>3
  <2> QED BY <2>2, <2>3
<1>3. ASSUME NEW w \in Threads, StoreBuild(w)
      PROVE  Busy'
  <2> DEFINE o == call[w].of
  <2>1. call[w] # NoCall /\ Builds(call[w]) /\ o \in Objects
    BY <1>3, Caller DEF StoreBuild, StoreDirectory, StoreCopy, StoreLink, StoreDrop,
                        StoreRegister, Calling, Builds, Build
  <2>2. PICK t \in Build \cup {"undo", "staging"} :
          /\ Go(w, t)
          /\ t = "staging" => evidence' = [evidence EXCEPT ![o] = "stored"]
          /\ t # "staging" => evidence' = evidence
          /\ disk' = disk \/ \E d : disk' = [disk EXCEPT ![o] = d]
    BY <1>3 DEF StoreBuild, StoreDirectory, StoreCopy, StoreLink, StoreDrop, StoreRegister,
                Build, Holding, Evidence, OnDisk
  <2>3. PICK c \in Call : /\ call' = [call EXCEPT ![w] = c]
                          /\ c.op = call[w].op /\ c.of = o /\ c.step = t
                          /\ c.seen = call[w].seen
    BY <2>1, <2>2, GoesTo
  <2>4. call'[w] = c /\ \A v \in Threads \ {w} : call'[v] = call[v]
    BY <1>1, <2>3
  <2> HIDE DEF o
  <2>5. CASE p = o
    <3>1. t # "staging"
      BY <1>1, <2>2, <2>5
    <3>2. c.op = "store" /\ c.step \in Build \cup {"undo"}
      BY <2>1, <2>2, <2>3, <3>1 DEF Builds
    <3> QED BY <2>3, <2>4, <2>5, <3>2, LocalStoreAssumption DEF Builds
  <2>6. CASE p # o
    <3>1. disk[p] = disk'[p] /\ evidence[p] = evidence'[p]
      BY <1>1, <2>2, <2>6 DEF o
    <3>2. call[w].of # p
      BY <2>6 DEF o
    <3> QED BY <1>2, <2>4, <3>1, <3>2
  <2> QED BY <2>5, <2>6
<1>4. ASSUME NEW w \in Threads, StoreUndo(w)
      PROVE  Busy'
  <2> DEFINE o == call[w].of
  <2>1. disk' = [disk EXCEPT ![o] = {}] /\ evidence' = evidence
        /\ call' = [call EXCEPT ![w] = NoCall]
    BY <1>0, <1>4 DEF StoreUndo, Holding, Leave, Fault
  <2>2. p # o
    BY <1>1, <2>1
  <2>3. disk[p] = disk'[p] /\ \A v \in Threads \ {w} : call'[v] = call[v]
    BY <1>1, <2>1, <2>2
  <2> QED BY <1>2, <2>1, <2>2, <2>3
<1>5. ASSUME NEW w \in Threads, Delete(w)
      PROVE  Busy'
  <2> DEFINE o == call[w].of
  <2>1. /\ call[w] # NoCall /\ call[w].op = "delete" /\ o \in Objects
        /\ CallIsSound(call[w]) /\ ObjectIsSound(o) /\ o \in told
        /\ \A v \in Threads \ {w} : call'[v] = call[v]
    <3>1. call[w] # NoCall /\ call[w].op = "delete"
      BY <1>5 DEF Delete, DeleteLook, DeleteUnlink, DeleteMark, DeleteDirectory,
                  DeleteForget, Calling
    <3>2. o \in told
      BY <3>1, Caller DEF CallIsSound, StoreInv, StoreTypeOK
    <3>3. \A v \in Threads \ {w} : call'[v] = call[v]
      BY <1>1, <1>5 DEF Delete, DeleteLook, DeleteUnlink, DeleteMark, DeleteDirectory,
                  DeleteForget, Go, Saw
    <3> QED BY <3>1, <3>2, <3>3, Caller
  <2>2. CASE evidence' = evidence /\ disk' = disk /\ call[w].step # "rmdir"
    BY <1>2, <2>1, <2>2 DEF Builds
  <2>3. CASE DeleteUnlink(w, o)
    <3>1. disk'[p] \subseteq disk[p] /\ evidence' = evidence /\ call[w].step # "rmdir"
      BY <1>1, <2>1, <2>3 DEF DeleteUnlink, Holding, Calling
    <3> QED BY <1>2, <2>1, <3>1 DEF Builds
  <2>4. CASE DeleteMark(w, o) /\ evidence' # evidence
    <3> DEFINE c == [call[w] EXCEPT !.step = "rmdir", !.seen = "unlinked"]
    <3>1. evidence' = [evidence EXCEPT ![o] = "unlinked"] /\ disk' = disk
          /\ call' = [call EXCEPT ![w] = c] /\ call[w].step = "mark"
      BY <2>1, <2>4, Caller DEF DeleteMark, Evidence, Saw, Call, Calling, StoreInv, StoreTypeOK
    <3>2. c.op = "delete" /\ c.of = o /\ c.step = "rmdir" /\ c \in Call
      BY <2>1, Caller DEF Call, Evidences
    <3>3. call'[w] = c
      BY <1>1, <3>1
    <3>4. CASE p = o
      <4>1. call'[w] # NoCall
        BY <3>2, <3>3, LocalStoreAssumption
      <4> QED BY <3>2, <3>3, <3>4, <4>1
    <3>5. CASE p # o
      <4>1. evidence[p] = evidence'[p]
        BY <1>1, <3>1, <3>5
      <4> QED BY <1>2, <2>1, <3>1, <3>5, <4>1
    <3> QED BY <3>4, <3>5
  <2>5. CASE DeleteDirectory(w, o)
    <3>1. disk[o] = {} \/ disk[o] = {"dir"}
      BY <2>1, <2>5 DEF DeleteDirectory, Calling, CallIsSound, ObjectIsSound, Exact
    <3>2. p # o /\ disk'[p] = disk[p] /\ evidence' = evidence
      BY <1>1, <2>1, <2>5, <3>1 DEF DeleteDirectory, Holding
    <3> QED BY <1>2, <2>1, <3>2
  <2>6. CASE DeleteForget(w, o)
    <3>1. disk' = disk /\ disk[o] = {}
      BY <2>1, <2>6 DEF DeleteForget, Calling, CallIsSound
    <3>2. p # o
      BY <3>1
    <3>3. evidence'[p] = evidence[p]
      BY <1>1, <2>6, <3>2 DEF DeleteForget, Evidence
    <3> QED BY <1>2, <2>1, <3>1, <3>2, <3>3
  <2>7. CASE DeleteLook(w, o) \/ (DeleteMark(w, o) /\ evidence' = evidence)
    BY <2>2, <2>7 DEF DeleteLook, DeleteMark, Calling
  <2> QED BY <1>5, <2>3, <2>4, <2>5, <2>6, <2>7 DEF Delete
<1>6. ASSUME NEW w \in Threads, disk' = disk, evidence' = evidence,
             \A v \in Threads \ {w} : call'[v] = call[v],
             call[w] = NoCall \/ ~ Works(call[w])
      PROVE  Busy'
  BY <1>2, <1>6
<1>7. ASSUME NEW w \in Threads,
             \/ StoreReply(w) \/ DeleteReturns(w) \/ ReadAll(w)
             \/ \E b \in Backups : StoreAgain(w, b) \/ BeginStore(w, b)
             \/ \E o \in Objects : BeginDelete(w, o) \/ BeginRead(w, o)
      PROVE  Busy'
  <2>1. disk' = disk /\ evidence' = evidence /\ \A v \in Threads \ {w} : call'[v] = call[v]
    BY <1>1, <1>7 DEF StoreReply, DeleteReturns, ReadAll, StoreAgain, BeginStore, BeginDelete,
              BeginRead, Leave, Go, Saw, Enter, OnDisk
  <2>2. call[w] = NoCall \/ ~ Works(call[w])
    BY <1>7 DEF StoreReply, DeleteReturns, ReadAll, StoreAgain, BeginStore, BeginDelete,
              BeginRead, Calling, Builds, Build
  <2> QED BY <1>6, <2>1, <2>2
<1>8. ASSUME UNCHANGED storeVars \/ \E o \in Objects : Reattest(o) \/ Release(o)
      PROVE  Busy'
  <2>1. UNCHANGED <<disk, evidence, call>>
    BY <1>8 DEF storeVars, Reattest, Release, OnDisk
  <2>2. PICK w \in Threads : call[w] # NoCall /\ call[w].of = p /\ Works(call[w])
    BY <1>0, <2>1 DEF NothingForgotten
  <2>3. call'[w] = call[w]
    BY <2>1
  <2> QED BY <2>2, <2>3 DEF Builds
<1>9. ~ (Crash \/ (\E o \in Objects : Decay(o))
         \/ (\E w \in Threads : StoreBreaks(w) \/ DeleteBreaks(w)))
  BY <1>0 DEF Crash, Decay, StoreBreaks, DeleteBreaks, Fault
<1> HIDE DEF Works, Busy
<1>10. Busy'
  BY <1>3, <1>4, <1>5, <1>7, <1>8, <1>9 DEF StoreNext, StoreCall, DeleteCall
<1> QED BY <1>10 DEF Busy

\* The invariant of the store with all that StoreIsSound needs.
LEMMA SoundFollows == StoreInv /\ OneEach /\ NothingForgotten => StoreIsSound
<1> SUFFICES ASSUME StoreInv, OneEach, NothingForgotten PROVE StoreIsSound
  OBVIOUS
<1>1. \A b \in Backups : Cardinality(BySource(b)) <= 1
  BY OneEachCounts
<1>2. ASSUME NEW w \in Threads, Calling(w, "read", "good") PROVE call[w].seen = "whole"
  BY <1>2, Caller DEF Calling, CallIsSound
<1>3. ASSUME faults = 0, NEW o \in Objects \ InUse, disk[o] # {} PROVE evidence[o] = "stored"
  BY <1>3 DEF NothingForgotten, InUse
<1> QED BY <1>1, <1>2, <1>3 DEF StoreIsSound

(* Whatever two threads store, delete and read at once, a backup has one    *)
(* registered object at most, a reader that ended well has read what was    *)
(* stored, and without a failure no directory is left that nobody knows.    *)
THEOREM LocalStoreIsSound == StoreSpec => []StoreIsSound
<1> DEFINE Inv == StoreInv /\ OneEach /\ NothingForgotten
<1>1. StoreInit => Inv
  BY StoreInitially DEF StoreInit, OneEach, Registered, NothingForgotten
<1>2. Inv /\ [StoreNext]_storeVars => Inv'
  BY StoreStep, OneEachStep, NothingForgottenStep
<1>3. Inv => StoreIsSound
  BY SoundFollows
<1> QED BY <1>1, <1>2, <1>3, PTL DEF StoreSpec

-----------------------------------------------------------------------------
(* Retention.  An execution has found Keep newer backups for everything it  *)
(* may delete, none of which anybody was asked to delete; and there is one  *)
(* execution at a time, so that they stay.                                  *)

Plan == [cand : SUBSET Objects, flags : [Objects -> Flags], deletes : SUBSET Objects,
         deleted : SUBSET Objects, pending : SUBSET Objects, skipped : SUBSET Objects,
         done : BOOLEAN]
RetentionRun == [plan : Nat, cand : SUBSET Objects, flags : [Objects -> Flags],
                 beyond : SUBSET Objects]

PlanIsSound(p) == p.deletes \subseteq told /\ p.pending \cup p.deleted \subseteq p.deletes

RunIsSound(w) ==
    /\ run[w].plan \in DOMAIN plans
    /\ \A o \in run[w].beyond :
         /\ o \in told /\ run[w].flags[o] = "daily"
         /\ Cardinality(Newer(o, (told \ asked) \ run[w].beyond)) >= Keep
    /\ call[w] # NoCall => /\ run[w].flags[call[w].of] = "daily"
                           /\ call[w].of \in plans[run[w].plan].deletes

RetentionTypeOK ==
    /\ flag \in [Objects -> Flags] /\ plans \in Seq(Plan)
    /\ run \in [Threads -> RetentionRun \cup {NoRun}]

RetentionInv ==
    /\ RetentionTypeOK
    /\ \A i \in DOMAIN plans : PlanIsSound(plans[i])
    /\ \A w \in Threads : run[w] # NoRun => RunIsSound(w)
    /\ \A v, w \in Threads : run[v] # NoRun /\ run[w] # NoRun => v = w
    /\ \A o \in asked : Cardinality(Newer(o, told \ asked)) >= Keep

\* More candidates have not fewer newer ones.
LEMMA NewerGrows ==
    ASSUME NEW S \in SUBSET Objects, NEW T \in SUBSET Objects, NEW o \in Objects,
           NEW p \in Objects, Newer(p, S) \subseteq Newer(o, T),
           Cardinality(Newer(p, S)) >= Keep
    PROVE  Cardinality(Newer(o, T)) >= Keep
<1>1. IsFiniteSet(Newer(o, T))
  BY FS_Subset, RetentionAssumption DEF Newer
<1>2. IsFiniteSet(Newer(p, S)) /\ Cardinality(Newer(p, S)) <= Cardinality(Newer(o, T))
  BY <1>1, FS_Subset
<1>3. Cardinality(Newer(o, T)) \in Nat /\ Cardinality(Newer(p, S)) \in Nat
  BY <1>1, <1>2, FS_CardinalityType
<1> QED BY <1>2, <1>3, RetentionAssumption

\* There is a newest object in every set of objects.
LEMMA SomeNewest ==
    ASSUME NEW S \in SUBSET Objects, S # {}
    PROVE  \E o \in S : Newer(o, S) = {}
<1> DEFINE R == {p \in S \X S : Age[p[1]] < Age[p[2]]}
<1>1. IsFiniteSet(S)
  BY FS_Subset, RetentionAssumption
<1>2. \A x, y \in S : <<x, y>> \in R <=> Age[x] < Age[y]
  OBVIOUS
<1>3. \A x \in S : Age[x] \in Nat
  BY RetentionAssumption
<1> HIDE DEF R
<1>4. \A x, y, z \in S : <<x, y>> \in R /\ <<y, z>> \in R => <<x, z>> \in R
  BY <1>2, <1>3
<1>5. \A x \in S : <<x, x>> \notin R
  BY <1>2, <1>3
<1>6. PICK o \in S : \A y \in S : <<o, y>> \notin R
  BY <1>1, <1>4, <1>5, FiniteHasMaximal
<1> QED BY <1>2, <1>3, <1>6 DEF Newer

\* For what is beyond the newest Keep of a set there are Keep newer ones that
\* neither are beyond them nor were to be deleted before.
LEMMA NewestStay ==
    ASSUME NEW T \in SUBSET Objects, NEW A \in SUBSET T, NEW S \in SUBSET T,
           \A p \in A : Cardinality(Newer(p, T \ A)) >= Keep,
           NEW o \in Beyond(S)
    PROVE  Cardinality(Newer(o, (T \ A) \ Beyond(S))) >= Keep
<1> DEFINE B == Beyond(S)
           P == {p \in A \cup B : Age[p] >= Age[o]}
<1>0. \A p \in Objects : Age[p] \in Nat
  BY RetentionAssumption
<1>1. B \subseteq S /\ o \in P /\ P \in SUBSET Objects
  BY <1>0 DEF Beyond
<1>2. PICK p \in P : Newer(p, P) = {}
  BY <1>1, SomeNewest
<1>3. \A q \in T : Age[q] > Age[p] => q \notin A \cup B /\ Age[q] > Age[o]
  <2> SUFFICES ASSUME NEW q \in T, Age[q] > Age[p] PROVE q \notin A \cup B /\ Age[q] > Age[o]
    OBVIOUS
  <2>1. Age[q] > Age[o] /\ Age[q] >= Age[o]
    BY <1>0, <1>1
  <2>2. q \notin P
    BY <1>2 DEF Newer
  <2> QED BY <2>1, <2>2
<1>4. CASE p \in A
  <2>1. Newer(p, T \ A) \subseteq Newer(o, (T \ A) \ B)
    BY <1>3 DEF Newer
  <2> QED BY <1>1, <1>4, <2>1, NewerGrows
<1>5. CASE p \in B
  <2>1. Cardinality(Newer(p, S)) >= Keep
    <3>1. IsFiniteSet(Newer(p, S))
      BY FS_Subset, RetentionAssumption DEF Newer
    <3>2. Cardinality(Newer(p, S)) \in Nat
      BY <3>1, FS_CardinalityType
    <3> QED BY <1>5, <3>2, RetentionAssumption DEF Beyond, Newest
  <2>2. Newer(p, S) \subseteq Newer(o, (T \ A) \ B)
    BY <1>3 DEF Newer
  <2> QED BY <1>1, <1>5, <2>1, <2>2, NewerGrows
<1> QED BY <1>2, <1>4, <1>5

\* What retention deletes next is something it has to delete.
LEMMA NextIsTodo ==
    ASSUME StoreTypeOK, RetentionInv, NEW w \in Threads, run[w] # NoRun, Todo(w) # {}
    PROVE  /\ run[w].plan \in DOMAIN plans /\ plans[run[w].plan] \in Plan
           /\ NextOf(w) \in plans[run[w].plan].deletes
           /\ NextOf(w) \in Objects /\ NextOf(w) \in told
<1>1. run[w].plan \in DOMAIN plans /\ PlanIsSound(plans[run[w].plan])
  BY DEF RetentionInv, RunIsSound
<1>2. plans[run[w].plan] \in Plan
  BY <1>1 DEF RetentionInv, RetentionTypeOK
<1>3. Todo(w) \subseteq plans[run[w].plan].deletes /\ Todo(w) \in SUBSET Objects
  BY <1>2 DEF Todo, Plan
<1>4. \E o \in Todo(w) : Newer(o, Todo(w)) = {}
  BY <1>3, SomeNewest
<1>5. NextOf(w) \in Todo(w)
  BY <1>4 DEF NextOf
<1> QED BY <1>1, <1>2, <1>3, <1>5 DEF PlanIsSound, StoreTypeOK

\* Retention uses the store as any other caller.
LEMMA RetentionUsesStore ==
    ASSUME StoreInv, RetentionInv, [RetentionNext]_retentionVars
    PROVE  [StoreNext]_storeVars
<1>1. ASSUME NEW w \in Threads, DeleteNext(w) PROVE [StoreNext]_storeVars
  <2> DEFINE o == NextOf(w)
  <2>1. run[w] # NoRun /\ call[w] = NoCall /\ o \in Objects /\ o \in told
    BY <1>1, NextIsTodo DEF DeleteNext, Running, StoreInv
  <2>2. CASE StoredHolds(o)
    <3>1. BeginDelete(w, o)
      BY <1>1, <2>1, <2>2 DEF DeleteNext, BeginDelete, Rest, OnDisk
    <3> QED BY <2>1, <3>1 DEF StoreNext
  <2>3. CASE ~ StoredHolds(o)
    <3>1. UNCHANGED storeVars
      BY <1>1, <2>3 DEF DeleteNext, Rest, OnDisk, storeVars
    <3> QED BY <3>1
  <2> QED BY <2>2, <2>3
<1>2. ASSUME NEW w \in Threads, Delete(w) \/ DeleteBreaks(w) \/ AfterDelete(w)
      PROVE  [StoreNext]_storeVars
  BY <1>2 DEF AfterDelete, StoreNext, DeleteCall
<1>3. CASE Restart \/ \E o \in Objects : Decay(o)
  BY <1>3 DEF Restart, StoreNext
<1>4. CASE \/ \E w \in Threads : \/ \E i \in DOMAIN plans, cand \in Candidates : BeginRetention(w, i, cand)
                                 \/ SkipOrStop(w) \/ FinishRetention(w)
           \/ \E cand \in Candidates : BuildPlan(cand)
           \/ \E o \in Objects : Reflag(o)
           \/ UNCHANGED retentionVars
  BY <1>4 DEF BeginRetention, SkipOrStop, FinishRetention, BuildPlan, Reflag, retentionVars
<1> QED BY <1>1, <1>2, <1>3, <1>4 DEF RetentionNext

\* A plan that progresses, and the execution that may end with it.
LEMMA PlanProgress ==
    ASSUME RetentionInv, NEW i \in DOMAIN plans, NEW q \in Plan,
           plans' = [plans EXCEPT ![i] = q], PlanIsSound(q), q.deletes = plans[i].deletes,
           UNCHANGED <<told, asked, flag, call>>,
           run' = run \/ \E w \in Threads : run' = [run EXCEPT ![w] = NoRun]
    PROVE  RetentionInv'
<1>1. /\ DOMAIN plans' = DOMAIN plans /\ plans' \in Seq(Plan)
      /\ \A j \in DOMAIN plans : plans'[j] = IF j = i THEN q ELSE plans[j]
  BY DEF RetentionInv, RetentionTypeOK
<1>2. /\ run' \in [Threads -> RetentionRun \cup {NoRun}]
      /\ \A w \in Threads : run'[w] # NoRun => run'[w] = run[w]
  BY DEF RetentionInv, RetentionTypeOK
<1>3. \A j \in DOMAIN plans' : PlanIsSound(plans[j])'
  <2> SUFFICES ASSUME NEW j \in DOMAIN plans PROVE PlanIsSound(plans[j])'
    BY <1>1
  <2>1. CASE j = i
    BY <1>1, <2>1 DEF PlanIsSound
  <2>2. CASE j # i
    BY <1>1, <2>2 DEF PlanIsSound, RetentionInv
  <2> QED BY <2>1, <2>2
<1>4. ASSUME NEW w \in Threads, run'[w] # NoRun PROVE RunIsSound(w)'
  <2>1. RunIsSound(w) /\ run'[w] = run[w]
    BY <1>2, <1>4 DEF RetentionInv
  <2>2. plans'[run[w].plan].deletes = plans[run[w].plan].deletes
    BY <1>1, <2>1 DEF RunIsSound
  <2> QED BY <1>1, <2>1, <2>2 DEF RunIsSound, Newer
<1> QED BY <1>1, <1>2, <1>3, <1>4 DEF RetentionInv, RetentionTypeOK, Newer

LEMMA RetentionBegins ==
    ASSUME StoreTypeOK, RetentionInv, NEW w \in Threads, NEW i \in DOMAIN plans,
           NEW cand \in Candidates, BeginRetention(w, i, cand)
    PROVE  RetentionInv'
<1>0. plans[i] \in Plan /\ PlanIsSound(plans[i]) /\ UNCHANGED <<told, asked, flag, call>>
  BY DEF RetentionInv, RetentionTypeOK, BeginRetention, storeVars
<1>1. ASSUME NEW done \in SUBSET plans[i].pending
      PROVE  /\ Settled(i, done) \in Plan /\ PlanIsSound(Settled(i, done))
             /\ Settled(i, done).deletes = plans[i].deletes
  <2> DEFINE q == Settled(i, done)
  <2>1. q \in Plan /\ q.deletes = plans[i].deletes
        /\ q.deleted = plans[i].deleted \cup done /\ q.pending = plans[i].pending \ done
    BY <1>0 DEF Settled, Plan
  <2> HIDE DEF q
  <2>2. PlanIsSound(q)
    BY <1>0, <2>1 DEF PlanIsSound
  <2> QED BY <2>1, <2>2 DEF q
<1>2. PICK done \in SUBSET plans[i].pending : plans' = [plans EXCEPT ![i] = Settled(i, done)]
  BY DEF BeginRetention, Advance, Finished
<1>3. CASE run' = run
  BY <1>0, <1>1, <1>2, <1>3, PlanProgress
<1>4. CASE run' # run
  <2> DEFINE now == Eligible(cand, flag, plans[i].deleted \cup Finished(i))
  <2>1. PICK e : /\ run' = [run EXCEPT ![w] = e]
                 /\ e = [plan |-> i, cand |-> cand, flags |-> flag, beyond |-> Beyond(now)]
    BY <1>4 DEF BeginRetention, CurrentSet
  <2>2. now \subseteq told /\ told \subseteq Objects /\ asked \subseteq told
        /\ \A o \in now : flag[o] = "daily"
    BY DEF Eligible, Counted, Candidates, StoreTypeOK
  <2>3. Beyond(now) \subseteq now
    BY DEF Beyond
  <2>4. /\ e \in RetentionRun /\ e.plan = i /\ e.flags = flag /\ e.beyond = Beyond(now)
    <3>1. i \in Nat /\ cand \in SUBSET Objects
      BY <2>2 DEF RetentionInv, RetentionTypeOK, Candidates
    <3> QED BY <2>1, <2>2, <2>3, <3>1 DEF RetentionRun, RetentionInv, RetentionTypeOK
  <2>5. \A o \in Beyond(now) : Cardinality(Newer(o, (told \ asked) \ Beyond(now))) >= Keep
    BY <2>2, NewestStay DEF RetentionInv
  <2>6. call[w] = NoCall /\ \A v \in Threads : run[v] = NoRun
    BY DEF BeginRetention, TenantIsFree
  <2>7. /\ run' \in [Threads -> RetentionRun \cup {NoRun}] /\ run'[w] = e
        /\ \A v \in Threads \ {w} : run'[v] = NoRun
    BY <2>1, <2>4, <2>6 DEF RetentionInv, RetentionTypeOK
  <2>8. DOMAIN plans' = DOMAIN plans /\ plans' \in Seq(Plan)
        /\ \A j \in DOMAIN plans : plans'[j] = IF j = i THEN Settled(i, done) ELSE plans[j]
    BY <1>1, <1>2 DEF RetentionInv, RetentionTypeOK
  <2>9. \A j \in DOMAIN plans' : PlanIsSound(plans[j])'
    <3> SUFFICES ASSUME NEW j \in DOMAIN plans PROVE PlanIsSound(plans[j])'
      BY <2>8
    <3>1. CASE j = i
      BY <1>0, <1>1, <2>8, <3>1 DEF PlanIsSound
    <3>2. CASE j # i
      BY <1>0, <2>8, <3>2 DEF PlanIsSound, RetentionInv
    <3> QED BY <3>1, <3>2
  <2>10. RunIsSound(w)'
    <3>1. run'[w].plan = i /\ run'[w].flags = flag /\ run'[w].beyond = Beyond(now)
      BY <2>4, <2>7
    <3>2. \A o \in Beyond(now) : o \in told /\ flag[o] = "daily"
      BY <2>2, <2>3
    <3> HIDE DEF now
    <3> QED BY <1>0, <2>5, <2>6, <2>8, <3>1, <3>2 DEF RunIsSound, Newer
  <2> QED BY <1>0, <2>7, <2>8, <2>9, <2>10 DEF RetentionInv, RetentionTypeOK, Newer
<1> QED BY <1>3, <1>4

\* Retention asks for the deletion of something beyond the newest.
LEMMA RetentionDeletes ==
    ASSUME StoreTypeOK, RetentionInv, NEW w \in Threads, DeleteNext(w) PROVE RetentionInv'
<1> DEFINE o == NextOf(w)
           i == run[w].plan
<1>1. /\ run[w] # NoRun /\ i \in DOMAIN plans /\ plans[i] \in Plan
      /\ o \in plans[i].deletes /\ o \in Objects /\ o \in told
      /\ o \in run[w].beyond /\ RunIsSound(w) /\ PlanIsSound(plans[i])
      /\ UNCHANGED <<told, flag>>
  BY NextIsTodo DEF DeleteNext, Running, RetentionInv
<1>2. CASE ~ StoredHolds(o)
  <2>1. run' = [run EXCEPT ![w] = NoRun] /\ plans' = [plans EXCEPT ![i] = plans[i]]
        /\ UNCHANGED <<told, asked, flag, call>>
    BY <1>1, <1>2 DEF DeleteNext, Stop, RetentionInv, RetentionTypeOK
  <2> QED BY <1>1, <2>1, PlanProgress
<1>3. CASE StoredHolds(o)
  <2> DEFINE q == [plans[i] EXCEPT !.pending = @ \cup {o}]
  <2>1. /\ plans' = [plans EXCEPT ![i] = q] /\ asked' = asked \cup {o} /\ run' = run
        /\ q \in Plan /\ q.deletes = plans[i].deletes /\ q.deleted = plans[i].deleted
        /\ q.pending = plans[i].pending \cup {o}
    BY <1>1, <1>3 DEF DeleteNext, Advance, Plan
  <2>2. PICK c : call' = [call EXCEPT ![w] = c] /\ c.of = o
    <3> DEFINE c == [op |-> "delete", of |-> o, step |-> "look", seen |-> evidence[o]]
    <3>1. call' = [call EXCEPT ![w] = c] /\ c.of = o
      BY <1>1, <1>3 DEF DeleteNext, Enter
    <3> HIDE DEF c
    <3> QED BY <3>1
  <2> HIDE DEF q, o, i
  <2>3. /\ DOMAIN plans' = DOMAIN plans /\ plans' \in Seq(Plan)
        /\ \A j \in DOMAIN plans : plans'[j] = IF j = i THEN q ELSE plans[j]
    BY <1>1, <2>1 DEF RetentionInv, RetentionTypeOK
  <2>4. \A j \in DOMAIN plans' : PlanIsSound(plans[j])'
    <3> SUFFICES ASSUME NEW j \in DOMAIN plans PROVE PlanIsSound(plans[j])'
      BY <2>3
    <3>1. CASE j = i
      BY <1>1, <2>1, <2>3, <3>1 DEF PlanIsSound
    <3>2. CASE j # i
      BY <1>1, <2>3, <3>2 DEF PlanIsSound, RetentionInv
    <3> QED BY <3>1, <3>2
  <2>5. told \subseteq Objects /\ asked \subseteq told /\ run[w].beyond \in SUBSET Objects
    BY <1>1 DEF StoreTypeOK, RetentionInv, RetentionTypeOK, RetentionRun
  <2>6. Cardinality(Newer(o, (told \ asked) \ run[w].beyond)) >= Keep
    BY <1>1 DEF RunIsSound
  <2>7. ASSUME NEW p \in asked' PROVE Cardinality(Newer(p, told \ asked')) >= Keep
    <3>1. \A x \in Objects : Age[x] \in Nat
      BY RetentionAssumption
    <3>2. CASE p = o
      <4>1. Newer(o, (told \ asked) \ run[w].beyond) \subseteq Newer(o, told \ asked')
        BY <1>1, <2>1 DEF Newer, o
      <4> QED BY <1>1, <2>5, <2>6, <3>2, <4>1, NewerGrows
    <3>3. CASE p \in asked /\ Age[o] <= Age[p]
      <4>1. Newer(p, told \ asked) \subseteq Newer(p, told \ asked')
        BY <1>1, <2>1, <2>5, <3>1, <3>3 DEF Newer
      <4>2. Cardinality(Newer(p, told \ asked)) >= Keep
        BY <3>3 DEF RetentionInv
      <4> QED BY <1>1, <2>5, <3>3, <4>1, <4>2, NewerGrows
    <3>4. CASE p \in asked /\ Age[o] > Age[p]
      <4>1. Newer(o, (told \ asked) \ run[w].beyond) \subseteq Newer(p, told \ asked')
        BY <1>1, <2>1, <2>5, <3>1, <3>4 DEF Newer, o
      <4> QED BY <1>1, <2>5, <2>6, <3>4, <4>1, NewerGrows
    <3>5. p \in asked => Age[o] <= Age[p] \/ Age[o] > Age[p]
      BY <1>1, <2>5, <3>1
    <3> QED BY <2>1, <2>7, <3>2, <3>3, <3>4, <3>5
  <2>8. ASSUME NEW v \in Threads, run'[v] # NoRun PROVE RunIsSound(v)'
    <3>1. v = w
      BY <1>1, <2>1, <2>8 DEF RetentionInv
    <3>2. \A x \in run[w].beyond : (told \ asked') \ run[w].beyond = (told \ asked) \ run[w].beyond
      BY <1>1, <2>1 DEF o
    <3>3. call'[w].of = o /\ run[w].flags[o] = "daily"
      BY <1>1, <2>2 DEF RunIsSound, StoreTypeOK, o
    <3> QED BY <1>1, <2>1, <2>3, <3>1, <3>2, <3>3 DEF RunIsSound, Newer, i
  <2> QED BY <1>1, <2>1, <2>3, <2>4, <2>7, <2>8 DEF RetentionInv, RetentionTypeOK, Newer
<1> QED BY <1>2, <1>3

LEMMA RetentionStep ==
    ASSUME StoreTypeOK, RetentionInv, [RetentionNext]_retentionVars PROVE RetentionInv'
<1>1. ASSUME NEW w \in Threads, SkipOrStop(w) PROVE RetentionInv'
  <2> DEFINE o == NextOf(w)
             i == run[w].plan
             q == [plans[i] EXCEPT !.pending = @ \ {o}, !.skipped = @ \cup {o}]
  <2>1. /\ i \in DOMAIN plans /\ plans[i] \in Plan /\ o \in Objects /\ PlanIsSound(plans[i])
        /\ UNCHANGED <<told, asked, flag, call>>
    BY <1>1, NextIsTodo DEF SkipOrStop, Running, RetentionInv, storeVars
  <2>2. q \in Plan /\ q.deletes = plans[i].deletes /\ PlanIsSound(q)
    <3>1. q \in Plan /\ q.deletes = plans[i].deletes /\ q.deleted = plans[i].deleted
          /\ q.pending = plans[i].pending \ {o}
      BY <2>1 DEF Plan
    <3> HIDE DEF q
    <3> QED BY <2>1, <3>1 DEF PlanIsSound
  <2>3. CASE Stop(w) /\ UNCHANGED plans
    <3>1. plans' = [plans EXCEPT ![i] = plans[i]]
      BY <2>1, <2>3 DEF RetentionInv, RetentionTypeOK
    <3> QED BY <2>1, <2>3, <3>1, PlanProgress DEF Stop
  <2>4. CASE Advance(i, q) /\ UNCHANGED run
    <3> HIDE DEF q
    <3> QED BY <2>1, <2>2, <2>4, PlanProgress DEF Advance
  <2> QED BY <1>1, <2>3, <2>4 DEF SkipOrStop
<1>2. ASSUME NEW w \in Threads, FinishRetention(w) PROVE RetentionInv'
  <2> DEFINE i == run[w].plan
             q == [plans[i] EXCEPT !.done = TRUE]
  <2>1. /\ i \in DOMAIN plans /\ plans[i] \in Plan /\ PlanIsSound(plans[i])
        /\ UNCHANGED <<told, asked, flag, call>>
        /\ plans' = [plans EXCEPT ![i] = q] /\ run' = [run EXCEPT ![w] = NoRun]
    <3>1. i \in DOMAIN plans
      BY <1>2 DEF FinishRetention, Running, RetentionInv, RunIsSound
    <3>2. plans[i] \in Plan /\ PlanIsSound(plans[i])
      BY <3>1 DEF RetentionInv, RetentionTypeOK
    <3> QED BY <1>2, <3>1, <3>2 DEF FinishRetention, storeVars, Advance, Stop
  <2>2. q \in Plan /\ q.deletes = plans[i].deletes /\ PlanIsSound(q)
    <3>1. q \in Plan /\ q.deletes = plans[i].deletes /\ q.deleted = plans[i].deleted
          /\ q.pending = plans[i].pending
      BY <2>1 DEF Plan
    <3> HIDE DEF q
    <3> QED BY <2>1, <3>1 DEF PlanIsSound
  <2> HIDE DEF q
  <2> QED BY <2>1, <2>2, PlanProgress
<1>3. ASSUME NEW cand \in Candidates, BuildPlan(cand) PROVE RetentionInv'
  <2>1. Doomed(Eligible(cand, flag, {})) \subseteq cand /\ cand \subseteq told
        /\ told \subseteq Objects
    BY DEF Doomed, Beyond, Eligible, Counted, Candidates, StoreTypeOK
  <2>2. PICK q \in Plan : /\ plans' = Append(plans, q) /\ q.deletes \subseteq told
                          /\ q.pending = {} /\ q.deleted = {}
    <3> DEFINE q == [cand |-> cand, flags |-> flag, deletes |-> Doomed(Eligible(cand, flag, {})),
                     deleted |-> {}, pending |-> {}, skipped |-> {}, done |-> FALSE]
    <3>1. q \in Plan
      BY <2>1 DEF Plan, RetentionInv, RetentionTypeOK
    <3>2. plans' = Append(plans, q) /\ q.deletes \subseteq told
          /\ q.pending = {} /\ q.deleted = {}
      BY <1>3, <2>1 DEF BuildPlan
    <3> HIDE DEF q
    <3> QED BY <3>1, <3>2
  <2>3. UNCHANGED <<told, asked, call, flag, run>>
    BY <1>3 DEF BuildPlan, storeVars
  <2>4. /\ plans' \in Seq(Plan) /\ DOMAIN plans \subseteq DOMAIN plans'
        /\ \A j \in DOMAIN plans : plans'[j] = plans[j]
        /\ \A j \in DOMAIN plans' \ DOMAIN plans : plans'[j] = q
    BY <2>2 DEF RetentionInv, RetentionTypeOK
  <2>5. ASSUME NEW j \in DOMAIN plans' PROVE PlanIsSound(plans[j])'
    <3>1. CASE j \in DOMAIN plans
      BY <2>3, <2>4, <3>1 DEF PlanIsSound, RetentionInv
    <3>2. CASE j \notin DOMAIN plans
      BY <2>2, <2>3, <2>4, <3>2 DEF PlanIsSound
    <3> QED BY <3>1, <3>2
  <2>6. ASSUME NEW w \in Threads, run'[w] # NoRun PROVE RunIsSound(w)'
    <3>1. RunIsSound(w) /\ run'[w] = run[w]
      BY <2>3, <2>6 DEF RetentionInv
    <3>2. run[w].plan \in DOMAIN plans' /\ plans'[run[w].plan] = plans[run[w].plan]
      BY <2>4, <3>1 DEF RunIsSound
    <3> QED BY <2>3, <3>1, <3>2 DEF RunIsSound, Newer
  <2> QED BY <2>3, <2>4, <2>5, <2>6 DEF RetentionInv, RetentionTypeOK, Newer
<1>4. ASSUME NEW w \in Threads, AfterDelete(w) PROVE RetentionInv'
  <2> DEFINE o == call[w].of
             i == run[w].plan
  <2>1. /\ run[w] # NoRun /\ RunIsSound(w) /\ i \in DOMAIN plans /\ call[w] # NoCall
        /\ o \in plans[i].deletes /\ UNCHANGED <<told, asked, flag>>
        /\ call' = [call EXCEPT ![w] = NoCall]
    BY <1>4 DEF AfterDelete, DeleteReturns, Calling, Leave, RetentionInv, RunIsSound
  <2>2. plans[i] \in Plan /\ PlanIsSound(plans[i]) /\ o \in Objects
    <3>1. plans[i] \in Plan /\ PlanIsSound(plans[i])
      BY <2>1 DEF RetentionInv, RetentionTypeOK
    <3> QED BY <2>1, <3>1 DEF Plan
  <2>3. PICK q \in Plan : /\ plans' = [plans EXCEPT ![i] = q] /\ PlanIsSound(q)
                          /\ q.deletes = plans[i].deletes
    <3>1. CASE UNCHANGED plans
      <4>1. plans' = [plans EXCEPT ![i] = plans[i]]
        BY <2>1, <3>1 DEF RetentionInv, RetentionTypeOK
      <4> QED BY <2>2, <4>1
    <3>2. CASE Advance(i, Settled(i, {o}))
      <4> DEFINE q == Settled(i, {o})
      <4>1. q \in Plan /\ q.deletes = plans[i].deletes
            /\ q.deleted = plans[i].deleted \cup {o} /\ q.pending = plans[i].pending \ {o}
        BY <2>2 DEF Settled, Plan
      <4> HIDE DEF q, o, i
      <4>2. PlanIsSound(q)
        BY <2>1, <2>2, <4>1 DEF PlanIsSound
      <4> QED BY <3>2, <4>1, <4>2 DEF Advance, q
    <3> QED BY <1>4, <3>1, <3>2 DEF AfterDelete
  <2>4. /\ DOMAIN plans' = DOMAIN plans /\ plans' \in Seq(Plan)
        /\ \A j \in DOMAIN plans : plans'[j] = IF j = i THEN q ELSE plans[j]
    BY <2>1, <2>3 DEF RetentionInv, RetentionTypeOK
  <2>5. ASSUME NEW j \in DOMAIN plans' PROVE PlanIsSound(plans[j])'
    <3>1. CASE j = i
      BY <2>1, <2>3, <2>4, <3>1 DEF PlanIsSound
    <3>2. CASE j # i
      BY <2>1, <2>4, <2>5, <3>2 DEF PlanIsSound, RetentionInv
    <3> QED BY <3>1, <3>2
  <2>6. /\ run' \in [Threads -> RetentionRun \cup {NoRun}]
        /\ \A v \in Threads : run'[v] # NoRun => run'[v] = run[v]
    BY <1>4 DEF AfterDelete, Stop, RetentionInv, RetentionTypeOK
  <2>7. ASSUME NEW v \in Threads, run'[v] # NoRun PROVE RunIsSound(v)'
    <3>1. RunIsSound(v) /\ run'[v] = run[v] /\ v = w
      BY <2>1, <2>6, <2>7 DEF RetentionInv
    <3>2. call'[v] = NoCall
      BY <2>1, <3>1 DEF StoreTypeOK
    <3> QED BY <2>1, <2>4, <3>1, <3>2 DEF RunIsSound, Newer
  <2> QED BY <2>1, <2>4, <2>5, <2>6, <2>7 DEF RetentionInv, RetentionTypeOK, Newer
\* A deletion of the store that goes on with the same object.
<1>5. ASSUME UNCHANGED <<told, asked, flag, plans>>,
             run' = run \/ run' = [w \in Threads |-> NoRun],
             \A w \in Threads : call'[w] = NoCall
                                \/ (call[w] # NoCall /\ call'[w].of = call[w].of)
      PROVE  RetentionInv'
  <2>1. ASSUME NEW w \in Threads, run'[w] # NoRun PROVE RunIsSound(w)'
    <3>1. RunIsSound(w) /\ run'[w] = run[w]
      BY <1>5, <2>1 DEF RetentionInv
    <3> QED BY <1>5, <3>1 DEF RunIsSound, Newer
  <2> QED BY <1>5, <2>1 DEF RetentionInv, RetentionTypeOK, PlanIsSound, Newer
<1>6. ASSUME NEW w \in Threads, Delete(w) \/ DeleteBreaks(w),
             UNCHANGED <<flag, plans, run, reflagged>>
      PROVE  RetentionInv'
  <2>1. call[w] # NoCall /\ UNCHANGED <<told, asked>>
    BY <1>6 DEF Delete, DeleteBreaks, Calling, Replies
  <2>2. \A v \in Threads : v # w => call'[v] = call[v]
    BY <1>6 DEF Delete, DeleteBreaks, DeleteLook, DeleteUnlink, DeleteMark, DeleteDirectory,
                DeleteForget, Go, Saw, StoreTypeOK
  <2>3. call'[w].of = call[w].of
    <3>1. call[w] \in Call
      BY <2>1 DEF StoreTypeOK
    <3> QED BY <1>6, <3>1 DEF Delete, DeleteBreaks, DeleteLook, DeleteUnlink, DeleteMark,
                DeleteDirectory, DeleteForget, Go, Saw, StoreTypeOK, Call
  <2> QED BY <1>5, <1>6, <2>1, <2>2, <2>3
<1>7. CASE Restart
  <2>1. /\ plans' = <<>> /\ run' = [w \in Threads |-> NoRun] /\ UNCHANGED <<told, asked, flag>>
    BY <1>7 DEF Restart, Crash, Replies
  <2>2. plans' \in Seq(Plan) /\ DOMAIN plans' = {}
    BY <2>1
  <2> QED BY <2>1, <2>2 DEF RetentionInv, RetentionTypeOK, Newer
<1>8. ASSUME NEW o \in Objects, Reflag(o) PROVE RetentionInv'
  <2>1. /\ flag' \in [Objects -> Flags] /\ UNCHANGED <<told, asked, plans, run, call>>
    BY <1>8 DEF Reflag, storeVars, RetentionInv, RetentionTypeOK
  <2>2. ASSUME NEW w \in Threads, run'[w] # NoRun PROVE RunIsSound(w)'
    <3>1. RunIsSound(w)
      BY <2>1, <2>2 DEF RetentionInv
    <3> QED BY <2>1, <3>1 DEF RunIsSound, Newer
  <2> QED BY <2>1, <2>2 DEF RetentionInv, RetentionTypeOK, PlanIsSound, Newer
<1>9. ASSUME NEW o \in Objects, Decay(o), UNCHANGED <<flag, plans, run, reflagged>>
      PROVE  RetentionInv'
  BY <1>5, <1>9 DEF Decay, Replies
<1>10. CASE UNCHANGED retentionVars
  BY <1>5, <1>10 DEF retentionVars, storeVars
<1> QED BY <1>1, <1>2, <1>3, <1>4, <1>6, <1>7, <1>8, <1>9, <1>10, RetentionBegins,
           RetentionDeletes DEF RetentionNext

LEMMA RetentionInitially == AllStored(Objects) => StoreInv /\ RetentionInv
  BY LocalStoreAssumption DEF AllStored, StoreInv, StoreTypeOK, OneStoreEach, ObjectIsSound,
     Exact, Evidences, RetentionInv, RetentionTypeOK, Flags

LEMMA RetentionInvariant ==
    ASSUME StoreInv, RetentionInv, [RetentionNext]_retentionVars
    PROVE  /\ StoreInv' /\ RetentionInv'
           /\ [Contract!ContractNext]_(Contract!contractVars)
  BY RetentionUsesStore, StoreStep, RetentionStep, LocalRefines DEF StoreInv

(* However plans grow old, executions fail and are repeated, and records    *)
(* change between them: of every backup retention asked the store to delete *)
(* there are Keep newer ones it did not, no plan deletes more than it says, *)
(* and only what the execution was told is a daily backup.                  *)
THEOREM RetentionKeepsTheNewest == RetentionSpec => []KeepsNewest
<1>1. StoreInv /\ RetentionInv /\ [RetentionNext]_retentionVars => StoreInv' /\ RetentionInv'
  BY RetentionInvariant
<1>2. RetentionInv => KeepsNewest
  BY DEF RetentionInv, RunIsSound, PlanIsSound, KeepsNewest
<1> QED BY <1>1, <1>2, RetentionInitially, PTL DEF RetentionSpec

(* Under retention the local store still keeps its promises: what was       *)
(* handed out is whole until retention has asked for its deletion.          *)
THEOREM StoreKeepsPromisesUnderRetention == RetentionSpec => KeepsPromises
<1>1. StoreInv /\ RetentionInv /\ [RetentionNext]_retentionVars
      => /\ StoreInv' /\ RetentionInv'
         /\ [Contract!ContractNext]_(Contract!contractVars)
  BY RetentionInvariant
<1> QED BY <1>1, RetentionInitially, PTL DEF RetentionSpec, KeepsPromises

-----------------------------------------------------------------------------
(* One execution of a backup.                                               *)

Tasks == [do : {"make", "hand", "try", "again", "settle", "intact", "stat", "verify", "store"},
          p : Places \cup {"none", "exports", "stored"}]

\* A list of calls that makes products of M, each at most once.
Calls(ops, M) ==
    /\ ops \in Seq(Tasks)
    /\ \A i \in DOMAIN ops : ops[i].do = "make" => ops[i].p \in M
    /\ \A i, j \in DOMAIN ops :
          ops[i].do = "make" /\ ops[j].do = "make" /\ ops[i].p = ops[j].p => i = j

LEMMA CallsOne ==
    ASSUME NEW t \in Tasks, NEW M, t.do = "make" => t.p \in M
    PROVE  Calls(<<t>>, M)
<1>1. <<t>> \in Seq(Tasks) /\ DOMAIN <<t>> = {1} /\ <<t>>[1] = t
  OBVIOUS
<1> QED BY <1>1 DEF Calls

LEMMA CallsNone == ASSUME NEW M PROVE Calls(<<>>, M)
BY DEF Calls

LEMMA CallsMore ==
    ASSUME NEW a, NEW M, NEW N, Calls(a, M), M \subseteq N
    PROVE  Calls(a, N)
BY DEF Calls

LEMMA CallsBoth ==
    ASSUME NEW a, NEW b, NEW M, NEW N, Calls(a, M), Calls(b, N), M \cap N = {}
    PROVE  Calls(a \o b, M \cup N)
<1>1. a \in Seq(Tasks) /\ b \in Seq(Tasks) /\ a \o b \in Seq(Tasks)
  BY DEF Calls
<1>2. \A i \in DOMAIN (a \o b) :
         \/ i \in DOMAIN a /\ (a \o b)[i] = a[i]
         \/ i - Len(a) \in DOMAIN b /\ (a \o b)[i] = b[i - Len(a)]
  BY <1>1
<1>3. \A i \in DOMAIN (a \o b) : i \in Nat /\ Len(a) \in Nat
  BY <1>1
<1> DEFINE c == a \o b
<1>4. \A i \in DOMAIN c : c[i].do = "make" => c[i].p \in M \cup N
  <2> SUFFICES ASSUME NEW i \in DOMAIN c, c[i].do = "make" PROVE c[i].p \in M \cup N
    OBVIOUS
  <2>1. CASE i \in DOMAIN a /\ c[i] = a[i]
    BY <2>1 DEF Calls
  <2>2. CASE i - Len(a) \in DOMAIN b /\ c[i] = b[i - Len(a)]
    BY <2>2 DEF Calls
  <2> QED BY <1>2, <2>1, <2>2
<1>5. \A i, j \in DOMAIN c : c[i].do = "make" /\ c[j].do = "make" /\ c[i].p = c[j].p => i = j
  <2> SUFFICES ASSUME NEW i \in DOMAIN c, NEW j \in DOMAIN c,
                      c[i].do = "make", c[j].do = "make", c[i].p = c[j].p
               PROVE  i = j
    OBVIOUS
  <2>1. CASE i \in DOMAIN a /\ c[i] = a[i] /\ j \in DOMAIN a /\ c[j] = a[j]
    BY <2>1 DEF Calls
  <2>2. CASE i \in DOMAIN a /\ c[i] = a[i] /\ j - Len(a) \in DOMAIN b /\ c[j] = b[j - Len(a)]
    <3>1. c[i].p \in M /\ c[j].p \in N
      BY <2>2 DEF Calls
    <3> QED BY <3>1
  <2>3. CASE i - Len(a) \in DOMAIN b /\ c[i] = b[i - Len(a)] /\ j \in DOMAIN a /\ c[j] = a[j]
    <3>1. c[i].p \in N /\ c[j].p \in M
      BY <2>3 DEF Calls
    <3> QED BY <3>1
  <2>4. CASE i - Len(a) \in DOMAIN b /\ c[i] = b[i - Len(a)]
             /\ j - Len(a) \in DOMAIN b /\ c[j] = b[j - Len(a)]
    <3>1. i - Len(a) = j - Len(a)
      <4>1. PICK x \in DOMAIN b : x = i - Len(a)
        BY <2>4
      <4>2. PICK y \in DOMAIN b : y = j - Len(a)
        BY <2>4
      <4>3. b[x].do = "make" /\ b[y].do = "make" /\ b[x].p = b[y].p
        BY <2>4, <4>1, <4>2
      <4> HIDE DEF c
      <4> QED BY <4>1, <4>2, <4>3 DEF Calls
    <3> HIDE DEF c
    <3> QED BY <3>1, <1>3 DEF c
  <2> HIDE DEF c
  <2>5. \/ i \in DOMAIN a /\ c[i] = a[i]
        \/ i - Len(a) \in DOMAIN b /\ c[i] = b[i - Len(a)]
    BY <1>2 DEF c
  <2>6. \/ j \in DOMAIN a /\ c[j] = a[j]
        \/ j - Len(a) \in DOMAIN b /\ c[j] = b[j - Len(a)]
    BY <1>2 DEF c
  <2> QED BY <2>1, <2>2, <2>3, <2>4, <2>5, <2>6
<1> QED BY <1>1, <1>4, <1>5 DEF Calls

LEMMA CallsTail ==
    ASSUME NEW a, NEW M, Calls(a, M), a # <<>>
    PROVE  /\ Calls(Tail(a), M) /\ Head(a) = a[1] /\ 1 \in DOMAIN a
           /\ \A i \in DOMAIN Tail(a) :
                 i + 1 \in DOMAIN a /\ i + 1 # 1 /\ Tail(a)[i] = a[i + 1]
<1>1. a \in Seq(Tasks) /\ Len(a) \in Nat /\ Len(a) > 0
  BY DEF Calls
<1>2. Tail(a) \in Seq(Tasks) /\ Head(a) = a[1] /\ 1 \in DOMAIN a
  BY <1>1
<1>3. \A i \in DOMAIN Tail(a) :
         i \in Nat /\ i + 1 \in DOMAIN a /\ i + 1 # 1 /\ Tail(a)[i] = a[i + 1]
  BY <1>1
<1>4. \A i \in DOMAIN Tail(a) : Tail(a)[i].do = "make" => Tail(a)[i].p \in M
  BY <1>3 DEF Calls
<1>5. \A i, j \in DOMAIN Tail(a) :
         Tail(a)[i].do = "make" /\ Tail(a)[j].do = "make" /\ Tail(a)[i].p = Tail(a)[j].p => i = j
  <2> SUFFICES ASSUME NEW i \in DOMAIN Tail(a), NEW j \in DOMAIN Tail(a),
                      Tail(a)[i].do = "make", Tail(a)[j].do = "make",
                      Tail(a)[i].p = Tail(a)[j].p
               PROVE  i = j
    OBVIOUS
  <2>1. i + 1 = j + 1
    BY <1>3 DEF Calls
  <2> QED BY <1>3, <2>1
<1> QED BY <1>2, <1>3, <1>4, <1>5 DEF Calls

LEMMA CallsEach ==
    ASSUME NEW do \in {"make", "hand", "try", "again", "settle", "intact", "stat", "verify", "store"},
           NEW plan \in Seq(Places), NEW M,
           do = "make" => /\ \A i \in DOMAIN plan : plan[i] \in M
                          /\ \A i, j \in DOMAIN plan : plan[i] = plan[j] => i = j
    PROVE  Calls(Each(do, plan), M)
<1>1. DOMAIN plan = 1 .. Len(plan) /\ Len(plan) \in Nat
  OBVIOUS
<1>2. \A i \in DOMAIN plan : Op(do, plan[i]) \in Tasks
  BY DEF Op, Tasks
<1> DEFINE e == [i \in DOMAIN plan |-> Op(do, plan[i])]
<1>3. e \in Seq(Tasks) /\ DOMAIN e = DOMAIN plan
  BY <1>1, <1>2
<1>4. \A i \in DOMAIN plan : e[i].do = do /\ e[i].p = plan[i]
  BY DEF Op
<1>5. e = Each(do, plan)
  BY DEF Each
<1> HIDE DEF e
<1> QED BY <1>3, <1>4, <1>5 DEF Calls

\* The products of a stage.
ProductsOf(s) ==
    IF s = "snapshot" THEN {"snapshot"}
    ELSE IF s = "export" THEN Exports
    ELSE IF s = "manifest" THEN Captures \cup {"manifest"}
    ELSE IF s = "package" THEN {"package"}
    ELSE IF s = "verification" THEN {"evidence"}
    ELSE IF s = "encryption" THEN {"sealed"} ELSE {}

LEMMA StagePositions ==
    /\ Position("snapshot") = 1 /\ Position("export") = 2 /\ Position("manifest") = 3
    /\ Position("package") = 4 /\ Position("verification") = 5
    /\ Position("encryption") = 6 /\ Position("durable") = 7
<1>1. DOMAIN Stages = {1, 2, 3, 4, 5, 6, 7}
  BY DEF Stages
<1>2. /\ Stages[1] = "snapshot" /\ Stages[2] = "export" /\ Stages[3] = "manifest"
      /\ Stages[4] = "package" /\ Stages[5] = "verification"
      /\ Stages[6] = "encryption" /\ Stages[7] = "durable"
  BY DEF Stages
<1>3. \A i, j \in DOMAIN Stages : Stages[i] = Stages[j] => i = j
  BY <1>1, <1>2
<1>4. \A s, i : i \in DOMAIN Stages /\ Stages[i] = s => Position(s) = i
  BY <1>3 DEF Position
<1> QED BY <1>1, <1>2, <1>4

LEMMA StageNames ==
    /\ \A s : s \in {"snapshot", "export", "manifest", "package", "verification",
                     "encryption"} =>
          Stages[Position(s) + 1] \in {"export", "manifest", "package", "verification",
                                       "encryption", "durable"}
    /\ Stages[Position("snapshot") + 1] = "export"
    /\ Stages[Position("export") + 1] = "manifest"
    /\ Stages[Position("manifest") + 1] = "package"
    /\ Stages[Position("package") + 1] = "verification"
    /\ Stages[Position("verification") + 1] = "encryption"
    /\ Stages[Position("encryption") + 1] = "durable"
BY StagePositions DEF Stages

LEMMA PlacesDiffer ==
    /\ Exports \subseteq Places /\ Captures \subseteq Places
    /\ ExportPlan \in Seq(Places) /\ CapturePlan \in Seq(Places)
    /\ \A i \in DOMAIN ExportPlan : ExportPlan[i] \in Exports
    /\ \A i \in DOMAIN CapturePlan : CapturePlan[i] \in Captures
    /\ {"snapshot", "manifest", "package", "evidence", "sealed"} \subseteq Places
    /\ \A p \in Inputs : p \notin {"snapshot", "manifest", "package", "evidence", "sealed", "none"}
    /\ Exports \cap Captures = {} /\ Inputs = Exports \cup Captures
<1>1. Exports \subseteq Places /\ Captures \subseteq Places
  BY DEF Places, Inputs
<1>2. ExportPlan \in Seq(Places) /\ CapturePlan \in Seq(Places)
  BY <1>1, PlansAssumption
<1>3. /\ \A i \in DOMAIN ExportPlan : ExportPlan[i] \in Exports
      /\ \A i \in DOMAIN CapturePlan : CapturePlan[i] \in Captures
  BY DEF Exports, Captures, Range
<1> QED BY <1>1, <1>2, <1>3, PlansAssumption DEF Places, Inputs

\* A plan turned around is one, and so is its beginning.
LEMMA ReversedPlan ==
    ASSUME NEW plan \in Seq(Places)
    PROVE  Reverse(plan) \in Seq(Places)
<1>1. Len(plan) \in Nat /\ \A i \in 1 .. Len(plan) : plan[(Len(plan) - i) + 1] \in Places
  OBVIOUS
<1> QED BY <1>1 DEF Reverse

LEMMA MadeOfPlan ==
    ASSUME NEW plan \in Seq(Places)
    PROVE  Made(plan) \in Seq(Places)
<1> DEFINE begun == {i \in DOMAIN plan : ledger[plan[i]] # "new"}
<1>1. PICK n \in Nat : n = Len(plan)
  OBVIOUS
<1>2. DOMAIN plan = 1 .. n
  BY <1>1
<1>3. IsFiniteSet(1 .. n) /\ Cardinality(1 .. n) = n
  BY FS_Interval
<1>4. IsFiniteSet(begun) /\ Cardinality(begun) \in Nat /\ Cardinality(begun) <= n
  <2>1. begun \subseteq 1 .. n
    BY <1>2
  <2> HIDE DEF begun
  <2> QED BY <1>3, <2>1, FS_Subset, FS_CardinalityType
<1>5. PICK k \in Nat : k = Cardinality(begun) /\ k <= Len(plan)
  BY <1>1, <1>4
<1>6. Made(plan) = SubSeq(plan, 1, k)
  BY <1>5 DEF Made
<1> HIDE DEF begun
<1> QED BY <1>5, <1>6

LEMMA TriesOfPlan ==
    ASSUME NEW plan \in Seq(Places)
    PROVE  Calls(Each("try", Reverse(plan)), {}) /\ Calls(Removing(plan), {})
<1>1. Reverse(plan) \in Seq(Places) /\ Reverse(Made(plan)) \in Seq(Places)
  BY ReversedPlan, MadeOfPlan
<1> QED BY <1>1, CallsEach DEF Removing

LEMMA OpIsTask ==
    ASSUME NEW do \in {"make", "hand", "try", "again", "settle", "intact", "stat", "verify", "store"},
           NEW p \in Places \cup {"none", "exports", "stored"}
    PROVE  Op(do, p) \in Tasks /\ Op(do, p).do = do /\ Op(do, p).p = p
BY DEF Op, Tasks

\* A call that makes nothing, and one that makes p, before others.
LEMMA CallsFirst ==
    ASSUME NEW do \in {"hand", "try", "again", "settle", "intact", "stat", "verify", "store"},
           NEW p \in Places \cup {"none", "exports", "stored"}, NEW M
    PROVE  Calls(<<Op(do, p)>>, {}) /\ Calls(<<Op(do, p)>>, M)
<1>1. do # "make" /\ Op(do, p) \in Tasks /\ Op(do, p).do = do
  BY OpIsTask
<1> QED BY <1>1, CallsOne

LEMMA CallsMake ==
    ASSUME NEW p \in Places
    PROVE  Calls(<<Op("make", p)>>, {p})
<1>1. Op("make", p) \in Tasks /\ Op("make", p).p = p
  BY OpIsTask
<1> QED BY <1>1, CallsOne

\* Calls that make nothing before or after others.
LEMMA CallsThen ==
    ASSUME NEW a, NEW b, NEW M, Calls(a, M), Calls(b, {})
    PROVE  Calls(a \o b, M) /\ Calls(b \o a, M)
<1>1. Calls(a \o b, M \cup {}) /\ Calls(b \o a, {} \cup M)
  BY CallsBoth
<1>2. M \cup {} = M /\ {} \cup M = M
  OBVIOUS
<1> QED BY <1>1, <1>2

\* A few calls, of which at most the one at k makes something.
LEMMA CallsOnce ==
    ASSUME NEW ops \in Seq(Tasks), NEW k, NEW M,
           \A i \in DOMAIN ops : ops[i].do = "make" => i = k /\ ops[i].p \in M
    PROVE  Calls(ops, M)
BY DEF Calls

\* Three calls, of which at most one makes something.
LEMMA CallsThree ==
    ASSUME NEW a \in Tasks, NEW b \in Tasks, NEW c \in Tasks, NEW M,
           a.do = "make" => a.p \in M /\ b.do # "make" /\ c.do # "make",
           b.do = "make" => b.p \in M /\ a.do # "make" /\ c.do # "make",
           c.do # "make"
    PROVE  Calls(<<a, b, c>>, M)
<1>1. <<a, b, c>> \in Seq(Tasks) /\ DOMAIN <<a, b, c>> = {1, 2, 3}
  OBVIOUS
<1>2. <<a, b, c>>[1] = a /\ <<a, b, c>>[2] = b /\ <<a, b, c>>[3] = c
  OBVIOUS
<1> QED BY <1>1, <1>2 DEF Calls

LEMMA SnapshotCalls == Calls(SnapshotStage, ProductsOf("snapshot"))
<1>1. PICK a \in Tasks : a = Op("make", "snapshot")
  BY OpIsTask, PlacesDiffer
<1>2. PICK b \in Tasks : b = Op("hand", "snapshot")
  BY OpIsTask, PlacesDiffer
<1>3. a.do = "make" /\ a.p = "snapshot" /\ b.do = "hand"
  BY <1>1, <1>2 DEF Op
<1>4. <<a, b>> \in Seq(Tasks) /\ DOMAIN <<a, b>> = {1, 2} /\ <<a, b>>[1] = a /\ <<a, b>>[2] = b
  OBVIOUS
<1>5. Calls(<<a, b>>, {"snapshot"})
  BY <1>3, <1>4 DEF Calls
<1> QED BY <1>1, <1>2, <1>5 DEF SnapshotStage, ProductsOf

LEMMA ExportCalls == Calls(ExportStage, ProductsOf("export"))
<1>1. Calls(Each("make", ExportPlan), Exports)
  BY PlacesDiffer, PlansAssumption, CallsEach
<1>2. Calls(<<Op("try", "snapshot"), Op("settle", "none"), Op("hand", "exports")>>, {})
  <2>1. PICK a \in Tasks : a = Op("try", "snapshot")
    BY OpIsTask, PlacesDiffer
  <2>2. PICK b \in Tasks : b = Op("settle", "none")
    BY OpIsTask, PlacesDiffer
  <2>3. PICK c \in Tasks : c = Op("hand", "exports")
    BY OpIsTask, PlacesDiffer
  <2>4. a.do = "try" /\ b.do = "settle" /\ c.do = "hand"
    BY <2>1, <2>2, <2>3 DEF Op
  <2>5. Calls(<<a, b, c>>, {})
    BY <2>4, CallsThree
  <2> QED BY <2>1, <2>2, <2>3, <2>5
<1> QED BY <1>1, <1>2, CallsThen DEF ExportStage, ProductsOf

LEMMA ManifestCalls == Calls(ManifestStage, ProductsOf("manifest"))
<1>1. Calls(Each("make", CapturePlan), Captures)
  BY PlacesDiffer, PlansAssumption, CallsEach
<1>2. /\ Calls(Each("intact", ExportPlan), {}) /\ Calls(Each("intact", CapturePlan), {})
      /\ Calls(<<Op("stat", "none")>>, {})
  BY CallsFirst, CallsEach, PlacesDiffer
<1>3. Calls(<<Op("make", "manifest"), Op("intact", "manifest"), Op("hand", "manifest")>>, {"manifest"})
  <2>1. PICK a \in Tasks : a = Op("make", "manifest")
    BY OpIsTask, PlacesDiffer
  <2>2. PICK b \in Tasks : b = Op("intact", "manifest")
    BY OpIsTask, PlacesDiffer
  <2>3. PICK c \in Tasks : c = Op("hand", "manifest")
    BY OpIsTask, PlacesDiffer
  <2>4. a.do = "make" /\ a.p = "manifest" /\ b.do = "intact" /\ c.do = "hand"
    BY <2>1, <2>2, <2>3 DEF Op
  <2>5. Calls(<<a, b, c>>, {"manifest"})
    BY <2>4, CallsThree
  <2> QED BY <2>1, <2>2, <2>3, <2>5
<1>4. Calls(Each("intact", ExportPlan) \o <<Op("stat", "none")>>, {})
  BY <1>2, CallsThen
<1>5. Calls(Each("intact", ExportPlan) \o <<Op("stat", "none")>>
            \o Each("make", CapturePlan), Captures)
  BY <1>1, <1>4, CallsThen
<1>6. Calls(Each("intact", ExportPlan) \o <<Op("stat", "none")>>
            \o Each("make", CapturePlan) \o Each("intact", CapturePlan), Captures)
  BY <1>2, <1>5, CallsThen
<1>7. Captures \cap {"manifest"} = {}
  BY PlacesDiffer
<1> QED BY <1>3, <1>6, <1>7, CallsBoth DEF ManifestStage, ProductsOf

LEMMA PackageCalls == Calls(PackageStage, ProductsOf("package"))
<1>1. Calls(<<Op("make", "package"), Op("intact", "package"), Op("try", "manifest")>>, {"package"})
  <2>1. PICK a \in Tasks : a = Op("make", "package")
    BY OpIsTask, PlacesDiffer
  <2>2. PICK b \in Tasks : b = Op("intact", "package")
    BY OpIsTask, PlacesDiffer
  <2>3. PICK c \in Tasks : c = Op("try", "manifest")
    BY OpIsTask, PlacesDiffer
  <2>4. a.do = "make" /\ a.p = "package" /\ b.do = "intact" /\ c.do = "try"
    BY <2>1, <2>2, <2>3 DEF Op
  <2>5. Calls(<<a, b, c>>, {"package"})
    BY <2>4, CallsThree
  <2> QED BY <2>1, <2>2, <2>3, <2>5
<1>2. Calls(<<Op("settle", "none"), Op("intact", "package"), Op("hand", "package")>>, {})
  <2>1. PICK a \in Tasks : a = Op("settle", "none")
    BY OpIsTask, PlacesDiffer
  <2>2. PICK b \in Tasks : b = Op("intact", "package")
    BY OpIsTask, PlacesDiffer
  <2>3. PICK c \in Tasks : c = Op("hand", "package")
    BY OpIsTask, PlacesDiffer
  <2>4. a.do = "settle" /\ b.do = "intact" /\ c.do = "hand"
    BY <2>1, <2>2, <2>3 DEF Op
  <2>5. Calls(<<a, b, c>>, {})
    BY <2>4, CallsThree
  <2> QED BY <2>1, <2>2, <2>3, <2>5
<1>3. /\ Calls(Each("try", Reverse(CapturePlan)), {})
      /\ Calls(Each("try", Reverse(ExportPlan)), {})
  BY TriesOfPlan, PlacesDiffer
<1>4. Calls(<<Op("make", "package"), Op("intact", "package"), Op("try", "manifest")>>
            \o Each("try", Reverse(CapturePlan)), {"package"})
  BY <1>1, <1>3, CallsThen
<1>5. Calls(<<Op("make", "package"), Op("intact", "package"), Op("try", "manifest")>>
            \o Each("try", Reverse(CapturePlan)) \o Each("try", Reverse(ExportPlan)), {"package"})
  BY <1>3, <1>4, CallsThen
<1> QED BY <1>2, <1>5, CallsThen DEF PackageStage, ProductsOf

LEMMA VerificationCalls == Calls(VerificationStage, ProductsOf("verification"))
<1>1. Calls(<<Op("verify", "package"), Op("make", "evidence"), Op("hand", "evidence")>>, {"evidence"})
  <2>1. PICK a \in Tasks : a = Op("verify", "package")
    BY OpIsTask, PlacesDiffer
  <2>2. PICK b \in Tasks : b = Op("make", "evidence")
    BY OpIsTask, PlacesDiffer
  <2>3. PICK c \in Tasks : c = Op("hand", "evidence")
    BY OpIsTask, PlacesDiffer
  <2>4. a.do = "verify" /\ b.do = "make" /\ b.p = "evidence" /\ c.do = "hand"
    BY <2>1, <2>2, <2>3 DEF Op
  <2>5. Calls(<<a, b, c>>, {"evidence"})
    BY <2>4, CallsThree
  <2> QED BY <2>1, <2>2, <2>3, <2>5
<1> QED BY <1>1 DEF VerificationStage, ProductsOf

LEMMA EncryptionCalls == Calls(EncryptionStage, ProductsOf("encryption"))
<1> DEFINE ops == EncryptionStage
<1>1. /\ Op("intact", "package") \in Tasks /\ Op("intact", "evidence") \in Tasks
      /\ Op("make", "sealed") \in Tasks /\ Op("try", "package") \in Tasks
      /\ Op("hand", "sealed") \in Tasks /\ Op("again", "package") \in Tasks
      /\ Op("intact", "sealed") \in Tasks
  BY OpIsTask, PlacesDiffer
<1>2. ops \in Seq(Tasks) /\ DOMAIN ops = {1, 2, 3, 4, 5, 6, 7}
  BY <1>1 DEF EncryptionStage
<1>3. /\ ops[1].do = "intact" /\ ops[2].do = "intact" /\ ops[3].do = "make"
      /\ ops[3].p = "sealed" /\ ops[4].do = "try" /\ ops[5].do = "hand"
      /\ ops[6].do = "again" /\ ops[7].do = "intact"
  BY DEF EncryptionStage, Op
<1> HIDE DEF ops
<1>4. Calls(ops, {"sealed"})
  BY <1>2, <1>3, CallsOnce
<1> QED BY <1>4 DEF ops, ProductsOf

LEMMA DurableCalls == Calls(DurableStage, ProductsOf("durable"))
<1> DEFINE ops == DurableStage
<1>1. /\ Op("store", "sealed") \in Tasks /\ Op("try", "sealed") \in Tasks
      /\ Op("hand", "stored") \in Tasks /\ Op("again", "sealed") \in Tasks
  BY OpIsTask, PlacesDiffer
<1>2. ops \in Seq(Tasks) /\ DOMAIN ops = {1, 2, 3, 4}
  BY <1>1 DEF DurableStage
<1>3. /\ ops[1].do = "store" /\ ops[2].do = "try" /\ ops[3].do = "hand"
      /\ ops[4].do = "again"
  BY DEF DurableStage, Op
<1> HIDE DEF ops
<1>4. Calls(ops, {})
  BY <1>2, <1>3 DEF Calls
<1> QED BY <1>4 DEF ops, ProductsOf

LEMMA StageCalls ==
    ASSUME NEW s \in {"snapshot", "export", "manifest", "package", "verification",
                      "encryption", "durable"}
    PROVE  Calls(CallsOf(s), ProductsOf(s))
BY SnapshotCalls, ExportCalls, ManifestCalls, PackageCalls, VerificationCalls,
   EncryptionCalls, DurableCalls DEF CallsOf

\* What a failing stage or the end of the execution calls makes nothing.
LEMMA WhenCalls ==
    ASSUME NEW ops, Calls(ops, {}), NEW condition
    PROVE  Calls(When(condition, ops), {})
BY CallsNone DEF When

LEMMA RecoveryCalls == Calls(Recovery, {})
<1>1. Calls(Removing(ExportPlan), {}) /\ Calls(Removing(CapturePlan), {})
  BY TriesOfPlan, PlacesDiffer
<1>2. Calls(Removing(<<"manifest">>), {})
  <2>1. <<"manifest">> \in Seq(Places)
    BY PlacesDiffer
  <2> QED BY <2>1, TriesOfPlan
<1>3. Calls(<<Op("try", "snapshot")>>, {})
  BY CallsFirst, PlacesDiffer
<1>4. Calls(ExportRecovery, {})
  BY <1>1, <1>3, CallsNone, CallsThen DEF ExportRecovery, When
<1>5. Calls(ManifestRecovery, {})
  BY <1>1, <1>2, CallsThen DEF ManifestRecovery
<1> QED BY <1>4, <1>5, CallsNone DEF Recovery

LEMMA TransientCalls == Calls(Transients, {})
<1> DEFINE ofEvidence == When("evidence" \in held, <<Op("try", "evidence")>>)
           ofSealed == When("sealed" \in held /\ "stored" \notin held /\ ~attempted,
                          <<Op("try", "sealed")>>)
           ofPackage == When("package" \in held /\ "sealed" \notin held, <<Op("try", "package")>>)
           ofInputs == IF "manifest" \in held /\ "package" \notin held
                     THEN <<Op("try", "manifest")>> \o Each("try", Reverse(CapturePlan))
                          \o Each("try", Reverse(ExportPlan))
                     ELSE When("exports" \in held, Each("try", Reverse(ExportPlan)))
           ofSnapshot == When("snapshot" \in held, <<Op("try", "snapshot")>>)
<1>1. /\ Calls(<<Op("try", "evidence")>>, {}) /\ Calls(<<Op("try", "sealed")>>, {})
      /\ Calls(<<Op("try", "package")>>, {}) /\ Calls(<<Op("try", "manifest")>>, {})
      /\ Calls(<<Op("try", "snapshot")>>, {})
  BY CallsFirst, PlacesDiffer
<1>2. /\ Calls(Each("try", Reverse(CapturePlan)), {})
      /\ Calls(Each("try", Reverse(ExportPlan)), {})
  BY TriesOfPlan, PlacesDiffer
<1>3. Calls(ofEvidence, {}) /\ Calls(ofSealed, {}) /\ Calls(ofPackage, {}) /\ Calls(ofSnapshot, {})
  BY <1>1, CallsNone DEF When
<1>4. Calls(ofInputs, {})
  BY <1>1, <1>2, CallsNone, CallsThen DEF When
<1>5. Transients = ofEvidence \o ofSealed \o ofPackage \o ofInputs \o ofSnapshot
  BY DEF Transients
<1> HIDE DEF ofEvidence, ofSealed, ofPackage, ofInputs, ofSnapshot
<1>6. Calls(ofEvidence \o ofSealed, {})
  BY <1>3, CallsThen
<1>7. Calls(ofEvidence \o ofSealed \o ofPackage \o ofInputs, {})
  BY <1>3, <1>4, <1>6, CallsThen
<1> QED BY <1>3, <1>5, <1>7, CallsThen

-----------------------------------------------------------------------------
\* The inductive invariant: what is registered was written and is as it was
\* checked; a call that makes a product finds it new; copies are sound.

Bytes == {"none", "rows", "odd", "old", "new", "gone", "mixed"}
Body == [form : {"none", "full", "odd"}, says : [Inputs -> Bytes], has : [Inputs -> Bytes]]
Phases == {"snapshot", "export", "manifest", "package", "verification", "encryption", "durable"}

PipelineTypes ==
    /\ body \in [Places -> Body]
    /\ ledger \in [Places -> {"new", "published", "unlinked", "cleaned"}]
    /\ source \in [Captures -> {"old", "new", "gone"}]
    /\ stage \in Phases \cup {"transients", "over"}
    /\ Calls(todo, ProductsOf(stage))

SoundCopy(b) ==
    b.form = "full" => b.says = b.has /\ \A c \in Captures : b.has[c] = "old"

IsWritten(p) == body[p].form \in {"full", "odd"}

RegisteredIsWritten == \A p \in Places : ledger[p] = "published" /\ p # "snapshot" =>
    IsWritten(p) /\ (p \in Captures => body[p].has[p] = "old")

CopiesAreSound ==
    /\ SoundCopy(body["package"]) /\ SoundCopy(body["sealed"])
    /\ \A i \in DOMAIN object : object[i].form = "full" /\ SoundCopy(object[i])

\* The call that is running; its file has been written from some step on.
Filled == {"more", "check", "link", "drop", "confirm"}

MakingHolds(p) ==
    /\ step # "made" => ledger[p] = "new"
    /\ step \in Filled => IsWritten(p)
    /\ p \in Captures =>
          /\ step \in {"more", "check"} /\ source[p] = "old" => body[p].has[p] = "old"
          /\ step \in {"link", "drop", "confirm"} => body[p].has[p] = "old"

CleaningHolds(p) == step = "rmdir" => ledger[p] # "new" \/ p = "snapshot"

CallHolds == todo # <<>> =>
    /\ todo[1].do = "make" => MakingHolds(todo[1].p)
    /\ todo[1].do \in {"try", "again"} => CleaningHolds(todo[1].p)

\* The calls that are still to come, in this stage and in later ones.
PendingIsNew == \A i \in DOMAIN todo :
    todo[i].do = "make" /\ (i = 1 => step # "made") => ledger[todo[i].p] = "new"

LaterIsNew == stage \in Phases =>
    \A s \in Phases : Position(s) > Position(stage) =>
        \A p \in ProductsOf(s) : ledger[p] = "new"

PipelineInv ==
    /\ PipelineTypes /\ RegisteredIsWritten /\ CopiesAreSound
    /\ CallHolds /\ PendingIsNew /\ LaterIsNew

LEMMA BlankIsBody == Blank \in Body /\ Blank.form = "none"
BY DEF Blank, Body, Nothing, Bytes

LEMMA ProductsArePlaces ==
    ASSUME NEW s
    PROVE  ProductsOf(s) \subseteq Places
BY PlacesDiffer DEF ProductsOf

LEMMA ProductsDiffer ==
    ASSUME NEW s \in Phases, NEW t \in Phases, NEW p, p \in ProductsOf(s), p \in ProductsOf(t)
    PROVE  s = t
BY PlacesDiffer DEF ProductsOf, Phases

LEMMA StartIsFresh ==
    ASSUME NEW ops
    PROVE  Start(ops) \in {"idle", "mkdir", "unlink"}
BY DEF Start

\* Whenever the next calls are given, nothing of them has run.
LEMMA ContinueHolds ==
    ASSUME PipelineInv, NEW ops, Continue(ops), UNCHANGED <<body, ledger, source>>,
           stage' \in Phases \cup {"transients", "over"},
           Calls(ops, ProductsOf(stage')),
           \A i \in DOMAIN ops : ops[i].do = "make" => ledger[ops[i].p] = "new",
           CopiesAreSound', LaterIsNew'
    PROVE  PipelineInv'
<1>1. todo' = ops /\ step' \in {"idle", "mkdir", "unlink"}
  BY StartIsFresh DEF Continue
<1>2. PipelineTypes'
  BY <1>1 DEF PipelineInv, PipelineTypes, Calls, ProductsOf
<1>3. RegisteredIsWritten'
  BY DEF PipelineInv, RegisteredIsWritten, IsWritten
<1>4. PendingIsNew'
  BY <1>1 DEF PendingIsNew
<1>5. CallHolds'
  <2>1. ops # <<>> => 1 \in DOMAIN ops
    BY DEF Calls
  <2> QED BY <1>1, <2>1 DEF CallHolds, MakingHolds, CleaningHolds, Filled
<1> QED BY <1>2, <1>3, <1>4, <1>5 DEF PipelineInv

\* The stage goes on, or it fails.
LEMMA ProceedHolds ==
    ASSUME PipelineInv, todo # <<>>, Proceed, UNCHANGED <<body, ledger, source, stage>>,
           CopiesAreSound'
    PROVE  PipelineInv'
<1>1. Calls(todo, ProductsOf(stage))
  BY DEF PipelineInv, PipelineTypes
<1>2. /\ Calls(Tail(todo), ProductsOf(stage))
      /\ \A i \in DOMAIN Tail(todo) :
            i + 1 \in DOMAIN todo /\ i + 1 # 1 /\ Tail(todo)[i] = todo[i + 1]
  BY <1>1, CallsTail
<1>3. \A i \in DOMAIN Tail(todo) : Tail(todo)[i].do = "make" => ledger[Tail(todo)[i].p] = "new"
  BY <1>2 DEF PipelineInv, PendingIsNew
<1>4. stage' \in Phases \cup {"transients", "over"} /\ LaterIsNew'
  BY DEF PipelineInv, PipelineTypes, LaterIsNew
<1>5. Continue(Tail(todo)) /\ Calls(Tail(todo), ProductsOf(stage'))
  BY <1>2 DEF Proceed
<1> QED BY <1>3, <1>4, <1>5, ContinueHolds

LEMMA FailHolds ==
    ASSUME PipelineInv, Fail, UNCHANGED <<body, ledger, source, stage>>, CopiesAreSound'
    PROVE  PipelineInv'
<1>1. Continue(Recovery)
  BY DEF Fail
<1>2. Calls(Recovery, {})
  BY RecoveryCalls
<1>3. Calls(Recovery, ProductsOf(stage'))
  BY <1>2, CallsMore
<1>4. \A i \in DOMAIN Recovery : Recovery[i].do # "make"
  BY <1>2 DEF Calls
<1>5. stage' \in Phases \cup {"transients", "over"} /\ LaterIsNew'
  BY DEF PipelineInv, PipelineTypes, LaterIsNew
<1> QED BY <1>1, <1>3, <1>4, <1>5, ContinueHolds

-----------------------------------------------------------------------------
\* A step of the call that makes p.

\* It goes on, gives up, registers p, clears it, or writes it.
GoesOn(p) ==
    /\ UNCHANGED <<body, ledger>> /\ step # "made" /\ step' # "made"
    /\ step' \in Filled => step \in Filled
    /\ p \in Captures => step' # "more" /\ step' # "check"
                         /\ (step' = "link" => step = "check" /\ source[p] = "old")
                         /\ (step' \in {"drop", "confirm"} => step \in {"link", "drop"})
Registers(p) ==
    /\ step = "confirm" /\ step' = "made" /\ body' = body
    /\ ledger' = [ledger EXCEPT ![p] = "published"]
Clears(p) ==
    /\ step = "undo" /\ step' = "unmade" /\ ledger' = ledger
    /\ body' = [body EXCEPT ![p] = Blank]
Fills(p, b) ==
    /\ step \in {"write", "more"} /\ step' \in {"check", "more"} /\ ledger' = ledger
    /\ b \in Body /\ b.form \in {"full", "odd"} /\ body' = [body EXCEPT ![p] = b]
    /\ p \in {"package", "sealed"} => SoundCopy(b)
    /\ p \in Captures /\ source[p] = "old" => b.has[p] = "old"

WorksOn(p) ==
    /\ Doing("make", p) /\ UNCHANGED <<runVars, source>>
    /\ GoesOn(p) \/ Registers(p) \/ Clears(p) \/ \E b : Fills(p, b)

LEMMA CallIsFirst ==
    ASSUME PipelineTypes, NEW do, NEW p, Doing(do, p)
    PROVE  todo # <<>> /\ 1 \in DOMAIN todo /\ todo[1].do = do /\ todo[1].p = p
<1>1. Calls(todo, ProductsOf(stage)) /\ todo # <<>> /\ Head(todo) = Op(do, p)
  BY DEF PipelineTypes, Doing
<1>2. Head(todo) = todo[1] /\ 1 \in DOMAIN todo
  BY <1>1, CallsTail
<1> QED BY <1>1, <1>2 DEF Op

LEMMA WorkHolds ==
    ASSUME PipelineInv, NEW p, WorksOn(p)
    PROVE  PipelineInv'
<1>1. /\ todo # <<>> /\ 1 \in DOMAIN todo /\ todo[1].do = "make" /\ todo[1].p = p
      /\ UNCHANGED <<stage, todo, object, source>> /\ PipelineTypes
  BY CallIsFirst DEF WorksOn, PipelineInv, runVars
<1>2. p \in ProductsOf(stage) /\ p \in Places /\ stage \in Phases
  <2>1. p \in ProductsOf(stage)
    BY <1>1 DEF PipelineTypes, Calls
  <2>2. p \in Places
    BY <2>1, ProductsArePlaces
  <2> QED BY <2>1, <2>2, <1>1 DEF ProductsOf, PipelineTypes, Phases
<1>3. MakingHolds(p)
  BY <1>1 DEF PipelineInv, CallHolds
<1>4. \A i \in DOMAIN todo : i # 1 /\ todo[i].do = "make" =>
         ledger[todo[i].p] = "new" /\ todo[i].p # p
  <2> SUFFICES ASSUME NEW i \in DOMAIN todo, i # 1, todo[i].do = "make"
               PROVE  ledger[todo[i].p] = "new" /\ todo[i].p # p
    OBVIOUS
  <2>1. ledger[todo[i].p] = "new"
    BY DEF PipelineInv, PendingIsNew
  <2>2. todo[i].p # p
    BY <1>1 DEF PipelineTypes, Calls
  <2> QED BY <2>1, <2>2
<1>5. \A s \in Phases : Position(s) > Position(stage) => p \notin ProductsOf(s)
  <2> SUFFICES ASSUME NEW s \in Phases, Position(s) > Position(stage), p \in ProductsOf(s)
               PROVE  FALSE
    OBVIOUS
  <2>1. s = stage
    BY <1>2, ProductsDiffer
  <2>2. Position(stage) \in Nat
    BY <1>2, StagePositions DEF Phases
  <2> QED BY <2>1, <2>2
<1>6. \A q \in Places : q # p => ledger'[q] = ledger[q] /\ body'[q] = body[q]
  BY <1>1, <1>2 DEF WorksOn, GoesOn, Registers, Clears, Fills, PipelineTypes
<1>7. ledger'[p] = "new" \/ step' = "made"
  BY <1>1, <1>2, <1>3
     DEF WorksOn, GoesOn, Registers, Clears, Fills, PipelineTypes, MakingHolds
<1>8. body' \in [Places -> Body] /\ ledger' \in [Places -> {"new", "published", "unlinked", "cleaned"}]
  <2>1. body' \in [Places -> Body]
    BY <1>1, <1>2, BlankIsBody DEF WorksOn, GoesOn, Registers, Clears, Fills, PipelineTypes
  <2>2. ledger' \in [Places -> {"new", "published", "unlinked", "cleaned"}]
    BY <1>1, <1>2 DEF WorksOn, GoesOn, Registers, Clears, Fills, PipelineTypes
  <2> QED BY <2>1, <2>2
<1>9. PipelineTypes'
  <2>1. Calls(todo', ProductsOf(stage'))
    BY <1>1 DEF PipelineTypes
  <2> QED BY <1>1, <1>8, <2>1 DEF PipelineTypes, Calls, ProductsOf
<1>10. /\ MakingHolds(p)'
       /\ step' = "made" => ledger'[p] = "published" /\ IsWritten(p)'
                            /\ (p \in Captures => body'[p].has[p] = "old")
  <2>1. CASE GoesOn(p)
    <3>1. /\ UNCHANGED <<body, ledger, source>> /\ step' # "made" /\ ledger[p] = "new"
          /\ step' \in Filled => IsWritten(p)
          /\ p \in Captures => step' \notin {"more", "check"}
      BY <1>1, <1>3, <2>1 DEF MakingHolds, GoesOn, Filled
    <3>2. p \in Captures /\ step' \in {"link", "drop", "confirm"} => body[p].has[p] = "old"
      BY <1>3, <2>1 DEF MakingHolds, GoesOn
    <3> QED BY <3>1, <3>2 DEF MakingHolds, IsWritten, Filled
  <2>2. CASE Registers(p)
    <3>1. IsWritten(p) /\ (p \in Captures => body[p].has[p] = "old")
      BY <1>3, <2>2 DEF MakingHolds, Registers, Filled
    <3>2. ledger'[p] = "published" /\ body' = body /\ step' = "made"
      BY <1>1, <1>2, <2>2 DEF Registers, PipelineTypes
    <3> QED BY <3>1, <3>2 DEF MakingHolds, IsWritten, Filled
  <2>3. CASE Clears(p)
    BY <1>7, <2>3 DEF MakingHolds, Clears, Filled
  <2>4. ASSUME NEW b, Fills(p, b)
        PROVE  MakingHolds(p)' /\ step' # "made"
    <3>1. body'[p] = b /\ ledger'[p] = "new" /\ step' \in {"check", "more"}
      BY <1>1, <1>2, <1>7, <2>4 DEF Fills, PipelineTypes
    <3>2. source' = source
      BY <1>1
    <3> QED BY <2>4, <3>1, <3>2 DEF MakingHolds, IsWritten, Fills
  <2> QED BY <2>1, <2>2, <2>3, <2>4 DEF WorksOn
<1>11. RegisteredIsWritten'
  <2> SUFFICES ASSUME NEW q \in Places, ledger'[q] = "published", q # "snapshot"
               PROVE  IsWritten(q)' /\ (q \in Captures => body'[q].has[q] = "old")
    BY DEF RegisteredIsWritten
  <2>1. CASE q = p
    BY <1>7, <1>10, <2>1
  <2>2. CASE q # p
    BY <1>6, <2>2 DEF PipelineInv, RegisteredIsWritten, IsWritten
  <2> QED BY <2>1, <2>2
<1>12. CopiesAreSound'
  <2>1. ASSUME NEW q \in {"package", "sealed"}
        PROVE  SoundCopy(body'[q])
    <3>1. q \in Places /\ SoundCopy(body[q])
      BY PlacesDiffer DEF PipelineInv, CopiesAreSound
    <3>2. CASE q # p
      BY <1>6, <3>1, <3>2
    <3>3. CASE q = p /\ body' = body
      BY <3>1, <3>3
    <3>4. CASE q = p /\ Clears(p)
      <4>1. body'[q] = Blank
        BY <1>1, <1>2, <3>4 DEF Clears, PipelineTypes
      <4> QED BY <4>1, BlankIsBody DEF SoundCopy
    <3>5. ASSUME NEW b, q = p, Fills(p, b) PROVE SoundCopy(body'[q])
      <4>1. body'[q] = b
        BY <1>1, <1>2, <3>5 DEF Fills, PipelineTypes
      <4> QED BY <3>5, <4>1 DEF Fills
    <3> QED BY <3>2, <3>3, <3>4, <3>5 DEF WorksOn, GoesOn, Registers
  <2>2. \A i \in DOMAIN object' : object'[i].form = "full" /\ SoundCopy(object'[i])
    BY <1>1 DEF PipelineInv, CopiesAreSound
  <2> QED BY <2>1, <2>2 DEF CopiesAreSound, SoundCopy
<1>13. CallHolds'
  BY <1>1, <1>10 DEF CallHolds
<1>14. PendingIsNew'
  <2> SUFFICES ASSUME NEW i \in DOMAIN todo, todo[i].do = "make", i = 1 => step' # "made"
               PROVE  ledger'[todo[i].p] = "new"
    BY <1>1 DEF PendingIsNew
  <2>1. CASE i = 1
    BY <1>1, <1>7, <2>1
  <2>2. CASE i # 1
    <3>1. todo[i].p \in Places
      <4>1. todo[i].p \in ProductsOf(stage)
        BY <1>1 DEF PipelineTypes, Calls
      <4> QED BY <4>1, ProductsArePlaces
    <3> QED BY <1>4, <1>6, <2>2, <3>1
  <2> QED BY <2>1, <2>2
<1>15. LaterIsNew'
  <2> SUFFICES ASSUME stage \in Phases, NEW s \in Phases, Position(s) > Position(stage),
                      NEW q \in ProductsOf(s)
               PROVE  ledger'[q] = "new"
    BY <1>1 DEF LaterIsNew, ProductsOf, Position
  <2>1. q # p /\ q \in Places /\ ledger[q] = "new"
    BY <1>5, ProductsArePlaces DEF PipelineInv, LaterIsNew
  <2> QED BY <1>6, <2>1
<1> QED BY <1>9, <1>11, <1>12, <1>13, <1>14, <1>15 DEF PipelineInv

-----------------------------------------------------------------------------
\* What the providers do is such a step.

LEMMA ProtocolWorks ==
    ASSUME NEW p, p \notin Captures,
           \/ Directory(p) \/ Reserve(p) \/ Link(p) \/ DropPart(p) \/ Confirm(p) \/ Break(p)
           \/ Undo(p)
    PROVE  UNCHANGED source /\ (GoesOn(p) \/ Registers(p) \/ Clears(p))
<1>1. CASE Directory(p)
  BY <1>1 DEF Directory, GoesOn, Filled
<1>2. CASE Reserve(p)
  BY <1>2 DEF Reserve, GoesOn, Filled
<1>3. CASE Link(p)
  BY <1>3 DEF Link, GoesOn, Filled
<1>4. CASE DropPart(p)
  BY <1>4 DEF DropPart, GoesOn, Filled
<1>5. CASE Confirm(p)
  BY <1>5 DEF Confirm, GoesOn, Registers, Filled
<1>6. CASE Break(p)
  BY <1>6 DEF Break, GoesOn, Filled
<1>7. CASE Undo(p)
  BY <1>7 DEF Undo, GoesOn, Clears, Filled
<1> QED BY <1>1, <1>2, <1>3, <1>4, <1>5, <1>6, <1>7

LEMMA CheckWorks ==
    ASSUME NEW p, p \notin Captures, step = "check", step' \in {"link", "confirm", "undo"}, Kept
    PROVE  UNCHANGED source /\ GoesOn(p)
BY DEF Kept, GoesOn, Filled

\* It writes what it made out of what it found good, or gives up.
LEMMA WriteWorks ==
    ASSUME PipelineTypes, NEW p \in Places, p \notin Captures, step = "write",
           UNCHANGED <<ledger, source>>, NEW b,
           \/ step' = "undo" /\ body' = [body EXCEPT ![p] = @]
           \/ /\ step' = "check" /\ body' = [body EXCEPT ![p] = b]
              /\ b \in Body /\ b.form = "full" /\ (p \in {"package", "sealed"} => SoundCopy(b))
    PROVE  GoesOn(p) \/ Fills(p, b)
<1>1. body \in [Places -> Body]
  BY DEF PipelineTypes
<1>2. [body EXCEPT ![p] = @] = body
  BY <1>1
<1> QED BY <1>2 DEF GoesOn, Fills, Filled

LEMMA WrittenIsBody ==
    ASSUME NEW s \in [Inputs -> Bytes], NEW h \in [Inputs -> Bytes]
    PROVE  /\ Written(s, h) \in Body /\ Written(s, h).form = "full"
           /\ Written(s, h).says = s /\ Written(s, h).has = h
BY DEF Written, Body

LEMMA OnlyIsBytes ==
    ASSUME NEW q \in Inputs, NEW content \in Bytes
    PROVE  /\ Nothing \in [Inputs -> Bytes] /\ Only(q, content) \in [Inputs -> Bytes]
           /\ Only(q, content)[q] = content
BY DEF Only, Nothing, Bytes

LEMMA InputsNow ==
    ASSUME PipelineTypes
    PROVE  [q \in Inputs |-> body[q].has[q]] \in [Inputs -> Bytes]
<1>1. \A q \in Inputs : body[q] \in Body
  BY DEF PipelineTypes, Places
<1>2. \A q \in Inputs : body[q].has[q] \in Bytes
  BY <1>1 DEF Body
<1> QED BY <1>2

LEMMA SnapshotWorks ==
    ASSUME PipelineInv, MakeSnapshot
    PROVE  WorksOn("snapshot")
<1>1. PipelineTypes /\ "snapshot" \in Places /\ "snapshot" \notin Captures
      /\ "snapshot" \notin {"package", "sealed"}
  BY PlacesDiffer DEF PipelineInv
<1>2. Doing("make", "snapshot") /\ UNCHANGED runVars
  BY DEF MakeSnapshot, Making
<1>3. CASE Directory("snapshot") \/ Break("snapshot") \/ Undo("snapshot")
  BY <1>1, <1>2, <1>3, ProtocolWorks DEF WorksOn
<1>4. CASE SnapshotFile
  BY <1>1, <1>2, <1>4 DEF SnapshotFile, WorksOn, GoesOn, Filled
<1>5. CASE SnapshotValidated
  <2>1. step = "check" /\ step' \in {"link", "confirm", "undo"} /\ Kept
    BY <1>5 DEF SnapshotValidated
  <2> QED BY <1>1, <1>2, <2>1, CheckWorks DEF WorksOn
<1>6. CASE SnapshotRegistered
  BY <1>1, <1>2, <1>6 DEF SnapshotRegistered, WorksOn, Registers
<1>7. CASE Write("snapshot", TRUE, Written(Nothing, Nothing))
  <2>1. Nothing \in [Inputs -> Bytes]
    BY DEF Nothing, Bytes
  <2>2. PICK b : b = Written(Nothing, Nothing)
    OBVIOUS
  <2>3. b \in Body /\ b.form = "full"
    BY <2>1, <2>2, WrittenIsBody
  <2>4. step = "write" /\ step' = "check" /\ body' = [body EXCEPT !["snapshot"] = b]
        /\ UNCHANGED <<ledger, source>>
    BY <1>7, <2>2 DEF Write
  <2>5. GoesOn("snapshot") \/ Fills("snapshot", b)
    BY <1>1, <2>3, <2>4, WriteWorks
  <2> QED BY <1>2, <2>4, <2>5 DEF WorksOn
<1> QED BY <1>3, <1>4, <1>5, <1>6, <1>7 DEF MakeSnapshot

LEMMA ExportWorks ==
    ASSUME PipelineInv, NEW e \in Exports, MakeExport(e)
    PROVE  WorksOn(e)
<1>1. PipelineTypes /\ e \in Places /\ e \notin Captures /\ e \in Inputs
      /\ e \notin {"package", "sealed"}
  BY PlacesDiffer DEF PipelineInv
<1>2. Doing("make", e) /\ UNCHANGED runVars
  BY DEF MakeExport, Making
<1>3. CASE \/ ExportDirectory(e) \/ ExportFiles(e) \/ Link(e) \/ DropPart(e)
           \/ ExportConfirmed(e) \/ Break(e) \/ ExportUndone(e)
  <2>1. Directory(e) \/ Reserve(e) \/ Link(e) \/ DropPart(e) \/ Confirm(e) \/ Break(e) \/ Undo(e)
    BY <1>3 DEF ExportDirectory, ExportFiles, ExportConfirmed, ExportUndone
  <2> QED BY <1>1, <1>2, <2>1, ProtocolWorks DEF WorksOn
<1>4. CASE Check(e, TRUE)
  <2>1. step = "check" /\ step' \in {"link", "confirm", "undo"} /\ Kept
    BY <1>4 DEF Check
  <2> QED BY <1>1, <1>2, <2>1, CheckWorks DEF WorksOn
<1>5. CASE ExportRows(e)
  <2>1. PICK content \in Bytes : content = IF Lies("snapshot") THEN "odd" ELSE "rows"
    BY DEF Bytes
  <2>2. PICK b : b = Written(Nothing, Only(e, content))
    OBVIOUS
  <2>3. b \in Body /\ b.form = "full"
    <3>1. Nothing \in [Inputs -> Bytes] /\ Only(e, content) \in [Inputs -> Bytes]
      BY <1>1, OnlyIsBytes
    <3> QED BY <2>2, <3>1, WrittenIsBody
  <2>4. /\ step = "write" /\ UNCHANGED <<ledger, source>>
        /\ \/ step' = "undo" /\ body' = [body EXCEPT ![e] = @]
           \/ step' = "check" /\ body' = [body EXCEPT ![e] = b]
    BY <1>5, <2>1, <2>2 DEF ExportRows, Write
  <2>5. GoesOn(e) \/ Fills(e, b)
    BY <1>1, <2>3, <2>4, WriteWorks
  <2> QED BY <1>2, <2>4, <2>5 DEF WorksOn
<1> QED BY <1>3, <1>4, <1>5 DEF MakeExport, ExportPublication

LEMMA CaptureWorks ==
    ASSUME PipelineInv, NEW c \in Captures, MakeCapture(c)
    PROVE  WorksOn(c)
<1>1. PipelineTypes /\ c \in Places /\ c \in Inputs /\ c \notin {"package", "sealed"}
  BY PlacesDiffer DEF PipelineInv
<1>2. Doing("make", c) /\ UNCHANGED runVars
  BY DEF MakeCapture, Making
<1>3. /\ body \in [Places -> Body] /\ body[c] \in Body
      /\ source[c] \in {"old", "new", "gone"}
  BY <1>1 DEF PipelineTypes
<1>4. MakingHolds(c)
  <2>1. todo # <<>> /\ todo[1].do = "make" /\ todo[1].p = c
    BY <1>1, <1>2, CallIsFirst
  <2> QED BY <2>1 DEF PipelineInv, CallHolds
<1>5. CASE CaptureDirectory(c) \/ CapturePart(c)
  BY <1>2, <1>5 DEF CaptureDirectory, CapturePart, Directory, Reserve, Kept, WorksOn, GoesOn, Filled
<1>6. CASE Link(c) \/ DropPart(c) \/ Break(c)
  BY <1>2, <1>6 DEF Link, DropPart, Break, WorksOn, GoesOn, Filled
<1>7. CASE CaptureConfirmed(c) \/ CaptureUndone(c)
  BY <1>2, <1>7
     DEF CaptureConfirmed, Confirm, CaptureUndone, Undo, WorksOn, GoesOn, Registers, Clears, Filled
<1>8. CASE CaptureStable(c)
  BY <1>2, <1>8 DEF CaptureStable, Check, Unmodified, Kept, WorksOn, GoesOn, Filled
<1>9. CASE CaptureChunk(c)
  <2>1. CASE source[c] = "gone"
    BY <1>2, <1>9, <2>1 DEF CaptureChunk, WorksOn, GoesOn, Filled
  <2>2. CASE source[c] # "gone"
    <3>1. PICK content \in Bytes : content = source[c]
      BY <1>3 DEF Bytes
    <3>2. PICK b : b = Written(Nothing, Only(c, content))
      OBVIOUS
    <3>3. /\ Nothing \in [Inputs -> Bytes] /\ Only(c, content) \in [Inputs -> Bytes]
          /\ Only(c, content)[c] = content
      BY <1>1, OnlyIsBytes
    <3>4. b \in Body /\ b.form = "full" /\ b.has[c] = content
      BY <3>2, <3>3, WrittenIsBody
    <3>5. /\ step = "write" /\ step' = "more" /\ body' = [body EXCEPT ![c] = b]
          /\ UNCHANGED <<ledger, source>>
      BY <1>9, <2>2, <3>1, <3>2 DEF CaptureChunk
    <3>6. Fills(c, b)
      BY <1>1, <3>1, <3>4, <3>5 DEF Fills
    <3> QED BY <1>2, <3>5, <3>6 DEF WorksOn
  <2> QED BY <2>1, <2>2
<1>10. CASE CaptureRest(c)
  <2>1. PICK r \in Body : r = body[c]
    BY <1>3
  <2>2. PICK content \in Bytes : content = IF r.has[c] = source[c] THEN r.has[c] ELSE "mixed"
    <3>1. r.has[c] \in Bytes
      BY <1>1 DEF Body
    <3> QED BY <3>1 DEF Bytes
  <2>3. PICK b : b = [r EXCEPT !.has[c] = content]
    OBVIOUS
  <2>4. b \in Body /\ b.form = r.form /\ b.has[c] = content
    BY <1>1, <2>3 DEF Body
  <2>5. /\ step = "more" /\ step' = "check" /\ UNCHANGED <<ledger, source>>
        /\ body' = [body EXCEPT ![c].has[c] = IF @ = source[c] THEN @ ELSE "mixed"]
    BY <1>10 DEF CaptureRest
  <2>6. body' = [body EXCEPT ![c] = b]
    BY <1>1, <1>3, <2>1, <2>2, <2>3, <2>5
  <2>7. r.form \in {"full", "odd"} /\ (source[c] = "old" => r.has[c] = "old")
    BY <1>4, <2>1, <2>5 DEF MakingHolds, IsWritten, Filled
  <2>8. Fills(c, b)
    BY <1>1, <2>2, <2>4, <2>5, <2>6, <2>7 DEF Fills
  <2> QED BY <1>2, <2>5, <2>8 DEF WorksOn
<1> QED BY <1>5, <1>6, <1>7, <1>8, <1>9, <1>10 DEF MakeCapture, CapturePublication

LEMMA ManifestWorks ==
    ASSUME PipelineInv, MakeManifest
    PROVE  WorksOn("manifest")
<1>1. PipelineTypes /\ "manifest" \in Places /\ "manifest" \notin Captures
  BY PlacesDiffer DEF PipelineInv
<1>2. Doing("make", "manifest") /\ UNCHANGED runVars
  BY DEF MakeManifest, Making
<1>3. CASE \/ Directory("manifest") \/ Reserve("manifest") \/ Link("manifest")
           \/ DropPart("manifest") \/ Confirm("manifest") \/ Break("manifest")
           \/ Undo("manifest")
  BY <1>1, <1>2, <1>3, ProtocolWorks DEF WorksOn
<1>4. CASE Check("manifest", TRUE)
  <2>1. step = "check" /\ step' \in {"link", "confirm", "undo"} /\ Kept
    BY <1>4 DEF Check
  <2> QED BY <1>1, <1>2, <2>1, CheckWorks DEF WorksOn
<1>5. CASE ManifestDocument
  <2>1. PICK b : b = Written([q \in Inputs |-> body[q].has[q]], Nothing)
    OBVIOUS
  <2>2. Nothing \in [Inputs -> Bytes] /\ [q \in Inputs |-> body[q].has[q]] \in [Inputs -> Bytes]
    BY <1>1, InputsNow DEF Nothing, Bytes
  <2>3. b \in Body /\ b.form = "full"
    BY <2>1, <2>2, WrittenIsBody
  <2>4. step = "write" /\ step' = "check" /\ body' = [body EXCEPT !["manifest"] = b]
        /\ UNCHANGED <<ledger, source>>
    BY <1>5, <2>1 DEF ManifestDocument, Write
  <2>5. GoesOn("manifest") \/ Fills("manifest", b)
    BY <1>1, <2>3, <2>4, WriteWorks
  <2> QED BY <1>2, <2>4, <2>5 DEF WorksOn
<1> QED BY <1>3, <1>4, <1>5
        DEF MakeManifest, ManifestDirectory, ManifestPart, ManifestPublication,
            ManifestConfirmed, ManifestUndone

LEMMA PackageWorks ==
    ASSUME PipelineInv, MakePackage
    PROVE  WorksOn("package")
<1>1. PipelineTypes /\ {"package", "manifest"} \subseteq Places /\ "package" \notin Captures
  BY PlacesDiffer DEF PipelineInv
<1>2. Doing("make", "package") /\ UNCHANGED runVars
  BY DEF MakePackage, Making
<1>3. CASE \/ Directory("package") \/ Reserve("package") \/ Link("package")
           \/ DropPart("package") \/ Confirm("package") \/ Break("package")
           \/ Undo("package")
  BY <1>1, <1>2, <1>3, ProtocolWorks DEF WorksOn
<1>4. CASE PackageReadBack
  <2>1. step = "check" /\ step' \in {"link", "confirm", "undo"} /\ Kept
    BY <1>4 DEF PackageReadBack, Check
  <2> QED BY <1>1, <1>2, <2>1, CheckWorks DEF WorksOn
<1>5. CASE PackageEntries
  <2>1. PICK says : says = body["manifest"].says
    OBVIOUS
  <2>2. PICK has : has = [q \in Inputs |-> body[q].has[q]]
    OBVIOUS
  <2>3. says \in [Inputs -> Bytes]
    <3>1. body["manifest"] \in Body
      BY <1>1 DEF PipelineTypes
    <3> QED BY <2>1, <3>1 DEF Body
  <2>4. has \in [Inputs -> Bytes] /\ \A q \in Inputs : has[q] = body[q].has[q]
    BY <1>1, <2>2, InputsNow
  <2>5. PICK b : b = Written(says, has)
    OBVIOUS
  <2>6. b \in Body /\ b.form = "full" /\ b.says = says /\ b.has = has
    BY <2>3, <2>4, <2>5, WrittenIsBody
  <2>7. /\ step = "write" /\ UNCHANGED <<ledger, source>>
        /\ \/ step' = "undo" /\ body' = [body EXCEPT !["package"] = @]
           \/ /\ step' = "check" /\ body' = [body EXCEPT !["package"] = b]
              /\ PackageSources /\ PayloadsMatch
    BY <1>5, <2>1, <2>2, <2>5 DEF PackageEntries, Write
  <2>8. ASSUME PackageSources, PayloadsMatch
        PROVE  SoundCopy(b)
    <3>1. says = has
      <4>1. \A q \in Inputs : has[q] = says[q]
        BY <2>1, <2>4, <2>8 DEF PayloadsMatch
      <4> QED BY <2>3, <2>4, <4>1
    <3>2. ASSUME NEW c \in Captures PROVE has[c] = "old"
      <4>1. c \in Inputs /\ c \in Places /\ c # "snapshot"
        BY PlacesDiffer
      <4>2. ledger[c] = "published"
        BY <2>8, <4>1 DEF PackageSources, Intact
      <4>3. body[c].has[c] = "old"
        BY <4>1, <4>2 DEF PipelineInv, RegisteredIsWritten
      <4> QED BY <2>4, <4>1, <4>3
    <3> QED BY <2>6, <3>1, <3>2 DEF SoundCopy
  <2>9. GoesOn("package") \/ Fills("package", b)
    BY <1>1, <2>6, <2>7, <2>8, WriteWorks
  <2> QED BY <1>2, <2>7, <2>9 DEF WorksOn
<1> QED BY <1>3, <1>4, <1>5
        DEF MakePackage, PackageDirectory, PackagePart, PackagePublication,
            PackageConfirmed, PackageUndone

LEMMA EvidenceWorks ==
    ASSUME PipelineInv, MakeEvidence
    PROVE  WorksOn("evidence")
<1>1. PipelineTypes /\ "evidence" \in Places /\ "evidence" \notin Captures
  BY PlacesDiffer DEF PipelineInv
<1>2. Doing("make", "evidence") /\ UNCHANGED runVars
  BY DEF MakeEvidence, Making
<1>3. CASE \/ Directory("evidence") \/ Reserve("evidence") \/ Link("evidence")
           \/ DropPart("evidence") \/ Confirm("evidence") \/ Break("evidence")
           \/ Undo("evidence")
  BY <1>1, <1>2, <1>3, ProtocolWorks DEF WorksOn
<1>4. CASE Check("evidence", TRUE)
  <2>1. step = "check" /\ step' \in {"link", "confirm", "undo"} /\ Kept
    BY <1>4 DEF Check
  <2> QED BY <1>1, <1>2, <2>1, CheckWorks DEF WorksOn
<1>5. CASE EvidenceDocument
  <2>1. PICK b : b = Written(Nothing, Nothing)
    OBVIOUS
  <2>2. Nothing \in [Inputs -> Bytes]
    BY DEF Nothing, Bytes
  <2>3. b \in Body /\ b.form = "full"
    BY <2>1, <2>2, WrittenIsBody
  <2>4. step = "write" /\ step' = "check" /\ body' = [body EXCEPT !["evidence"] = b]
        /\ UNCHANGED <<ledger, source>>
    BY <1>5, <2>1 DEF EvidenceDocument, Write
  <2>5. GoesOn("evidence") \/ Fills("evidence", b)
    BY <1>1, <2>3, <2>4, WriteWorks
  <2> QED BY <1>2, <2>4, <2>5 DEF WorksOn
<1> QED BY <1>3, <1>4, <1>5 DEF MakeEvidence, EvidenceFile, EvidenceConfirmed, EvidenceUndone

\* A registered file that does not lie is full.
LEMMA IntactIsFull ==
    ASSUME PipelineInv, NEW p \in {"package", "sealed"}, Intact(p)
    PROVE  body[p] \in Body /\ body[p].form = "full" /\ SoundCopy(body[p])
<1>1. p \in Places /\ p \notin Exports /\ p # "snapshot"
  BY PlacesDiffer
<1>2. IsWritten(p)
  BY <1>1 DEF PipelineInv, RegisteredIsWritten, Intact
<1>3. body[p].form = "full"
  BY <1>1, <1>2 DEF Intact, Lies, IsWritten
<1>4. SoundCopy(body[p]) /\ body[p] \in Body
  BY <1>1 DEF PipelineInv, CopiesAreSound, PipelineTypes
<1> QED BY <1>3, <1>4

LEMMA SealedWorks ==
    ASSUME PipelineInv, MakeSealed
    PROVE  WorksOn("sealed")
<1>1. PipelineTypes /\ {"package", "sealed"} \subseteq Places /\ "sealed" \notin Captures
  BY PlacesDiffer DEF PipelineInv
<1>2. Doing("make", "sealed") /\ UNCHANGED runVars
  BY DEF MakeSealed, Making
<1>3. CASE \/ Directory("sealed") \/ Reserve("sealed") \/ Link("sealed")
           \/ DropPart("sealed") \/ Confirm("sealed") \/ Break("sealed")
           \/ Undo("sealed")
  BY <1>1, <1>2, <1>3, ProtocolWorks DEF WorksOn
<1>4. CASE SealedReadBack
  <2>1. step = "check" /\ step' \in {"link", "confirm", "undo"} /\ Kept
    BY <1>4 DEF SealedReadBack, Check
  <2> QED BY <1>1, <1>2, <2>1, CheckWorks DEF WorksOn
<1>5. CASE SealedBytes
  <2>1. PICK b : b = body["package"]
    OBVIOUS
  <2>2. /\ step = "write" /\ UNCHANGED <<ledger, source>>
        /\ \/ step' = "undo" /\ body' = [body EXCEPT !["sealed"] = @]
           \/ /\ step' = "check" /\ body' = [body EXCEPT !["sealed"] = b]
              /\ Intact("package")
    BY <1>5, <2>1 DEF SealedBytes, Write
  <2>3. Intact("package") => b \in Body /\ b.form = "full" /\ SoundCopy(b)
    BY <2>1, IntactIsFull
  <2>4. GoesOn("sealed") \/ Fills("sealed", b)
    BY <1>1, <2>2, <2>3, WriteWorks
  <2> QED BY <1>2, <2>2, <2>4 DEF WorksOn
<1> QED BY <1>3, <1>4, <1>5
        DEF MakeSealed, SealedDirectory, SealedPart, SealedPublication, SealedConfirmed,
            SealedUndone

-----------------------------------------------------------------------------
\* A step of the call that removes p.

Cleans(p) ==
    /\ Doing("try", p) \/ Doing("again", p)
    /\ UNCHANGED <<runVars, source>>
    /\ \/ ledger' = ledger
       \/ /\ ledger[p] # "new"
          /\ \E s \in {"unlinked", "cleaned"} : ledger' = [ledger EXCEPT ![p] = s]
    /\ \/ body' = body
       \/ /\ body' = [body EXCEPT ![p] = Blank]
          /\ p = "snapshot" \/ ledger'[p] # "published"
    /\ step' = "rmdir" => ledger'[p] # "new" \/ p = "snapshot"

LEMMA RemovedCleans ==
    ASSUME PipelineTypes, NEW p \in Places, Cleaning(p), RemoveFile(p)
    PROVE  Cleans(p)
<1>1. (Doing("try", p) \/ Doing("again", p)) /\ UNCHANGED <<runVars, source>>
  BY DEF Cleaning, RemoveFile, Kept
<1>2. ledger \in [Places -> {"new", "published", "unlinked", "cleaned"}]
  BY DEF PipelineTypes
<1>3. CASE UNCHANGED <<body, ledger>> /\ (step' = "rmdir" => ledger[p] = "unlinked")
  BY <1>1, <1>3 DEF Cleans
<1>4. CASE /\ Intact(p)
           /\ ledger' = [ledger EXCEPT ![p] = "unlinked"]
           /\ body' = [body EXCEPT ![p] = Blank]
  <2>1. ledger[p] # "new" /\ ledger'[p] = "unlinked"
    BY <1>2, <1>4 DEF Intact
  <2> QED BY <1>1, <1>4, <2>1 DEF Cleans
<1> QED BY <1>3, <1>4 DEF RemoveFile, Kept

LEMMA DirectoryCleans ==
    ASSUME PipelineInv, NEW p \in Places, Cleaning(p), RemoveDirectory(p)
    PROVE  Cleans(p)
<1>1. (Doing("try", p) \/ Doing("again", p)) /\ UNCHANGED <<runVars, source, body>>
  BY DEF Cleaning, RemoveDirectory
<1>2. ledger \in [Places -> {"new", "published", "unlinked", "cleaned"}] /\ PipelineTypes
  BY DEF PipelineInv, PipelineTypes
<1>3. step' # "rmdir"
  BY DEF RemoveDirectory
<1>4. ledger[p] # "new" \/ p = "snapshot"
  <2>1. todo # <<>> /\ todo[1].p = p /\ todo[1].do \in {"try", "again"}
    BY <1>1, <1>2, CallIsFirst
  <2>2. CleaningHolds(p)
    BY <2>1 DEF PipelineInv, CallHolds
  <2> QED BY <2>2 DEF CleaningHolds, RemoveDirectory
<1>5. ledger' = ledger \/ (ledger[p] # "new" /\ ledger' = [ledger EXCEPT ![p] = "cleaned"])
  <2>1. CASE p = "snapshot"
    <3>1. [ledger EXCEPT ![p] = ledger[p]] = ledger
      BY <1>2
    <3> QED BY <2>1, <3>1 DEF RemoveDirectory
  <2>2. CASE p # "snapshot"
    BY <1>4, <2>2 DEF RemoveDirectory
  <2> QED BY <2>1, <2>2
<1> QED BY <1>1, <1>3, <1>5 DEF Cleans

LEMMA SnapshotCleans ==
    ASSUME Cleaning("snapshot"), SnapshotUnlinked
    PROVE  Cleans("snapshot")
BY DEF Cleaning, SnapshotUnlinked, Kept, Cleans

LEMMA CleanCleans ==
    ASSUME PipelineInv, Clean
    PROVE  \E p \in Places : Cleans(p)
<1>1. PipelineTypes
  BY DEF PipelineInv
<1>2. ASSUME NEW p \in Places, Cleaning(p), TakeAway(p) PROVE Cleans(p)
  BY <1>1, <1>2, RemovedCleans, DirectoryCleans DEF TakeAway
<1>3. "snapshot" \in Places /\ (Cleaning("snapshot") /\ RemoveSnapshot => Cleans("snapshot"))
  BY PlacesDiffer, SnapshotCleans, DirectoryCleans DEF RemoveSnapshot
<1>4. CASE \E e \in Exports : Cleaning(e) /\ RemoveExport(e)
  BY <1>2, <1>4, PlacesDiffer DEF RemoveExport
<1>5. CASE \E c \in Captures : Cleaning(c) /\ RemoveCapture(c)
  BY <1>2, <1>5, PlacesDiffer DEF RemoveCapture
<1>6. CASE \/ Cleaning("manifest") /\ RemoveManifest
           \/ Cleaning("package") /\ RemovePackage
           \/ Cleaning("evidence") /\ RemoveEvidence
           \/ Cleaning("sealed") /\ RemoveSealed
  BY <1>2, <1>6, PlacesDiffer DEF RemoveManifest, RemovePackage, RemoveEvidence, RemoveSealed
<1> QED BY <1>3, <1>4, <1>5, <1>6 DEF Clean

LEMMA CleanHolds ==
    ASSUME PipelineInv, NEW p \in Places, Cleans(p)
    PROVE  PipelineInv'
<1>1. /\ todo # <<>> /\ 1 \in DOMAIN todo /\ todo[1].do \in {"try", "again"} /\ todo[1].p = p
      /\ UNCHANGED <<stage, todo, object, source>> /\ PipelineTypes
  BY CallIsFirst DEF Cleans, PipelineInv, runVars
<1>2. /\ ledger \in [Places -> {"new", "published", "unlinked", "cleaned"}]
      /\ body \in [Places -> Body]
  BY <1>1 DEF PipelineTypes
<1>3. /\ ledger' \in [Places -> {"new", "published", "unlinked", "cleaned"}]
      /\ \A q \in Places : ledger[q] = "new" => ledger'[q] = "new"
      /\ \A q \in Places : ledger'[q] = "published" => ledger[q] = "published"
  BY <1>2 DEF Cleans
<1>4. /\ body' \in [Places -> Body]
      /\ \A q \in Places : \/ body'[q] = body[q]
                           \/ body'[q] = Blank /\ (q = "snapshot" \/ ledger'[q] # "published")
  BY <1>2, BlankIsBody DEF Cleans
<1>5. PipelineTypes'
  <2>1. Calls(todo', ProductsOf(stage'))
    BY <1>1 DEF PipelineTypes
  <2> QED BY <1>1, <1>3, <1>4, <2>1 DEF PipelineTypes, Calls, ProductsOf
<1>6. RegisteredIsWritten'
  <2> SUFFICES ASSUME NEW q \in Places, ledger'[q] = "published", q # "snapshot"
               PROVE  IsWritten(q)' /\ (q \in Captures => body'[q].has[q] = "old")
    BY DEF RegisteredIsWritten
  <2>1. ledger[q] = "published" /\ body'[q] = body[q]
    BY <1>3, <1>4
  <2> QED BY <2>1 DEF PipelineInv, RegisteredIsWritten, IsWritten
<1>7. CopiesAreSound'
  <2>1. ASSUME NEW q \in {"package", "sealed"} PROVE SoundCopy(body'[q])
    <3>1. q \in Places /\ SoundCopy(body[q])
      BY PlacesDiffer DEF PipelineInv, CopiesAreSound
    <3>2. CASE body'[q] = body[q]
      BY <3>1, <3>2
    <3>3. CASE body'[q] = Blank
      BY <3>3, BlankIsBody DEF SoundCopy
    <3> QED BY <1>4, <3>1, <3>2, <3>3
  <2>2. \A i \in DOMAIN object' : object'[i].form = "full" /\ SoundCopy(object'[i])
    BY <1>1 DEF PipelineInv, CopiesAreSound
  <2> QED BY <2>1, <2>2 DEF CopiesAreSound, SoundCopy
<1>8. CallHolds'
  BY <1>1 DEF CallHolds, Cleans, CleaningHolds
<1>9. PendingIsNew'
  <2> SUFFICES ASSUME NEW i \in DOMAIN todo, todo[i].do = "make"
               PROVE  ledger'[todo[i].p] = "new"
    BY <1>1 DEF PendingIsNew
  <2>1. i # 1
    BY <1>1
  <2>2. ledger[todo[i].p] = "new"
    BY <2>1 DEF PipelineInv, PendingIsNew
  <2>3. todo[i].p \in Places
    <3>1. todo[i].p \in ProductsOf(stage)
      BY <1>1 DEF PipelineTypes, Calls
    <3> QED BY <3>1, ProductsArePlaces
  <2> QED BY <1>3, <2>2, <2>3
<1>10. LaterIsNew'
  <2> SUFFICES ASSUME stage \in Phases, NEW s \in Phases, Position(s) > Position(stage),
                      NEW q \in ProductsOf(s)
               PROVE  ledger'[q] = "new"
    BY <1>1 DEF LaterIsNew, ProductsOf, Position
  <2>1. q \in Places /\ ledger[q] = "new"
    BY ProductsArePlaces DEF PipelineInv, LaterIsNew
  <2> QED BY <1>3, <2>1
<1> QED BY <1>5, <1>6, <1>7, <1>8, <1>9, <1>10 DEF PipelineInv

-----------------------------------------------------------------------------
\* The runtime's own steps.

LEMMA CopiesStaySound ==
    ASSUME PipelineInv, UNCHANGED <<body, object>>
    PROVE  CopiesAreSound'
BY DEF PipelineInv, CopiesAreSound, SoundCopy

LEMMA ReturnHolds ==
    ASSUME PipelineInv, Return
    PROVE  PipelineInv'
<1>1. /\ todo # <<>> /\ UNCHANGED <<body, ledger, source, stage, object>>
      /\ Proceed \/ Fail
  BY DEF Return, HeldStill, Kept
<1>2. CopiesAreSound'
  BY <1>1, CopiesStaySound
<1> QED BY <1>1, <1>2, ProceedHolds, FailHolds

LEMMA DemandHolds ==
    ASSUME PipelineInv, Demand
    PROVE  PipelineInv'
<1>1. /\ todo # <<>> /\ UNCHANGED <<body, ledger, source, stage, object>>
      /\ Proceed \/ Fail
  BY DEF Demand, HeldStill, Kept
<1>2. CopiesAreSound'
  BY <1>1, CopiesStaySound
<1> QED BY <1>1, <1>2, ProceedHolds, FailHolds

LEMMA TakeOverHolds ==
    ASSUME PipelineInv, TakeOver
    PROVE  PipelineInv'
<1>1. todo # <<>> /\ UNCHANGED <<body, ledger, source, stage, object>> /\ Proceed
  BY DEF TakeOver, Kept
<1>2. CopiesAreSound'
  BY <1>1, CopiesStaySound
<1> QED BY <1>1, <1>2, ProceedHolds

\* What is stored is the sealed artifact, which was checked just before.
LEMMA StoreHolds ==
    ASSUME PipelineInv, StoreArtifact
    PROVE  PipelineInv'
<1>1. /\ todo # <<>> /\ UNCHANGED <<body, ledger, source, stage>>
      /\ Proceed \/ Fail
  BY DEF StoreArtifact, Doing
<1>2. \/ object' = object
      \/ object' = <<>>
      \/ Intact("sealed") /\ object' = <<body["sealed"]>>
  BY DEF StoreArtifact
<1>3. \A i \in DOMAIN object' : object'[i].form = "full" /\ SoundCopy(object'[i])
  <2>1. CASE object' = object
    BY <2>1 DEF PipelineInv, CopiesAreSound
  <2>2. CASE object' = <<>>
    BY <2>2
  <2>3. CASE Intact("sealed") /\ object' = <<body["sealed"]>>
    <3>1. body["sealed"].form = "full" /\ SoundCopy(body["sealed"])
      BY <2>3, IntactIsFull
    <3>2. PICK b : b = body["sealed"]
      OBVIOUS
    <3>3. DOMAIN object' = {1} /\ object'[1] = b
      BY <2>3, <3>2
    <3> QED BY <3>1, <3>2, <3>3
  <2> QED BY <1>2, <2>1, <2>2, <2>3
<1>4. CopiesAreSound'
  <2>1. body' = body /\ SoundCopy(body["package"]) /\ SoundCopy(body["sealed"])
    BY <1>1 DEF PipelineInv, CopiesAreSound
  <2>2. SoundCopy(body["package"])' /\ SoundCopy(body["sealed"])'
    BY <2>1 DEF SoundCopy
  <2>3. (\A i \in DOMAIN object : object[i].form = "full" /\ SoundCopy(object[i]))'
    BY <1>3 DEF SoundCopy
  <2> QED BY <2>2, <2>3 DEF CopiesAreSound
<1> QED BY <1>1, <1>4, ProceedHolds, FailHolds

\* The next stage finds its products new.
LEMMA NextStageHolds ==
    ASSUME PipelineInv, NextStage
    PROVE  PipelineInv'
<1>1. /\ stage \in Phases /\ UNCHANGED <<body, ledger, source, object>>
  BY DEF NextStage, Kept, PipelineInv, PipelineTypes
<1>2. CopiesAreSound'
  BY <1>1, CopiesStaySound
<1>3. CASE stage # "durable" /\ stage' = Stages[Position(stage) + 1]
           /\ Continue(CallsOf(stage'))
  <2>1. /\ stage \in {"snapshot", "export", "manifest", "package", "verification", "encryption"}
        /\ stage' \in Phases
    BY <1>1, <1>3, StageNames DEF Phases
  <2>2. Position(stage') = Position(stage) + 1 /\ Position(stage) \in Nat
    BY <1>3, <2>1, StageNames, StagePositions
  <2>3. \A s \in Phases : Position(s) \in Nat
    BY StagePositions DEF Phases
  <2>4. Calls(CallsOf(stage'), ProductsOf(stage'))
    BY <2>1, StageCalls DEF Phases
  <2>5. PICK t \in Phases : t = stage'
    BY <2>1
  <2>6. PICK ops : ops = CallsOf(stage')
    OBVIOUS
  <2>7. \A p \in ProductsOf(t) : ledger[p] = "new"
    <3>1. Position(t) > Position(stage)
      BY <2>2, <2>5
    <3> QED BY <1>1, <3>1 DEF PipelineInv, LaterIsNew
  <2>8. \A i \in DOMAIN ops : ops[i].do = "make" => ledger[ops[i].p] = "new"
    BY <2>4, <2>5, <2>6, <2>7 DEF Calls
  <2>9. LaterIsNew'
    <3> SUFFICES ASSUME NEW s \in Phases, Position(s) > Position(t), NEW q \in ProductsOf(s)
                 PROVE  ledger'[q] = "new"
      BY <2>5 DEF LaterIsNew, ProductsOf, Position
    <3>1. Position(s) > Position(stage)
      BY <2>2, <2>3, <2>5
    <3> QED BY <1>1, <3>1 DEF PipelineInv, LaterIsNew
  <2> QED BY <1>1, <1>2, <1>3, <2>1, <2>4, <2>6, <2>8, <2>9, ContinueHolds
<1>4. CASE stage' = "transients" /\ Continue(Transients)
  <2>1. Calls(Transients, {})
    BY TransientCalls
  <2>2. Calls(Transients, ProductsOf(stage')) /\ \A i \in DOMAIN Transients : Transients[i].do # "make"
    BY <2>1, CallsMore DEF Calls
  <2>3. LaterIsNew'
    BY <1>4 DEF LaterIsNew, Phases
  <2> QED BY <1>1, <1>2, <1>4, <2>2, <2>3, ContinueHolds
<1> QED BY <1>3, <1>4 DEF NextStage

\* Nothing the invariant speaks of changes.
LEMMA IdleHolds ==
    ASSUME PipelineInv, UNCHANGED <<body, ledger, source, stage, todo, step, object>>
    PROVE  PipelineInv'
<1>1. PipelineTypes'
  BY DEF PipelineInv, PipelineTypes, Calls, ProductsOf
<1>2. RegisteredIsWritten'
  BY DEF PipelineInv, RegisteredIsWritten, IsWritten
<1>3. CopiesAreSound'
  BY CopiesStaySound
<1>4. CallHolds'
  BY DEF PipelineInv, CallHolds, MakingHolds, CleaningHolds, IsWritten
<1>5. PendingIsNew' /\ LaterIsNew'
  BY DEF PipelineInv, PendingIsNew, LaterIsNew, ProductsOf, Position
<1> QED BY <1>1, <1>2, <1>3, <1>4, <1>5 DEF PipelineInv

LEMMA SweepHolds ==
    ASSUME PipelineInv, Sweep
    PROVE  PipelineInv'
<1>1. /\ UNCHANGED <<body, ledger, source, todo, step, object>> /\ todo = <<>>
      /\ stage' = "over"
  BY DEF Sweep, pubVars
<1>2. PipelineTypes'
  <2>1. Calls(<<>>, ProductsOf(stage'))
    BY CallsNone
  <2> QED BY <1>1, <2>1 DEF PipelineInv, PipelineTypes, Calls, ProductsOf
<1>3. RegisteredIsWritten'
  BY <1>1 DEF PipelineInv, RegisteredIsWritten, IsWritten
<1>4. CopiesAreSound'
  BY <1>1, CopiesStaySound
<1>5. CallHolds' /\ PendingIsNew'
  BY <1>1 DEF CallHolds, PendingIsNew
<1>6. LaterIsNew'
  BY <1>1 DEF LaterIsNew, Phases
<1> QED BY <1>2, <1>3, <1>4, <1>5, <1>6 DEF PipelineInv

\* Bytes go bad, or a media file is edited: what is full may turn odd, what
\* was read of a file stays as it was read.
LEMMA EnvironmentHolds ==
    ASSUME PipelineInv, Environment
    PROVE  PipelineInv'
<1>1. UNCHANGED <<ledger, stage, todo, step, object>> /\ PipelineTypes
  BY DEF Environment, Damage, EditMedia, runVars, PipelineInv
<1>2. /\ body \in [Places -> Body] /\ source \in [Captures -> {"old", "new", "gone"}]
  BY <1>1 DEF PipelineTypes
<1>3. /\ source' \in [Captures -> {"old", "new", "gone"}]
      /\ \A c \in Captures : source'[c] = "old" => source[c] = "old"
  <2>1. CASE source' = source
    BY <1>2, <2>1
  <2>2. ASSUME NEW c \in Captures, EditMedia(c)
        PROVE  /\ source' \in [Captures -> {"old", "new", "gone"}]
               /\ \A d \in Captures : source'[d] = "old" => source[d] = "old"
    BY <1>2, <2>2 DEF EditMedia
  <2> QED BY <2>1, <2>2 DEF Environment, Damage
<1>4. /\ body' \in [Places -> Body]
      /\ \A q \in Places :
            /\ body[q].form \in {"full", "odd"} => body'[q].form \in {"full", "odd"}
            /\ q \notin Exports => body'[q].says = body[q].says /\ body'[q].has = body[q].has
                                   /\ (body'[q].form = "full" => body[q].form = "full")
  <2>1. CASE body' = body
    BY <1>2, <2>1
  <2>2. ASSUME NEW p \in Places, Damage(p)
        PROVE  /\ body' \in [Places -> Body]
               /\ \A q \in Places :
                     /\ body[q].form \in {"full", "odd"} => body'[q].form \in {"full", "odd"}
                     /\ q \notin Exports =>
                           body'[q].says = body[q].says /\ body'[q].has = body[q].has
                           /\ (body'[q].form = "full" => body[q].form = "full")
    <3>1. PICK r \in Body : r = body[p]
      BY <1>2
    <3>2. PICK b : b = IF p \in Exports THEN [r EXCEPT !.has[p] = "odd"]
                       ELSE [r EXCEPT !.form = "odd"]
      OBVIOUS
    <3>3. /\ b \in Body /\ (p \notin Exports => b.form = "odd" /\ b.says = r.says /\ b.has = r.has)
          /\ (p \in Exports => b.form = r.form)
      <4>1. CASE p \in Exports
        <5>1. p \in Inputs
          BY <4>1 DEF Inputs
        <5>2. b = [r EXCEPT !.has[p] = "odd"]
          BY <3>2, <4>1
        <5> QED BY <4>1, <5>1, <5>2 DEF Body, Bytes
      <4>2. CASE p \notin Exports
        BY <3>2, <4>2 DEF Body
      <4> QED BY <4>1, <4>2
    <3>4. body' = [body EXCEPT ![p] = b]
      BY <2>2, <3>1, <3>2 DEF Damage
    <3>5. \A q \in Places : body'[q] = IF q = p THEN b ELSE body[q]
      BY <1>2, <3>4
    <3>6. body' \in [Places -> Body]
      BY <1>2, <3>3, <3>4
    <3> QED BY <3>1, <3>3, <3>5, <3>6
  <2> QED BY <2>1, <2>2 DEF Environment, EditMedia
<1>5. \A c \in Captures : c \in Places /\ c \notin Exports
  BY PlacesDiffer
<1>6. PipelineTypes'
  <2>1. Calls(todo', ProductsOf(stage'))
    BY <1>1 DEF PipelineTypes
  <2>2. /\ ledger' \in [Places -> {"new", "published", "unlinked", "cleaned"}]
        /\ stage' \in Phases \cup {"transients", "over"}
    BY <1>1 DEF PipelineTypes
  <2> QED BY <1>3, <1>4, <2>1, <2>2 DEF PipelineTypes, Calls, ProductsOf
<1>7. RegisteredIsWritten'
  <2> SUFFICES ASSUME NEW q \in Places, ledger'[q] = "published", q # "snapshot"
               PROVE  IsWritten(q)' /\ (q \in Captures => body'[q].has[q] = "old")
    BY DEF RegisteredIsWritten
  <2>1. IsWritten(q) /\ (q \in Captures => body[q].has[q] = "old")
    BY <1>1 DEF PipelineInv, RegisteredIsWritten
  <2> QED BY <1>4, <1>5, <2>1 DEF IsWritten
<1>8. CopiesAreSound'
  <2>1. ASSUME NEW q \in {"package", "sealed"} PROVE SoundCopy(body'[q])
    <3>1. q \in Places /\ q \notin Exports /\ SoundCopy(body[q])
      BY PlacesDiffer DEF PipelineInv, CopiesAreSound
    <3> QED BY <1>4, <3>1 DEF SoundCopy
  <2>2. \A i \in DOMAIN object' : object'[i].form = "full" /\ SoundCopy(object'[i])
    BY <1>1 DEF PipelineInv, CopiesAreSound
  <2> QED BY <2>1, <2>2 DEF CopiesAreSound, SoundCopy
<1>9. CallHolds'
  <2> SUFFICES ASSUME todo # <<>>
               PROVE  /\ todo[1].do = "make" => MakingHolds(todo[1].p)'
                      /\ todo[1].do \in {"try", "again"} => CleaningHolds(todo[1].p)'
    BY <1>1 DEF CallHolds, MakingHolds, CleaningHolds, IsWritten
  <2>1. todo[1].do \in {"try", "again"} => CleaningHolds(todo[1].p)'
    BY <1>1 DEF PipelineInv, CallHolds, CleaningHolds
  <2>2. ASSUME todo[1].do = "make" PROVE MakingHolds(todo[1].p)'
    <3>1. PICK p : p = todo[1].p
      OBVIOUS
    <3>2. p \in Places
      <4>1. 1 \in DOMAIN todo
        BY <1>1, CallsTail DEF PipelineTypes
      <4>2. p \in ProductsOf(stage)
        BY <1>1, <2>2, <3>1, <4>1 DEF PipelineTypes, Calls
      <4> QED BY <4>2, ProductsArePlaces
    <3>3. MakingHolds(p)
      BY <2>2, <3>1 DEF PipelineInv, CallHolds
    <3>4. MakingHolds(p)'
      BY <1>1, <1>3, <1>4, <1>5, <3>2, <3>3 DEF MakingHolds, IsWritten
    <3> QED BY <1>1, <3>1, <3>4 DEF MakingHolds, IsWritten
  <2> QED BY <2>1, <2>2
<1>10. PendingIsNew' /\ LaterIsNew'
  BY <1>1 DEF PipelineInv, PendingIsNew, LaterIsNew, ProductsOf, Position
<1> QED BY <1>6, <1>7, <1>8, <1>9, <1>10 DEF PipelineInv

-----------------------------------------------------------------------------

LEMMA PipelineStarts ==
    ASSUME PipelineStart
    PROVE  PipelineInv
<1>1. /\ body = [p \in Places |-> Blank] /\ ledger = [p \in Places |-> "new"]
      /\ source = [c \in Captures |-> "old"] /\ stage = "snapshot" /\ object = <<>>
      /\ todo = SnapshotStage /\ step \in {"idle", "mkdir", "unlink"}
  BY StartIsFresh DEF PipelineStart, PipelineInit, PubInit
<1>2. Calls(todo, ProductsOf(stage))
  BY <1>1, SnapshotCalls
<1>3. PipelineTypes
  BY <1>1, <1>2, BlankIsBody DEF PipelineTypes, Phases
<1>4. RegisteredIsWritten
  BY <1>1 DEF RegisteredIsWritten
<1>5. CopiesAreSound
  BY <1>1, BlankIsBody, PlacesDiffer DEF CopiesAreSound, SoundCopy
<1>6. \A i \in DOMAIN todo : todo[i].do = "make" => ledger[todo[i].p] = "new"
  BY <1>1, <1>2, ProductsArePlaces DEF Calls
<1>7. PendingIsNew
  BY <1>6 DEF PendingIsNew
<1>8. LaterIsNew
  BY <1>1, ProductsArePlaces DEF LaterIsNew
<1>9. CallHolds
  <2>1. todo # <<>> => 1 \in DOMAIN todo
    BY <1>2 DEF Calls
  <2> QED BY <1>1, <1>6, <2>1 DEF CallHolds, MakingHolds, CleaningHolds, Filled
<1> QED BY <1>3, <1>4, <1>5, <1>7, <1>8, <1>9 DEF PipelineInv

LEMMA WorkerHolds ==
    ASSUME PipelineInv, Worker
    PROVE  PipelineInv'
<1>1. CASE MakeSnapshot
  BY <1>1, SnapshotWorks, WorkHolds
<1>2. CASE \E e \in Exports : MakeExport(e)
  BY <1>2, ExportWorks, WorkHolds
<1>3. CASE \E c \in Captures : MakeCapture(c)
  BY <1>3, CaptureWorks, WorkHolds
<1>4. CASE MakeManifest
  BY <1>4, ManifestWorks, WorkHolds
<1>5. CASE MakePackage
  BY <1>5, PackageWorks, WorkHolds
<1>6. CASE MakeEvidence
  BY <1>6, EvidenceWorks, WorkHolds
<1>7. CASE MakeSealed
  BY <1>7, SealedWorks, WorkHolds
<1>8. CASE Clean
  BY <1>8, CleanCleans, CleanHolds
<1>9. CASE Interrupted
  BY <1>9, IdleHolds DEF Interrupted
<1> QED BY <1>1, <1>2, <1>3, <1>4, <1>5, <1>6, <1>7, <1>8, <1>9, ReturnHolds, DemandHolds,
           TakeOverHolds, StoreHolds, NextStageHolds, SweepHolds DEF Worker

\* One execution of a backup: what a provider has registered was written and,
\* for a media file, as it was at the cutoff; the products still to be made
\* are new; every copy that does not show its damage is what its manifest says
\* (runtime.BackupExecutionCoordinator.execute).
THEOREM PipelineInvariant == PipelineSpec => []PipelineInv
<1>1. PipelineStart => PipelineInv
  BY PipelineStarts
<1>2. PipelineInv /\ [PipelineNext]_pipelineVars => PipelineInv'
  <2>1. ASSUME PipelineInv, UNCHANGED pipelineVars PROVE PipelineInv'
    BY <2>1, IdleHolds DEF pipelineVars, pubVars, runVars
  <2> QED BY <2>1, WorkerHolds, EnvironmentHolds DEF PipelineNext
<1> QED BY <1>1, <1>2, PTL DEF PipelineSpec

\* What the durable store is given is, byte for byte, what its own manifest
\* says, whatever goes bad on disk and however the application edits its media
\* files meanwhile; and every media file is in it as it was at the cutoff.
THEOREM StoredObjectsAreSound == PipelineSpec => []StoredIsSound
<1>1. PipelineInv => StoredIsSound
  BY DEF PipelineInv, CopiesAreSound, SoundCopy, StoredIsSound
<1> QED BY <1>1, PipelineInvariant, PTL

-----------------------------------------------------------------------------
(* A restore on disk.                                                       *)

Untouched == {"QUEUED", "AUTHORIZING", "FAILED"}
Preparing == {"create", "fetch", "copy", "link", "unlink", "inspect", "undo", "verify", "unfold",
              "extract", "scrap", "attest", "held", "revalidate", "safety", "stage"}
Clearing == {"sweep", "check", "strip", "vacate", "stuck"}
Mutating == {"mutate", "publish", "link in", "settle", "verify photos", "commit", "take back"}
Endings == {"failed", "unready", "succeeded", "ended"}

Stash == [room : BOOLEAN, files : SUBSET Everything, odd : SUBSET Everything,
          reuse : SUBSET Everything, todo : Seq(Everything), opened : BOOLEAN]

RestoreTypes ==
    /\ live \in [Everything -> {Nobody} \cup [by : {"app", "ours"}, good : BOOLEAN]]
    /\ made \in Seq(Everything)
    /\ stash \in Stash
    /\ at \in {"idle", "locked out", "unstash", "dead"}
              \cup Preparing \cup Clearing \cup Mutating \cup Endings

\* Where the worker is tells the status.
PlaceTells ==
    /\ at \in {"idle", "locked out"} => status \in {"QUEUED", "FAILED"}
    /\ at \in Preparing => status = "AUTHORIZING" /\ (at # "scrap" => after = "failed")
    /\ at \in {"failed", "unready"} => status \in Untouched
    /\ at \in Mutating => status = "RESTORING"
    /\ at \in Clearing => after \in Endings
    /\ at = "unstash" => after \in {"failed", "succeeded", "ended"}
    /\ at \in Clearing \cup {"unstash"} =>
          /\ after \in {"failed", "unready"} => status \in Untouched
          /\ after = "succeeded" => status = "VERIFYING"
          /\ after = "ended" => status \in {"ROLLED_BACK", "INDETERMINATE"}
    /\ at = "succeeded" => status \in {"VERIFYING", "SUCCEEDED", "INDETERMINATE"}
    /\ at = "ended" => status \in {"ROLLED_BACK", "INDETERMINATE"}
    /\ status = "SUCCEEDED" => at = "succeeded"

\* The status tells what there is of rows and files.
StatusTells ==
    /\ status \in Untouched =>
          data = "old" /\ made = <<>> /\ crumbs = {} /\ gallery # "ours"
    /\ status = "RESTORING" => data = "old" /\ (gallery = "ours" => stash.opened)
    /\ status = "ROLLED_BACK" => data = "old" /\ made = <<>> /\ gallery # "ours"
    /\ status \in {"VERIFYING", "SUCCEEDED"} => data = "new"

\* What this restore has put into the media storage it knows.
LinksAreKnown == \A p \in Everything :
    live[p] # Nobody /\ live[p].by = "ours" => p \in Range(made)

\* What was verified is there unless the application has deleted it since.
VerifiedStay == at = "commit" \/ status \in {"VERIFYING", "SUCCEEDED"} =>
    \A p \in Everything : InPlace(p) \/ p \in removed

\* No plaintext is left behind where the worker says that none is.
PlaintextIsGone ==
    /\ at \in Mutating \/ (at = "unstash" /\ after = "succeeded") => stash.files = Everything
    /\ (at \in Clearing /\ after = "succeeded") \/ at = "succeeded" => ~ stash.room
    /\ at \in {"succeeded", "unready"} => tree = {}
    /\ at \in {"link in", "settle"} => stash.todo # <<>>

RestoreInv ==
    /\ RestoreTypes /\ PlaceTells /\ StatusTells /\ LinksAreKnown /\ VerifiedStay /\ PlaintextIsGone

\* What a step of the preflight can do to the place of the worker.
PreflightMoves ==
    \/ at' = at /\ after' = after /\ tree' = tree
    \/ at \in {"idle", "locked out"} /\ at' \in {"create", "locked out"} /\ after' = "failed"
    \/ at \in Preparing /\ at' \in Preparing \cup {"vacate"} /\ (at' # "scrap" => after' = "failed")
    \/ at \in Preparing /\ at' = "failed"
    \/ at \in Preparing /\ at' = "sweep" /\ after' \in {"failed", "unready"}
    \/ at \in Clearing /\ at' \in Clearing /\ after' = after
    \/ at = "vacate" /\ at' = after /\ after' = after /\ tree' = {}
    \/ at = "stuck" /\ after \in {"failed", "unready"} /\ at' = "failed"

LEMMA PreflightIsSuch ==
    ASSUME PlaceTells, PreflightNext
    PROVE  PreflightMoves
<1> USE DEF PreflightMoves, PlaceTells, Preparing, Clearing, CleanUp
<1>1. CASE BeginAttempt
  BY <1>1 DEF BeginAttempt
<1>2. CASE CreateWorkspace
  BY <1>2 DEF CreateWorkspace
<1>3. CASE MakeArea \/ CopyPlaintext \/ LinkPackage \/ UnlinkPart \/ MakeFolders
  BY <1>3 DEF MakeArea, CopyPlaintext, LinkPackage, UnlinkPart, MakeFolders, Do
<1>4. CASE RegisterPackage
  BY <1>4 DEF RegisterPackage
<1>5. CASE UndoPackage
  BY <1>5 DEF UndoPackage
<1>6. CASE VerifyPackage
  BY <1>6 DEF VerifyPackage
<1>7. CASE ExtractEntry
  BY <1>7 DEF ExtractEntry
<1>8. CASE ScrapExtraction
  BY <1>8 DEF ScrapExtraction
<1>9. CASE RegisterEntries
  BY <1>9 DEF RegisterEntries
<1>10. CASE PublishEvidence
  BY <1>10 DEF PublishEvidence
<1>11. CASE DropProof
  BY <1>11 DEF DropProof
<1>12. CASE CheckTree
  BY <1>12 DEF CheckTree
<1>13. CASE StripOne
  BY <1>13 DEF StripOne
<1>14. CASE Stripped
  BY <1>14 DEF Stripped
<1>15. CASE Vacate
  BY <1>15 DEF Vacate
<1>16. CASE GiveUp
  BY <1>16 DEF GiveUp
<1>17. CASE Spoil
  BY <1>17 DEF Spoil
<1> QED BY <1>1, <1>2, <1>3, <1>4, <1>5, <1>6, <1>7, <1>8, <1>9, <1>10, <1>11, <1>12, <1>13,
           <1>14, <1>15, <1>16, <1>17 DEF PreflightNext

LEMMA NoStashIsOne == NoStash \in Stash /\ ~ NoStash.room /\ ~ NoStash.opened
BY PhotosAssumption DEF NoStash, Stash, Everything

LEMMA PreflightKeeps ==
    ASSUME RestoreInv, Preflight
    PROVE  RestoreInv'
<1>1. PreflightMoves /\ UNCHANGED <<live, gallery, crumbs, made, data, uploads, removed>>
  BY PreflightIsSuch DEF RestoreInv, Preflight
<1>2. /\ at' = "create" => status' = "AUTHORIZING"
      /\ at' \in {"failed", "unready", "locked out"} /\ status \in {"QUEUED", "AUTHORIZING"} =>
            status' = "FAILED"
      /\ at' # "create" /\ ~ (at' \in {"failed", "unready", "locked out"}
                              /\ status \in {"QUEUED", "AUTHORIZING"}) => status' = status
      /\ stash' = IF at' = "create" THEN NoStash ELSE stash
  BY DEF Preflight
<1>3. RestoreTypes'
  <2>1. stash' \in Stash
    BY <1>2, NoStashIsOne DEF RestoreInv, RestoreTypes
  <2>2. at' \in {"idle", "locked out", "unstash", "dead"}
                \cup Preparing \cup Clearing \cup Mutating \cup Endings
    BY <1>1 DEF RestoreInv, RestoreTypes, PlaceTells, PreflightMoves, Preparing, Clearing, Endings
  <2> QED BY <1>1, <2>1, <2>2 DEF RestoreInv, RestoreTypes
<1>4. PlaceTells'
  BY <1>1, <1>2
     DEF RestoreInv, PlaceTells, PreflightMoves, Preparing, Clearing, Mutating, Endings, Untouched
<1>5. /\ status' = status \/ (status \in Untouched /\ status' \in Untouched)
      /\ status' = "RESTORING" => stash' = stash
  BY <1>1, <1>2
     DEF RestoreInv, PlaceTells, PreflightMoves, Preparing, Clearing, Mutating, Endings, Untouched
<1>6. StatusTells'
  BY <1>1, <1>5 DEF RestoreInv, StatusTells, Untouched
<1>7. LinksAreKnown'
  BY <1>1 DEF RestoreInv, LinksAreKnown
<1>8. VerifiedStay'
  <2>1. at' = "commit" \/ status' \in {"VERIFYING", "SUCCEEDED"} =>
           at = "commit" \/ status \in {"VERIFYING", "SUCCEEDED"}
    BY <1>1, <1>5 DEF PreflightMoves, Preparing, Clearing, Untouched, RestoreInv, PlaceTells, Endings
  <2> QED BY <1>1, <2>1 DEF RestoreInv, VerifiedStay, InPlace
<1>9. PlaintextIsGone'
  BY <1>1, <1>2, NoStashIsOne
     DEF RestoreInv, PlaintextIsGone, PlaceTells, PreflightMoves, Preparing, Clearing, Mutating, Endings
<1> QED BY <1>3, <1>4, <1>6, <1>7, <1>8, <1>9 DEF RestoreInv

\* Steps that touch neither rows nor photos: the place, the status and the
\* staged copies must go together.
LEMMA WorkerKeeps ==
    ASSUME RestoreInv, UNCHANGED <<live, gallery, crumbs, made, data, uploads, removed, tree>>,
           stash' \in Stash,
           at' \in {"idle", "locked out", "unstash", "dead"}
                   \cup Preparing \cup Clearing \cup Mutating \cup Endings,
           PlaceTells', PlaintextIsGone',
           \/ status' = status
           \/ status \in Untouched /\ status' \in Untouched
           \/ status \in Untouched /\ status' = "RESTORING"
           \/ status = "VERIFYING" /\ status' = "SUCCEEDED"
           \/ status' = "INDETERMINATE",
           status' = "RESTORING" => stash'.opened = stash.opened,
           at' # "commit" \/ at = "commit"
    PROVE  RestoreInv'
<1>1. RestoreTypes' /\ LinksAreKnown'
  BY DEF RestoreInv, RestoreTypes, LinksAreKnown
<1>2. StatusTells'
  BY DEF RestoreInv, StatusTells, Untouched
<1>3. VerifiedStay'
  <2>1. at' = "commit" \/ status' \in {"VERIFYING", "SUCCEEDED"} =>
           at = "commit" \/ status \in {"VERIFYING", "SUCCEEDED"}
    BY DEF Untouched
  <2> QED BY <2>1 DEF RestoreInv, VerifiedStay, InPlace
<1> QED BY <1>1, <1>2, <1>3 DEF RestoreInv

LEMMA BeforeMutation ==
    ASSUME RestoreInv, EnterExecution \/ Revalidate \/ PrepareRestore \/ StageOne \/ Staged
    PROVE  RestoreInv'
<1>1. UNCHANGED <<live, gallery, crumbs, made, data, uploads, removed, tree>> /\ stash \in Stash
  BY DEF EnterExecution, Revalidate, PrepareRestore, StageOne, Staged, KeepRest, LiveFiles, Disk,
         RestoreInv, RestoreTypes
<1>2. at \in Preparing /\ status = "AUTHORIZING" /\ after = "failed"
  BY DEF EnterExecution, Revalidate, PrepareRestore, StageOne, Staged, Preparing, RestoreInv, PlaceTells
<1>3. stash' \in Stash
  <2>1. CASE UNCHANGED stash \/ stash' = NoStash \/ stash' = [stash EXCEPT !.room = TRUE]
    BY <1>1, <2>1, NoStashIsOne DEF Stash
  <2>2. CASE StageOne
    <3>1. PICK i \in DOMAIN Photos :
             \/ stash' = [stash EXCEPT !.files = @ \cup {Photos[i]},
                                       !.reuse = IF live[Photos[i]] # Nobody THEN @ \cup {Photos[i]}
                                                 ELSE @]
             \/ stash' = NoStash
      BY <2>2 DEF StageOne
    <3>2. PICK p \in Everything : p = Photos[i]
      BY DEF Everything, Range
    <3>3. PICK reuse \in SUBSET Everything :
             reuse = IF live[p] # Nobody THEN stash.reuse \cup {p} ELSE stash.reuse
      BY <1>1 DEF Stash
    <3>4. PICK files \in SUBSET Everything : files = stash.files \cup {p}
      BY <1>1 DEF Stash
    <3>5. stash' = [stash EXCEPT !.files = files, !.reuse = reuse] \/ stash' = NoStash
      BY <3>1, <3>2, <3>3, <3>4
    <3> QED BY <1>1, <3>5, NoStashIsOne DEF Stash
  <2> QED BY <2>1, <2>2 DEF EnterExecution, Revalidate, PrepareRestore, Staged
<1>4. \/ at' \in Preparing \ {"scrap"} /\ UNCHANGED <<status, after>>
      \/ at' = "locked out" /\ status' = "FAILED" /\ after' = after
      \/ at' = "failed" /\ status' = "FAILED" /\ after' = after
      \/ at' = "sweep" /\ status' = "FAILED" /\ after' = "failed"
      \/ at' = "mutate" /\ status' = "RESTORING" /\ stash' = stash /\ stash.files = Everything
      \/ at' = "unstash" /\ status' = "FAILED" /\ after' = after
  BY <1>2 DEF EnterExecution, Revalidate, PrepareRestore, StageOne, Staged, FailBefore, CleanUp,
              Preparing
<1>5. PlaceTells' /\ PlaintextIsGone'
  <2>1. PlaceTells'
    BY <1>2, <1>4 DEF PlaceTells, Preparing, Clearing, Mutating, Endings, Untouched
  <2>2. PlaintextIsGone'
    BY <1>1, <1>2, <1>4 DEF PlaintextIsGone, Preparing, Clearing, Mutating, Endings
  <2> QED BY <2>1, <2>2
<1>6. at' \in {"idle", "locked out", "unstash", "dead"}
              \cup Preparing \cup Clearing \cup Mutating \cup Endings
  BY <1>4 DEF Clearing, Mutating, Endings
<1>7. /\ status' = status \/ status' \in Untouched \/ status' = "RESTORING"
      /\ status' = "RESTORING" => stash'.opened = stash.opened
      /\ status \in Untouched /\ at' # "commit"
  BY <1>2, <1>4 DEF Untouched, Preparing
<1> QED BY <1>1, <1>3, <1>5, <1>6, <1>7, WorkerKeeps

LEMMA StayInTransaction ==
    ASSUME RestoreInv, ReplaceRows \/ Reuse \/ PublishedAll
    PROVE  RestoreInv'
<1>1. /\ UNCHANGED <<live, gallery, crumbs, made, data, uploads, removed, tree, status, after>>
      /\ stash \in Stash
      /\ stash' = stash \/ (stash.todo # <<>> /\ stash' = [stash EXCEPT !.todo = Tail(@)])
      /\ at \in Mutating /\ at' \in {"publish", "take back", "verify photos"}
  BY DEF ReplaceRows, Reuse, PublishedAll, Done, Reaches, ToRollBack, KeepRest, LiveFiles, Disk,
         RestoreInv, RestoreTypes, Mutating
<1>2. stash' \in Stash /\ stash'.files = stash.files /\ stash'.opened = stash.opened
  <2>1. CASE stash.todo # <<>> /\ stash' = [stash EXCEPT !.todo = Tail(@)]
    <3>1. stash.todo # <<>> /\ stash.todo \in Seq(Everything)
      BY <2>1, <1>1 DEF Stash
    <3>2. Tail(stash.todo) \in Seq(Everything)
      BY <3>1
    <3> QED BY <1>1, <2>1, <3>2 DEF Stash
  <2> QED BY <1>1, <2>1
<1>3. PlaceTells'
  BY <1>1 DEF RestoreInv, PlaceTells, Preparing, Clearing, Mutating, Endings
<1>4. PlaintextIsGone'
  BY <1>1, <1>2 DEF RestoreInv, PlaintextIsGone, Clearing, Mutating
<1>5. at' \in Mutating /\ at' # "commit"
  BY <1>1 DEF Mutating
<1> QED BY <1>1, <1>2, <1>3, <1>4, <1>5, WorkerKeeps

\* While photos are linked in nothing is verified yet.
LEMMA LinkingKeeps ==
    ASSUME RestoreInv, at \in Mutating, UNCHANGED <<data, tree, status, after, removed>>,
           at' \in {"publish", "link in", "settle", "take back"},
           stash' \in Stash, stash'.files = stash.files,
           at' \in {"link in", "settle"} => stash'.todo # <<>>,
           gallery' = "ours" => stash'.opened,
           live' \in [Everything -> {Nobody} \cup [by : {"app", "ours"}, good : BOOLEAN]],
           made' \in Seq(Everything), LinksAreKnown'
    PROVE  RestoreInv'
<1>1. status = "RESTORING" /\ data = "old"
  BY DEF RestoreInv, PlaceTells, StatusTells
<1>2. RestoreTypes'
  BY DEF RestoreTypes, Mutating
<1>3. PlaceTells'
  BY <1>1 DEF RestoreInv, PlaceTells, Preparing, Clearing, Mutating, Endings
<1>4. StatusTells' /\ VerifiedStay'
  BY <1>1 DEF StatusTells, VerifiedStay, Untouched
<1>5. PlaintextIsGone'
  BY DEF RestoreInv, PlaintextIsGone, Clearing, Mutating
<1> QED BY <1>2, <1>3, <1>4, <1>5 DEF RestoreInv

LEMMA NextIsPhoto ==
    ASSUME RestoreInv, stash.todo # <<>>
    PROVE  Next1 \in Everything /\ stash \in Stash
           /\ [stash EXCEPT !.todo = Tail(@)] \in Stash
<1>1. stash \in Stash /\ stash.todo \in Seq(Everything)
  BY DEF RestoreInv, RestoreTypes, Stash
<1>2. Head(stash.todo) \in Everything /\ Tail(stash.todo) \in Seq(Everything)
  BY <1>1
<1> QED BY <1>1, <1>2 DEF Next1, Stash

LEMMA AimKeeps ==
    ASSUME RestoreInv, Aim
    PROVE  RestoreInv'
<1>1. /\ at = "publish" /\ stash.todo # <<>> /\ stash \in Stash
      /\ UNCHANGED <<data, tree, status, after, removed, live, made>>
      /\ at' \in {"link in", "take back"}
  BY DEF Aim, Reaches, ToRollBack, Disk, RestoreInv, RestoreTypes
<1>2. /\ status = "RESTORING"
      /\ gallery = "ours" => stash.opened
  BY <1>1 DEF RestoreInv, PlaceTells, StatusTells, Mutating
<1>3. \/ stash' = stash /\ gallery' = gallery
      \/ /\ stash' = [stash EXCEPT !.opened = @ \/ gallery = "none"]
         /\ gallery' = IF gallery = "none" THEN "ours" ELSE gallery
  BY DEF Aim
<1>4. /\ stash' \in Stash /\ stash'.files = stash.files /\ stash'.todo = stash.todo
      /\ gallery' = "ours" => stash'.opened
  BY <1>1, <1>2, <1>3 DEF Stash
<1>5. /\ live' \in [Everything -> {Nobody} \cup [by : {"app", "ours"}, good : BOOLEAN]]
      /\ made' \in Seq(Everything) /\ LinksAreKnown'
  BY <1>1 DEF RestoreInv, RestoreTypes, LinksAreKnown
<1> QED BY <1>1, <1>4, <1>5, LinkingKeeps DEF Mutating

LEMMA LinkInKeeps ==
    ASSUME RestoreInv, LinkIn
    PROVE  RestoreInv'
<1>1. /\ at = "link in" /\ stash.todo # <<>> /\ stash' = stash /\ stash \in Stash
      /\ UNCHANGED <<data, tree, status, after, removed, gallery>>
      /\ at' \in {"settle", "take back"}
  BY DEF LinkIn, ToRollBack, Disk, RestoreInv, RestoreTypes, PlaintextIsGone
<1>2. gallery' = "ours" => stash'.opened
  BY <1>1 DEF RestoreInv, PlaceTells, StatusTells, Mutating
<1>3. PICK p \in Everything : p = Next1
  BY <1>1, NextIsPhoto
<1>4. /\ live \in [Everything -> {Nobody} \cup [by : {"app", "ours"}, good : BOOLEAN]]
      /\ made \in Seq(Everything)
  BY DEF RestoreInv, RestoreTypes
<1>5. /\ live' \in [Everything -> {Nobody} \cup [by : {"app", "ours"}, good : BOOLEAN]]
      /\ made' \in Seq(Everything) /\ LinksAreKnown'
  <2>1. CASE UNCHANGED <<live, made>>
    BY <1>4, <2>1 DEF RestoreInv, LinksAreKnown
  <2>2. CASE live' = [live EXCEPT ![p] = File("ours", TRUE)] /\ made' = Append(made, p)
    <3>1. File("ours", TRUE) \in [by : {"app", "ours"}, good : BOOLEAN]
      BY DEF File
    <3>2. made' \in Seq(Everything) /\ Range(made) \subseteq Range(made') /\ p \in Range(made')
      <4>1. /\ Append(made, p) \in Seq(Everything) /\ Len(made) \in Nat
            /\ \A i \in DOMAIN made : i \in DOMAIN Append(made, p) /\ Append(made, p)[i] = made[i]
            /\ Len(made) + 1 \in DOMAIN Append(made, p) /\ Append(made, p)[Len(made) + 1] = p
        BY <1>4
      <4> QED BY <2>2, <4>1 DEF Range
    <3>3. LinksAreKnown'
      BY <1>4, <2>2, <3>2 DEF RestoreInv, LinksAreKnown
    <3> QED BY <1>4, <2>2, <3>1, <3>2, <3>3
  <2> QED BY <1>3, <2>1, <2>2 DEF LinkIn
<1> QED BY <1>1, <1>2, <1>5, LinkingKeeps DEF Mutating

LEMMA SettleKeeps ==
    ASSUME RestoreInv, Settle
    PROVE  RestoreInv'
<1>1. /\ at = "settle" /\ stash.todo # <<>>
      /\ UNCHANGED <<data, tree, status, after, removed, gallery, live, made>>
      /\ at' \in {"publish", "take back"}
      /\ stash' = stash \/ stash' = [stash EXCEPT !.todo = Tail(@)]
  BY DEF Settle, ToRollBack, Done, Disk, RestoreInv, PlaintextIsGone
<1>2. stash \in Stash /\ stash' \in Stash
  BY <1>1, NextIsPhoto
<1>3. stash'.files = stash.files /\ stash'.opened = stash.opened
  BY <1>1, <1>2 DEF Stash
<1>4. gallery' = "ours" => stash'.opened
  BY <1>1, <1>3 DEF RestoreInv, PlaceTells, StatusTells, Mutating
<1>5. /\ live' \in [Everything -> {Nobody} \cup [by : {"app", "ours"}, good : BOOLEAN]]
      /\ made' \in Seq(Everything) /\ LinksAreKnown'
  BY <1>1 DEF RestoreInv, RestoreTypes, LinksAreKnown
<1> QED BY <1>1, <1>2, <1>3, <1>4, <1>5, LinkingKeeps DEF Mutating

\* The commit comes only after every photo was found in its place.
LEMMA VerifyKeeps ==
    ASSUME RestoreInv, VerifyRestored
    PROVE  RestoreInv'
<1>1. /\ at = "verify photos" /\ at' \in {"commit", "take back"}
      /\ UNCHANGED <<stash, data, tree, status, after, gallery, live, made, crumbs>>
      /\ at' = "commit" => \A p \in Everything : InPlace(p)
      /\ status = "RESTORING"
  BY DEF VerifyRestored, ToRollBack, Disk, LiveFiles, RestoreInv, PlaceTells, Mutating
<1>2. RestoreTypes'
  BY <1>1 DEF RestoreInv, RestoreTypes, Mutating
<1>3. PlaceTells'
  BY <1>1 DEF RestoreInv, PlaceTells, Preparing, Clearing, Mutating, Endings
<1>4. StatusTells' /\ LinksAreKnown'
  BY <1>1 DEF RestoreInv, StatusTells, LinksAreKnown, Untouched
<1>5. VerifiedStay'
  BY <1>1 DEF VerifiedStay, InPlace
<1>6. PlaintextIsGone'
  BY <1>1 DEF RestoreInv, PlaintextIsGone, Clearing, Mutating
<1> QED BY <1>2, <1>3, <1>4, <1>5, <1>6 DEF RestoreInv

LEMMA CommitKeeps ==
    ASSUME RestoreInv, Commit
    PROVE  RestoreInv'
<1>1. /\ at = "commit" /\ UNCHANGED <<stash, tree, gallery, live, made, crumbs, removed>>
      /\ \/ data' = "new" /\ status' = "VERIFYING" /\ at' = "unstash" /\ after' = "succeeded"
         \/ at' = "take back" /\ UNCHANGED <<data, status, after>>
      /\ status = "RESTORING"
  BY DEF Commit, ToRollBack, Disk, LiveFiles, RestoreInv, PlaceTells, Mutating
<1>2. RestoreTypes'
  BY <1>1 DEF RestoreInv, RestoreTypes, Mutating
<1>3. PlaceTells'
  BY <1>1 DEF RestoreInv, PlaceTells, Preparing, Clearing, Mutating, Endings
<1>4. StatusTells' /\ LinksAreKnown'
  BY <1>1 DEF RestoreInv, StatusTells, LinksAreKnown, Untouched
<1>5. VerifiedStay'
  BY <1>1 DEF RestoreInv, VerifiedStay, InPlace
<1>6. PlaintextIsGone'
  BY <1>1 DEF RestoreInv, PlaintextIsGone, Clearing, Mutating
<1> QED BY <1>2, <1>3, <1>4, <1>5, <1>6 DEF RestoreInv

\* Only files that this restore has linked are taken back.
\* Without its last element a sequence has the others.
LEMMA FrontOf ==
    ASSUME NEW S, NEW s \in Seq(S), s # <<>>
    PROVE  /\ Front(s) \in Seq(S)
           /\ \A p \in Range(s) : p = Last(s) \/ p \in Range(Front(s))
<1>1. Len(s) \in Nat /\ DOMAIN s = 1 .. Len(s) /\ Len(s) # 0
  BY EmptySeq
<1>2. Front(s) = SubSeq(s, 1, Len(s) - 1) /\ Last(s) = s[Len(s)]
  BY DEF Front, Last
<1>3. \A i \in 1 .. Len(s) - 1 : s[i] \in S
  BY <1>1
<1>4. /\ SubSeq(s, 1, Len(s) - 1) \in Seq(S)
      /\ DOMAIN SubSeq(s, 1, Len(s) - 1) = 1 .. Len(s) - 1
      /\ \A i \in 1 .. Len(s) - 1 : SubSeq(s, 1, Len(s) - 1)[i] = s[i]
  BY <1>1, <1>3
<1>5. \A i \in DOMAIN s : i = Len(s) \/ i \in 1 .. Len(s) - 1
  BY <1>1
<1> QED BY <1>2, <1>4, <1>5 DEF Range

LEMMA TakeBackKeeps ==
    ASSUME RestoreInv, TakeBack
    PROVE  RestoreInv'
<1>1. /\ at = "take back" /\ made # <<>> /\ status = "RESTORING"
      /\ UNCHANGED <<stash, tree, gallery, crumbs, data, removed>>
      /\ \/ /\ live' = [live EXCEPT ![Last(made)] = Nobody] /\ made' = Front(made)
            /\ UNCHANGED <<at, after, status>>
         \/ /\ status' = "INDETERMINATE" /\ at' = "unstash" /\ after' = "ended"
            /\ UNCHANGED <<live, made>>
  BY DEF TakeBack, Unproven, Disk, RestoreInv, PlaceTells, Mutating
<1>2. /\ live \in [Everything -> {Nobody} \cup [by : {"app", "ours"}, good : BOOLEAN]]
      /\ made \in Seq(Everything)
  BY DEF RestoreInv, RestoreTypes
<1>3. /\ Front(made) \in Seq(Everything)
      /\ \A p \in Range(made) : p = Last(made) \/ p \in Range(Front(made))
  BY <1>1, <1>2, FrontOf
<1>4. RestoreTypes'
  <2>1. /\ live' \in [Everything -> {Nobody} \cup [by : {"app", "ours"}, good : BOOLEAN]]
        /\ made' \in Seq(Everything)
    BY <1>1, <1>2, <1>3
  <2> QED BY <1>1, <2>1 DEF RestoreInv, RestoreTypes
<1>5. LinksAreKnown'
  <2>1. CASE live' = [live EXCEPT ![Last(made)] = Nobody] /\ made' = Front(made)
    BY <1>2, <1>3, <2>1 DEF RestoreInv, LinksAreKnown
  <2>2. CASE UNCHANGED <<live, made>>
    BY <2>2 DEF RestoreInv, LinksAreKnown
  <2> QED BY <1>1, <2>1, <2>2
<1>6. PlaceTells'
  BY <1>1 DEF RestoreInv, PlaceTells, Preparing, Clearing, Mutating, Endings
<1>7. StatusTells' /\ VerifiedStay'
  BY <1>1 DEF RestoreInv, StatusTells, VerifiedStay, Untouched
<1>8. PlaintextIsGone'
  BY <1>1 DEF RestoreInv, PlaintextIsGone, Clearing, Mutating
<1> QED BY <1>4, <1>5, <1>6, <1>7, <1>8 DEF RestoreInv

LEMMA TakenBackKeeps ==
    ASSUME RestoreInv, TakenBack
    PROVE  RestoreInv'
<1>1. /\ at = "take back" /\ made = <<>> /\ status = "RESTORING" /\ at' = "unstash" /\ after' = "ended"
      /\ UNCHANGED <<stash, tree, live, made, crumbs, data, removed>>
      /\ \/ gallery' = (IF stash.opened THEN "none" ELSE gallery) /\ status' = "ROLLED_BACK"
         \/ gallery' = gallery /\ status' = "INDETERMINATE"
  BY DEF TakenBack, Unproven, Disk, RestoreInv, PlaceTells, Mutating
<1>2. gallery = "ours" => stash.opened
  BY <1>1 DEF RestoreInv, StatusTells
<1>3. RestoreTypes'
  BY <1>1 DEF RestoreInv, RestoreTypes
<1>4. PlaceTells'
  BY <1>1 DEF RestoreInv, PlaceTells, Preparing, Clearing, Mutating, Endings
<1>5. data = "old"
  BY <1>1 DEF RestoreInv, StatusTells
<1>6. StatusTells'
  BY <1>1, <1>2, <1>5 DEF StatusTells, Untouched
<1>7. LinksAreKnown' /\ VerifiedStay'
  BY <1>1 DEF RestoreInv, LinksAreKnown, VerifiedStay
<1>8. PlaintextIsGone'
  BY <1>1 DEF RestoreInv, PlaintextIsGone, Clearing, Mutating
<1> QED BY <1>3, <1>4, <1>6, <1>7, <1>8 DEF RestoreInv

LEMMA UnstashKeeps ==
    ASSUME RestoreInv, Unstash
    PROVE  RestoreInv'
<1>1. /\ at = "unstash" /\ stash \in Stash
      /\ UNCHANGED <<live, gallery, crumbs, made, data, uploads, removed, tree>>
      /\ \/ stash' = NoStash /\ at' = "sweep" /\ UNCHANGED <<after, status>>
         \/ /\ \E n \in 0 .. Len(Photos) :
                  stash' = [stash EXCEPT !.files = Range(SubSeq(Photos, 1, n))]
            /\ \/ after = "succeeded" /\ status' = "INDETERMINATE" /\ at' = "unstash" /\ after' = "ended"
               \/ after # "succeeded" /\ at' = "sweep" /\ UNCHANGED <<after, status>>
         \/ stash.files # Everything /\ at' = "sweep" /\ UNCHANGED <<stash, after, status>>
  BY DEF Unstash, Unproven, Disk, LiveFiles, RestoreInv, RestoreTypes
<1>2. stash' \in Stash
  <2>1. ASSUME NEW n \in 0 .. Len(Photos),
               stash' = [stash EXCEPT !.files = Range(SubSeq(Photos, 1, n))]
        PROVE  stash' \in Stash
    <3>1. PICK files : files = Range(SubSeq(Photos, 1, n))
      OBVIOUS
    <3>2. files \subseteq Everything
      <4>1. Photos \in Seq(Everything)
        BY PhotosAssumption DEF Everything
      <4>2. SubSeq(Photos, 1, n) \in Seq(Everything)
        BY <4>1
      <4> QED BY <3>1, <4>2 DEF Range
    <3> QED BY <1>1, <2>1, <3>1, <3>2 DEF Stash
  <2> QED BY <1>1, <2>1, NoStashIsOne
<1>3. after = "succeeded" => stash.files = Everything
  BY <1>1 DEF RestoreInv, PlaintextIsGone
<1>4. PlaceTells'
  BY <1>1 DEF RestoreInv, PlaceTells, Preparing, Clearing, Mutating, Endings
<1>5. PlaintextIsGone'
  BY <1>1, <1>3, NoStashIsOne DEF PlaintextIsGone, Clearing, Mutating
<1>6. /\ status' = status \/ status' = "INDETERMINATE"
      /\ status' # "RESTORING"
      /\ at' \in {"sweep", "unstash"}
  BY <1>1 DEF RestoreInv, PlaceTells, Untouched
<1>7. at' \in {"idle", "locked out", "unstash", "dead"}
              \cup Preparing \cup Clearing \cup Mutating \cup Endings /\ at' # "commit"
  BY <1>6 DEF Clearing
<1> QED BY <1>1, <1>2, <1>4, <1>5, <1>6, <1>7, WorkerKeeps

LEMMA EndingKeeps ==
    ASSUME RestoreInv, SucceedRestore \/ SweepAgain \/ LeaveIt
    PROVE  RestoreInv'
<1>1. /\ UNCHANGED <<live, gallery, crumbs, made, data, uploads, removed, tree, stash>>
      /\ stash \in Stash
      /\ \/ /\ at = "succeeded" /\ at' = at /\ after' = after
            /\ status = "VERIFYING" /\ status' \in {"SUCCEEDED", "INDETERMINATE"}
         \/ /\ at = "stuck" /\ after = "succeeded" /\ status' = "INDETERMINATE"
            /\ at' = "sweep" /\ after' = "ended"
         \/ at = "stuck" /\ after = "ended" /\ at' = "ended" /\ UNCHANGED <<after, status>>
  BY DEF SucceedRestore, SweepAgain, LeaveIt, CleanUp, KeepRest, LiveFiles, Disk, RestoreInv, RestoreTypes
<1>2. PlaceTells'
  BY <1>1 DEF RestoreInv, PlaceTells, Preparing, Clearing, Mutating, Endings, Untouched
<1>3. PlaintextIsGone'
  BY <1>1 DEF RestoreInv, PlaintextIsGone, Clearing, Mutating
<1>4. /\ \/ status' = status
         \/ status = "VERIFYING" /\ status' = "SUCCEEDED"
         \/ status' = "INDETERMINATE"
      /\ at' \in {"succeeded", "sweep", "ended"}
  BY <1>1
<1>5. at' \in {"idle", "locked out", "unstash", "dead"}
              \cup Preparing \cup Clearing \cup Mutating \cup Endings /\ at' # "commit"
  BY <1>4 DEF Clearing, Endings
<1> QED BY <1>1, <1>2, <1>3, <1>4, <1>5, WorkerKeeps

LEMMA DieKeeps ==
    ASSUME RestoreInv, Die \/ SpoilStaged
    PROVE  RestoreInv'
<1>1. /\ UNCHANGED <<live, gallery, crumbs, made, data, uploads, removed, tree, after, status>>
      /\ stash \in Stash
      /\ \/ at' = "dead" /\ stash' = stash /\ at # "succeeded"
         \/ at' = at /\ \E p \in stash.files : stash' = [stash EXCEPT !.odd = @ \cup {p}]
  BY DEF Die, SpoilStaged, KeepRest, LiveFiles, Disk, RestoreInv, RestoreTypes
<1>2. /\ stash' \in Stash /\ stash'.files = stash.files /\ stash'.opened = stash.opened
      /\ stash'.room = stash.room /\ stash'.todo = stash.todo
  <2>1. CASE stash' = stash
    BY <1>1, <2>1
  <2>2. ASSUME NEW p \in stash.files, stash' = [stash EXCEPT !.odd = @ \cup {p}]
        PROVE  /\ stash' \in Stash /\ stash'.files = stash.files /\ stash'.opened = stash.opened
               /\ stash'.room = stash.room /\ stash'.todo = stash.todo
    <3>1. p \in Everything
      BY <1>1, <2>2 DEF Stash
    <3>2. PICK odd \in SUBSET Everything : odd = stash.odd \cup {p}
      BY <1>1, <3>1 DEF Stash
    <3>3. stash' = [stash EXCEPT !.odd = odd]
      BY <2>2, <3>2
    <3> QED BY <1>1, <3>3 DEF Stash
  <2> QED BY <1>1, <2>1, <2>2
<1>3. PlaceTells'
  BY <1>1 DEF RestoreInv, PlaceTells, Preparing, Clearing, Mutating, Endings
<1>4. PlaintextIsGone'
  BY <1>1, <1>2 DEF RestoreInv, PlaintextIsGone, Clearing, Mutating
<1>5. at' \in {"idle", "locked out", "unstash", "dead"}
              \cup Preparing \cup Clearing \cup Mutating \cup Endings
      /\ (at' # "commit" \/ at = "commit")
  BY <1>1 DEF RestoreInv, RestoreTypes
<1> QED BY <1>1, <1>2, <1>3, <1>4, <1>5, WorkerKeeps

LEMMA ApplicationKeeps ==
    ASSUME RestoreInv, Application
    PROVE  RestoreInv'
<1>1. PICK p \in Everything : UploadPhoto(p) \/ DeleteUpload(p)
  BY DEF Application
<1>2. /\ UNCHANGED <<workspaceVars, crumbs, stash, made, data, status>>
      /\ gallery' = gallery \/ (gallery = "none" /\ gallery' = "app")
      /\ live \in [Everything -> {Nobody} \cup [by : {"app", "ours"}, good : BOOLEAN]]
      /\ \/ /\ live[p] = Nobody /\ removed' = removed
            /\ \E same \in BOOLEAN : live' = [live EXCEPT ![p] = File("app", same)]
         \/ live' = [live EXCEPT ![p] = Nobody] /\ removed' = removed \cup {p}
  BY <1>1 DEF UploadPhoto, DeleteUpload, RestoreInv, RestoreTypes
<1>3. /\ live' \in [Everything -> {Nobody} \cup [by : {"app", "ours"}, good : BOOLEAN]]
      /\ \A q \in Everything : q # p => live'[q] = live[q]
      /\ live'[p] = Nobody \/ live'[p].by = "app"
      /\ (live[p] = Nobody /\ removed' = removed) \/ p \in removed'
      /\ removed \subseteq removed'
  <2>1. \A same \in BOOLEAN : File("app", same) \in [by : {"app", "ours"}, good : BOOLEAN]
                              /\ File("app", same).by = "app"
    BY DEF File
  <2> QED BY <1>2, <2>1
<1>4. RestoreTypes'
  BY <1>2, <1>3 DEF RestoreInv, RestoreTypes, workspaceVars
<1>5. PlaceTells' /\ PlaintextIsGone'
  BY <1>2 DEF RestoreInv, PlaceTells, PlaintextIsGone, workspaceVars
<1>6. StatusTells'
  BY <1>2 DEF RestoreInv, StatusTells
<1>7. LinksAreKnown'
  BY <1>2, <1>3 DEF RestoreInv, LinksAreKnown
<1>8. VerifiedStay'
  <2> SUFFICES ASSUME at = "commit" \/ status \in {"VERIFYING", "SUCCEEDED"}, NEW q \in Everything
               PROVE  InPlace(q)' \/ q \in removed'
    BY <1>2 DEF VerifiedStay, workspaceVars, InPlace
  <2>1. InPlace(q) \/ q \in removed
    BY DEF RestoreInv, VerifiedStay
  <2>2. CASE q = p
    BY <1>3, <2>1, <2>2 DEF InPlace
  <2>3. CASE q # p
    BY <1>2, <1>3, <2>1, <2>3 DEF InPlace
  <2> QED BY <2>2, <2>3
<1> QED BY <1>4, <1>5, <1>6, <1>7, <1>8 DEF RestoreInv

LEMMA RestoreStarts == MediaInit => RestoreInv
<1> SUFFICES ASSUME MediaInit PROVE RestoreInv
  OBVIOUS
<1>1. /\ live \in [Everything -> {Nobody, File("app", TRUE), File("app", FALSE)}]
      /\ crumbs = {} /\ stash = NoStash /\ made = <<>> /\ data = "old" /\ status = "QUEUED"
      /\ at = "idle" /\ tree = {} /\ gallery \in {"app", "none"}
  BY DEF MediaInit, WorkspaceInit
<1>2. /\ \A same \in BOOLEAN : File("app", same) \in [by : {"app", "ours"}, good : BOOLEAN]
      /\ \A same \in BOOLEAN : File("app", same).by = "app"
  BY DEF File
<1>3. RestoreTypes
  <2>1. live \in [Everything -> {Nobody} \cup [by : {"app", "ours"}, good : BOOLEAN]]
    BY <1>1, <1>2
  <2>2. made \in Seq(Everything)
    BY <1>1
  <2> QED BY <1>1, <2>1, <2>2, NoStashIsOne DEF RestoreTypes
<1>4. PlaceTells /\ StatusTells /\ VerifiedStay
  BY <1>1 DEF PlaceTells, StatusTells, VerifiedStay, Preparing, Clearing, Mutating, Endings, Untouched
<1>5. LinksAreKnown
  BY <1>1, <1>2 DEF LinksAreKnown
<1>6. PlaintextIsGone
  BY <1>1 DEF PlaintextIsGone, Clearing, Mutating
<1> QED BY <1>3, <1>4, <1>5, <1>6 DEF RestoreInv

LEMMA RestoreStutters ==
    ASSUME RestoreInv, UNCHANGED restoreRunVars
    PROVE  RestoreInv'
<1>1. UNCHANGED <<tree, at, after, live, gallery, crumbs, stash, made, data, status, removed>>
  BY DEF restoreRunVars, workspaceVars, mediaVars
<1>2. RestoreTypes' /\ PlaceTells' /\ StatusTells'
  BY <1>1 DEF RestoreInv, RestoreTypes, PlaceTells, StatusTells
<1>3. LinksAreKnown' /\ PlaintextIsGone'
  BY <1>1 DEF RestoreInv, LinksAreKnown, PlaintextIsGone
<1>4. VerifiedStay'
  BY <1>1 DEF RestoreInv, VerifiedStay, InPlace
<1> QED BY <1>2, <1>3, <1>4 DEF RestoreInv

LEMMA RestoreStep ==
    ASSUME RestoreInv, [RestoreNext]_restoreRunVars
    PROVE  RestoreInv'
<1>1. CASE Preflight
  BY <1>1, PreflightKeeps
<1>2. CASE EnterExecution \/ Revalidate \/ PrepareRestore \/ StageOne \/ Staged
  BY <1>2, BeforeMutation
<1>3. CASE ReplaceRows \/ Reuse \/ PublishedAll
  BY <1>3, StayInTransaction
<1>4. CASE Aim
  BY <1>4, AimKeeps
<1>5. CASE LinkIn
  BY <1>5, LinkInKeeps
<1>6. CASE Settle
  BY <1>6, SettleKeeps
<1>7. CASE VerifyRestored
  BY <1>7, VerifyKeeps
<1>8. CASE Commit
  BY <1>8, CommitKeeps
<1>9. CASE TakeBack
  BY <1>9, TakeBackKeeps
<1>10. CASE TakenBack
  BY <1>10, TakenBackKeeps
<1>11. CASE Unstash
  BY <1>11, UnstashKeeps
<1>12. CASE SucceedRestore \/ SweepAgain \/ LeaveIt
  BY <1>12, EndingKeeps
<1>13. CASE Die \/ SpoilStaged
  BY <1>13, DieKeeps
<1>14. CASE Application
  BY <1>14, ApplicationKeeps
<1>15. CASE UNCHANGED restoreRunVars
  BY <1>15, RestoreStutters
<1> QED BY <1>1, <1>2, <1>3, <1>4, <1>5, <1>6, <1>7, <1>8, <1>9, <1>10, <1>11, <1>12, <1>13, <1>14,
           <1>15 DEF RestoreNext, Execution

\* Where a restore is tells its status, the status tells what there is of rows
\* and photos, every link is on the list of what to take back, and no plaintext
\* is left where the worker says so (restore_mutation.py, media_restore.py).
THEOREM RestoreInvariant == RestoreSpec => []RestoreInv
BY RestoreStarts, RestoreStep, PTL DEF RestoreSpec

LEMMA WhatIsReported == RestoreInv => EndsAsReported
<1> SUFFICES ASSUME RestoreInv PROVE EndsAsReported
  OBVIOUS
<1>1. status = "SUCCEEDED" =>
          /\ data = "new"
          /\ \A p \in Everything : InPlace(p) \/ p \in removed
          /\ tree = {} /\ ~ stash.room
  BY DEF RestoreInv, PlaceTells, StatusTells, VerifiedStay, PlaintextIsGone
<1>2. status = "ROLLED_BACK" =>
          /\ data = "old"
          /\ \A p \in Everything : live[p] # Nobody => live[p].by = "app"
          /\ gallery # "ours"
  <2> SUFFICES ASSUME status = "ROLLED_BACK", NEW p \in Everything, live[p] # Nobody
               PROVE  live[p].by = "app"
    BY DEF RestoreInv, StatusTells
  <2>1. live[p].by # "ours"
    BY DEF RestoreInv, StatusTells, LinksAreKnown, Range
  <2>2. live[p] \in [by : {"app", "ours"}, good : BOOLEAN]
    BY DEF RestoreInv, RestoreTypes
  <2> QED BY <2>1, <2>2
<1>3. status = "FAILED" => data = "old" /\ made = <<>> /\ crumbs = {}
  BY DEF RestoreInv, StatusTells, Untouched
<1>4. at = "unready" => tree = {}
  BY DEF RestoreInv, PlaintextIsGone
<1> QED BY <1>1, <1>2, <1>3, <1>4 DEF EndsAsReported

\* A file of the application goes only in a step of the application.
LEMMA UploadsStay ==
    ASSUME RestoreInv, RestoreNext, NEW p \in Everything, live[p] # Nobody, live[p].by = "app",
           live'[p] # live[p]
    PROVE  uploads' = uploads + 1
<1>1. CASE Preflight \/ EnterExecution \/ Revalidate \/ PrepareRestore \/ StageOne \/ Staged
           \/ ReplaceRows \/ Reuse \/ PublishedAll \/ Unstash \/ SucceedRestore \/ SweepAgain
           \/ LeaveIt \/ Die \/ SpoilStaged
  BY <1>1 DEF Preflight, EnterExecution, Revalidate, PrepareRestore, StageOne, Staged, ReplaceRows,
              Reuse, PublishedAll, Unstash, SucceedRestore, SweepAgain, LeaveIt, Die, SpoilStaged,
              KeepRest, LiveFiles
<1>2. CASE Aim \/ Settle \/ VerifyRestored \/ Commit \/ TakenBack
  BY <1>2 DEF Aim, Settle, VerifyRestored, Commit, TakenBack, LiveFiles
<1>3. live \in [Everything -> {Nobody} \cup [by : {"app", "ours"}, good : BOOLEAN]]
  BY DEF RestoreInv, RestoreTypes
<1>4. CASE LinkIn
  <2>1. live[Next1] = Nobody /\ live' = [live EXCEPT ![Next1] = File("ours", TRUE)]
    BY <1>4 DEF LinkIn
  <2> QED BY <1>3, <2>1
<1>5. CASE TakeBack
  <2>1. live[Last(made)].by = "ours" /\ live' = [live EXCEPT ![Last(made)] = Nobody]
    BY <1>5 DEF TakeBack, Ours
  <2> QED BY <1>3, <2>1
<1>6. CASE Application
  BY <1>6 DEF Application, UploadPhoto, DeleteUpload, AppUse
<1> QED BY <1>1, <1>2, <1>4, <1>5, <1>6 DEF RestoreNext, Execution

\* What the worker reports of a restore is true of the rows, of the media
\* storage and of the private workspaces, whatever fails, and no file of the
\* application is replaced or deleted by it (restore_mutation.py execute,
\* media_restore.py publish and rollback).
THEOREM RestoresEndAsReported == RestoreSpec => RestoreEndsAsReported
<1>1. ASSUME RestoreInv, [RestoreNext]_restoreRunVars
      PROVE  [\A p \in Everything : live[p] # Nobody /\ live[p].by = "app" /\ live'[p] # live[p]
                 => uploads' = uploads + 1]_restoreRunVars
  BY <1>1, UploadsStay
<1>2. RestoreSpec => []EndsAsReported
  BY RestoreInvariant, WhatIsReported, PTL
<1>3. RestoreSpec => UploadsAreKept
  BY RestoreInvariant, <1>1, PTL DEF RestoreSpec, UploadsAreKept
<1> QED BY <1>2, <1>3 DEF RestoreEndsAsReported
=============================================================================
