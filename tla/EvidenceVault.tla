---------------------------- MODULE EvidenceVault ----------------------------
(***************************************************************************)
(* The files behind control evidence: a private bucket to which clients    *)
(* upload by signed URLs, the proofs that let a request finalize what it   *)
(* finds there, the control_evidence row that refers to it, and the        *)
(* clean-up of what nobody finalized.  Bucket and database are two stores  *)
(* and no transaction spans them.                                          *)
(*                                                                         *)
(* A content is the bytes of a file, which stand for their size and hash   *)
(* as well, and the type it is given.  Time is counted in units of which   *)
(* the deadlines are multiples.                                            *)
(* A finalization is one request from its proof to the row; between the    *)
(* verified bytes and the row lies the partner's decision (PartnerCalls),  *)
(* which may also be that nothing is attached.                             *)
(***************************************************************************)
EXTENDS Naturals, FiniteSets

CONSTANTS
  Evidences,        \* ids of evidence; UUIDv7 are ordered, and so are these
  Versions,         \* versions of one evidence
  Bytes,            \* what a client may upload...
  Types,            \* ... and under which type
  Lookalikes,       \* bytes of one size
  Finalizers,       \* requests to finalize
  Cleaners,         \* processes that clean up
  Deadline,         \* EVIDENCE_FINALIZATION_DEADLINE_SECONDS
  UploadTtl,        \* validity of a signed upload URL
  AbandonedAfter,   \* EVIDENCE_ABANDONED_AFTER_SECONDS
  BatchSize,        \* EVIDENCE_CLEANUP_BATCH_SIZE
  Horizon,          \* bound: time
  MaxIntents,       \* bound: upload intents
  MaxDeposits,      \* bound: uploads
  MaxStorageErrors  \* bound: removals that fail

(* loadEvidenceModuleConfig accepts no empty period and no empty batch.    *)
ASSUME VaultAssumption ==
  /\ Evidences \subseteq Nat /\ Versions \subseteq Nat \ {0}
  /\ IsFiniteSet(Evidences) /\ IsFiniteSet(Versions)
  /\ "none" \notin Bytes /\ Lookalikes \subseteq Bytes
  /\ Deadline \in Nat \ {0} /\ UploadTtl \in Nat \ {0}
  /\ AbandonedAfter \in Nat \ {0} /\ BatchSize \in Nat \ {0}
  /\ {Horizon, MaxIntents, MaxDeposits, MaxStorageErrors} \subseteq Nat

VARIABLES
  vaultClock,   \* the time
  bucket,       \* object under a key: content and time of its upload
  deposits,     \* every upload there has been
  asked,        \* uploads asked for whose key was found absent
  intents,      \* signed intents: key, expected content, time of signing
  references,   \* control_evidence row: version and content finalized, and when
  finalizers,   \* where each finalization is
  cleaners,     \* where each clean-up is
  storageErrors \* removals that failed so far

vaultVars == <<vaultClock, bucket, deposits, asked, intents, references,
               finalizers, cleaners, storageErrors>>

EvidenceKeys == Evidences \X Versions

Contents == [bytes : Bytes, type : Types]

NoContent == [bytes |-> "none", type |-> "none"]
NoObject == [content |-> NoContent, at |-> 0]
NoReference == [version |-> 0, content |-> NoContent, at |-> 0]
NoIntent == [key |-> <<0, 0>>, content |-> NoContent, at |-> 0]
Request(pc) == [pc |-> pc, intent |-> NoIntent, likely |-> FALSE]
NoCleanup == [pc |-> "idle", since |-> 0, page |-> {}]

Present == {k \in EvidenceKeys : bucket[k] # NoObject}

StorageFails == storageErrors < MaxStorageErrors /\ storageErrors' = storageErrors + 1

(* findFinalized: the row of an evidence refers to one of its versions.    *)
Reference(k) ==
  IF references[k[1]].version = k[2] THEN references[k[1]].content ELSE NoContent

-----------------------------------------------------------------------------
(* Upload intents and uploads.                                             *)

(* createUploadIntent: the key must be absent...                           *)
inspectAbsent ==
  \E k \in EvidenceKeys \ Present, c \in Contents :
    /\ Cardinality(intents) + Cardinality(asked) < MaxIntents
    /\ asked' = asked \union {[key |-> k, content |-> c]}
    /\ UNCHANGED <<vaultClock, bucket, deposits, intents, references, finalizers, cleaners, storageErrors>>

(* ... when it is looked at: the URL and the proof are signed afterwards.  *)
createUploadIntent ==
  \E a \in asked :
    /\ asked' = asked \ {a}
    /\ intents' = intents \union {[key |-> a.key, content |-> a.content, at |-> vaultClock]}
    /\ UNCHANGED <<vaultClock, bucket, deposits, references, finalizers, cleaners, storageErrors>>

(* The client puts any bytes under a URL that is valid, as often as the    *)
(* key is free: upsert is false, and the URL outlives the proof.           *)
upload ==
  \E i \in intents, c \in Contents :
    /\ vaultClock <= i.at + UploadTtl /\ bucket[i.key] = NoObject
    /\ Cardinality(deposits) < MaxDeposits
    /\ bucket' = [bucket EXCEPT ![i.key] = [content |-> c, at |-> vaultClock]]
    /\ deposits' = deposits \union {[key |-> i.key, content |-> c, at |-> vaultClock]}
    /\ UNCHANGED <<vaultClock, asked, intents, references, finalizers, cleaners, storageErrors>>

-----------------------------------------------------------------------------
(* A finalization.                                                         *)

At(f, pc) == finalizers[f].pc = pc
MovesTo(f, pc) == finalizers' = [finalizers EXCEPT ![f].pc = pc]
Ends(f) == finalizers' = [finalizers EXCEPT ![f] = Request("done")]
Wanted(f) == finalizers[f].intent

(* A proof that was signed here and has not run out.                       *)
finalize(f) ==
  /\ At(f, "new")
  /\ \E i \in intents :
       /\ vaultClock <= i.at + Deadline
       /\ finalizers' = [finalizers EXCEPT ![f] = [pc |-> "lookup", intent |-> i, likely |-> FALSE]]
  /\ UNCHANGED <<vaultClock, bucket, deposits, asked, intents, references, cleaners, storageErrors>>

(* A finalization of the same bytes is answered again, of others refused.  *)
findFinalized(f) ==
  LET found == Reference(Wanted(f).key) IN
  /\ At(f, "lookup")
  /\ IF found = NoContent THEN MovesTo(f, "inspect")
     ELSE IF found = Wanted(f).content THEN MovesTo(f, "verified") ELSE Ends(f)
  /\ UNCHANGED <<vaultClock, bucket, deposits, asked, intents, references, cleaners, storageErrors>>

SameSize(b, c) == b = c \/ {b, c} \subseteq Lookalikes

LooksLike(c, d) == SameSize(c.bytes, d.bytes) /\ c.type = d.type

(* readObject: the metadata first...                                       *)
inspectObject(f) ==
  LET object == bucket[Wanted(f).key] IN
  /\ At(f, "inspect")
  /\ IF object = NoObject THEN Ends(f)
     ELSE finalizers' = [finalizers EXCEPT ![f] =
                           [pc |-> "read", intent |-> Wanted(f), likely |-> LooksLike(object.content, Wanted(f).content)]]
  /\ UNCHANGED <<vaultClock, bucket, deposits, asked, intents, references, cleaners, storageErrors>>

\* slip: the metadata alone are compared with what was expected
Matches_metadata(f, read) == finalizers[f].likely

(* Size and type are those of the metadata; the stream gives its size and  *)
(* its hash, and no type.                                                  *)
Matches(f, read) == finalizers[f].likely /\ read.bytes = Wanted(f).content.bytes

(* ... and then the bytes.                                                 *)
readObject(f) ==
  LET object == bucket[Wanted(f).key] IN
  /\ At(f, "read")
  /\ IF object = NoObject THEN Ends(f)
     ELSE MovesTo(f, IF Matches(f, object.content) THEN "verified" ELSE "reject")
  /\ UNCHANGED <<vaultClock, bucket, deposits, asked, intents, references, cleaners, storageErrors>>

(* rejectMismatch removes whatever is under the key by then.               *)
rejectMismatch(f) ==
  /\ At(f, "reject") /\ Ends(f)
  /\ \/ bucket' = [bucket EXCEPT ![Wanted(f).key] = NoObject] /\ UNCHANGED storageErrors
     \/ StorageFails /\ UNCHANGED bucket
  /\ UNCHANGED <<vaultClock, deposits, asked, intents, references, cleaners>>

(* attachFinalizedDecision writes the row without a look at the bucket, at *)
(* the proof's deadline or at what the row refers to; or the partner, the  *)
(* claim's state or the database stops the request before.                 *)
attachReference(f) ==
  LET i == Wanted(f) IN
  /\ At(f, "verified") /\ Ends(f)
  /\ \/ references' = [references EXCEPT ![i.key[1]] =
                          [version |-> i.key[2], content |-> i.content, at |-> vaultClock]]
     \/ UNCHANGED references
  /\ UNCHANGED <<vaultClock, bucket, deposits, asked, intents, cleaners, storageErrors>>

-----------------------------------------------------------------------------
(* The clean-up.                                                           *)

Before(j, k) == j[1] < k[1] \/ (j[1] = k[1] /\ j[2] < k[2])

(* listObjects without a cursor: the first page, always.                   *)
FirstPage == {k \in Present : Cardinality({j \in Present : Before(j, k)}) < BatchSize}

cleanup(w) ==
  /\ cleaners[w].pc = "idle" /\ Present # {}
  /\ cleaners' = [cleaners EXCEPT ![w] =
       [pc |-> "check", since |-> vaultClock,
        page |-> {[key |-> k, at |-> bucket[k].at] : k \in FirstPage}]]
  /\ UNCHANGED <<vaultClock, bucket, deposits, asked, intents, references, finalizers, storageErrors>>

FirstOf(w, o) == o \in cleaners[w].page /\ \A p \in cleaners[w].page : ~ Before(p.key, o.key)

\* slip: whether the object is finalized is not asked
Abandoned_unasked(w, o) == o.at + AbandonedAfter <= cleaners[w].since

(* Created at or before the cutoff of this run, and not finalized when     *)
(* this is asked.                                                          *)
Abandoned(w, o) == o.at + AbandonedAfter <= cleaners[w].since /\ Reference(o.key) = NoContent

(* The object is done with, and the run with its last one.                 *)
PastObject(run, o) ==
  IF run.page = {o} THEN NoCleanup ELSE [pc |-> "check", since |-> run.since, page |-> run.page \ {o}]

isFinalized(w) ==
  /\ cleaners[w].pc = "check"
  /\ \E o \in cleaners[w].page :
       /\ FirstOf(w, o)
       /\ cleaners' = [cleaners EXCEPT ![w] =
            IF Abandoned(w, o) THEN [@ EXCEPT !.pc = "remove"]
            ELSE PastObject(@, o)]
  /\ UNCHANGED <<vaultClock, bucket, deposits, asked, intents, references, finalizers, storageErrors>>

(* The object under the key goes, though it may be another one by then; an *)
(* error of the storage ends the run.                                      *)
removeObject(w) ==
  /\ cleaners[w].pc = "remove"
  /\ \E o \in cleaners[w].page :
       /\ FirstOf(w, o)
       /\ \/ /\ bucket' = [bucket EXCEPT ![o.key] = NoObject]
             /\ cleaners' = [cleaners EXCEPT ![w] = PastObject(@, o)]
             /\ UNCHANGED storageErrors
          \/ /\ cleaners' = [cleaners EXCEPT ![w] = NoCleanup]
             /\ StorageFails /\ UNCHANGED bucket
  /\ UNCHANGED <<vaultClock, deposits, asked, intents, references, finalizers>>

-----------------------------------------------------------------------------

TimePasses ==
  /\ vaultClock < Horizon /\ vaultClock' = vaultClock + 1
  /\ UNCHANGED <<bucket, deposits, asked, intents, references, finalizers, cleaners, storageErrors>>

VaultInit ==
  /\ vaultClock = 0
  /\ bucket = [k \in EvidenceKeys |-> NoObject]
  /\ deposits = {} /\ asked = {} /\ intents = {}
  /\ references = [e \in Evidences |-> NoReference]
  /\ finalizers = [f \in Finalizers |-> Request("new")]
  /\ cleaners = [w \in Cleaners |-> NoCleanup]
  /\ storageErrors = 0

FinalizerStep(f) ==
  finalize(f) \/ findFinalized(f) \/ inspectObject(f) \/ readObject(f) \/ rejectMismatch(f) \/ attachReference(f)

CleanerStep(w) == cleanup(w) \/ isFinalized(w) \/ removeObject(w)

VaultNext ==
  \/ inspectAbsent \/ createUploadIntent \/ upload \/ TimePasses
  \/ \E f \in Finalizers : FinalizerStep(f)
  \/ \E w \in Cleaners : CleanerStep(w)

VaultSpec == VaultInit /\ [][VaultNext]_vaultVars

-----------------------------------------------------------------------------

Objects == [content : Contents \union {NoContent}, at : Nat]
SignedIntents == [key : EvidenceKeys, content : Contents, at : Nat]

VaultTypeOK ==
  /\ vaultClock \in Nat /\ storageErrors \in Nat
  /\ bucket \in [EvidenceKeys -> Objects]
  /\ deposits \subseteq SignedIntents /\ intents \subseteq SignedIntents
  /\ asked \subseteq [key : EvidenceKeys, content : Contents]
  /\ references \in [Evidences -> [version : Versions \union {0}, content : Contents \union {NoContent}, at : Nat]]
  /\ finalizers \in [Finalizers ->
       [pc : {"new", "lookup", "inspect", "read", "verified", "reject", "done"},
        intent : SignedIntents \union {NoIntent},
        likely : BOOLEAN]]
  /\ cleaners \in [Cleaners ->
       [pc : {"idle", "check", "remove"}, since : Nat, page : SUBSET [key : EvidenceKeys, at : Nat]]]

(* What the row says of an evidence was announced before it was uploaded   *)
(* and was then found in the bucket: an intent was signed for just this    *)
(* key and content; the bytes of this content were put under the key, and  *)
(* something of their size under its type, though perhaps in another       *)
(* upload, as metadata and bytes are read one after the other.             *)
(* Finalizations overlap, and files are removed and put again under URLs   *)
(* that are still valid.                                                   *)
EvidenceWasVerified ==
  \A k \in EvidenceKeys : Reference(k) # NoContent =>
    /\ \E i \in intents : i.key = k /\ i.content = Reference(k)
    /\ \E d \in deposits : d.key = k /\ d.content.bytes = Reference(k).bytes
    /\ \E d \in deposits :
         d.key = k /\ d.content.type = Reference(k).type /\ SameSize(d.content.bytes, Reference(k).bytes)

(* Everybody means the same bytes by a key.                                *)
Agreed(k) ==
  \A i, j \in intents \union deposits : i.key = k /\ j.key = k => i.content = j.content

(* No upload under the key had the age of abandoned files when the row was *)
(* written.                                                                *)
FinalizedYoung(k) == \A d \in deposits : d.key = k => references[k[1]].at < d.at + AbandonedAfter

(* A file stays in the bucket from its finalization on, whatever age it    *)
(* reaches, if everybody meant the same content by its key and no clean-up *)
(* could have had it on its list when the row was written: no clean-up     *)
(* that has listed or asked before, and no other request that found a      *)
(* mismatch, removes it.                                                   *)
FreshIsKept ==
  \A k \in EvidenceKeys :
    Reference(k) # NoContent /\ Agreed(k) /\ FinalizedYoung(k) => bucket[k] # NoObject
=============================================================================
