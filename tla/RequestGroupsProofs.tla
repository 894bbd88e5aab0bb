------------------------- MODULE RequestGroupsProofs -------------------------
(***************************************************************************)
(* Theorems about RequestGroups for any requests, numbers of choices,      *)
(* prompts, limits and failures.  GInv is the inductive invariant; its     *)
(* parts say what holds of a request as long as its client has nothing     *)
(* yet, and which failures there are without which what goes wrong.        *)
(***************************************************************************)
EXTENDS RequestGroups, FiniteSetTheorems, SequenceTheorems, TLAPS

Chunks == [k : Nat, fin : BOOLEAN]
Messages == [type : {"validation", "internal", "model"}]
            \cup [type : {"done"}, parts : Seq(Nat)]
            \cup [type : {"chunk"}, parts : Seq(Chunks)]
AnswerTypes == {"none", "validation", "internal", "model", "done", "chunk", "end"}

GTypeOK ==
    /\ truncate_sequence \in BOOLEAN
    /\ phase \in {"idle", "sample", "fail", "respond", "dead"}
    /\ batch \subseteq Seqs /\ todo \subseteq batch /\ isPrompt \in BOOLEAN
    /\ st \in [Seqs -> {"none", "fresh", "run", "done", "canceled", "error"}]
    /\ toks \in [Seqs -> Nat]
    /\ prompt \in [Requests -> Nat]
    /\ n_choices \in [Requests -> Int]
    /\ choices \in [Requests -> Seq(Nat)]
    /\ chunks \in [Requests -> Seq(Chunks)]
    /\ rx \in [Requests -> Seq(Messages)]
    /\ client \in [Requests -> {"open", "closed"}]
    /\ early \subseteq Requests
    /\ answer \in [Requests -> AnswerTypes]
    /\ revived \subseteq Seqs
    /\ holds \in Nat /\ sampleErrors \in Nat /\ forwardErrors \in Nat /\ allocErrors \in Nat

\* What is left of a batch in the sampling loop runs, and its sequences were made.
BatchInv ==
    /\ phase = "idle" => batch = {}
    /\ phase = "sample" => \A s \in todo : Runnable(s)
    /\ \A s \in batch : st[s] # "none"

\* A request that is not taken in has neither sequences nor messages, and a
\* client is gone only when it left early or has its answer.
ClientInv ==
    \A r \in Requests :
        /\ prompt[r] = 0 => /\ rx[r] = <<>> /\ answer[r] = "none"
                            /\ \A s \in SeqsOf(r) : st[s] = "none"
        /\ client[r] = "open" => r \notin early /\ answer[r] = "none"
        /\ client[r] = "closed" => rx[r] = <<>> /\ (r \in early \/ answer[r] # "none")
        /\ r \in Streaming => \A i \in DOMAIN rx[r] : rx[r][i].type # "done"
        /\ answer[r] = "done" => r \notin Streaming

\* Prompts are cut to their end, and a sequence stops after max_len + 1 tokens.
LengthInv ==
    /\ \A s \in Seqs : st[s] # "none" /\ TooLong(s[1]) => prompt[s[1]] = Kept(s[1])
    /\ holds = 0 /\ revived = {} =>
          \A s \in Seqs : /\ toks[s] <= MaxLen[s[1]] + 1
                          /\ Runnable(s) \/ st[s] = "none" => toks[s] <= MaxLen[s[1]]

\* The sequences of a batch have not failed when the next one is sampled, nor
\* while the failure of their step is handled.
CountInv ==
    /\ NChoicesCountsTheRest
    /\ revived = {} /\ (phase \in {"fail", "respond"} \/ (phase = "sample" /\ todo # {}))
          => \A s \in batch : st[s] # "error"

DoneKs(r) == {k \in 1..N[r] : st[<<r, k>>] = "done"}
ChoicesAreDone(r) == IsInjective(choices[r]) /\ Range(choices[r]) = DoneKs(r)
Unanswered(r) == r \notin early /\ rx[r] = <<>> /\ answer[r] = "none"
Failing(r) == phase \in {"fail", "respond", "dead"} /\ \E s \in batch : s[1] = r

\* Until a client has its answer, nothing of its request has failed, the choices
\* are those of the sequences that are done, and one is still to come.
UnansweredInv ==
    /\ phase = "respond" =>
          \A s \in batch \ todo : s[1] \notin Streaming => ~Unanswered(s[1])
    /\ revived = {} =>
          \A r \in Requests \ Streaming :
              Unanswered(r) /\ ~Failing(r) =>
                  /\ ChoicesAreDone(r)
                  /\ n_choices[r] = N[r]
                  /\ prompt[r] # 0 => /\ \A s \in SeqsOf(r) : st[s] \in {"fresh", "run", "done"}
                                      /\ \E s \in SeqsOf(r) : st[s] # "done"

\* When no step failed, n_choices is what it was, and a step fails only because
\* a client has gone, which handling it will meet.
StreamInv ==
    sampleErrors + forwardErrors = 0 =>
        /\ n_choices = N
        /\ \A r \in Streaming : Len(chunks[r]) < N[r]
        /\ phase = "fail" => \E s \in batch : client[s[1]] = "closed"
        /\ phase = "respond" => \E s \in todo : client[s[1]] = "closed"

\* When moreover no client left early, no step fails at all: a client that has
\* its answer is that of a request that is over, or that will never be complete.
NoFailureInv ==
    revived = {} /\ early = {} /\ sampleErrors + forwardErrors = 0 =>
        /\ phase \in {"idle", "sample"}
        /\ \A r \in Requests \ Streaming :
              /\ ChoicesAreDone(r)
              /\ rx[r] # <<>> \/ client[r] = "closed" =>
                    \/ \E s \in SeqsOf(r) : st[s] = "none"
                    \/ \A s \in SeqsOf(r) : st[s] = "done"

\* When all requests have one choice, a client that has its answer, or is about
\* to take it, is that of a sequence that is through, or fails just now.
Final(r, msg) == r \notin Streaming \/ EndsStream(msg)
Served(r) == client[r] = "closed" \/ \E i \in DOMAIN rx[r] : Final(r, rx[r][i])
SingleInv ==
    (\A r \in Requests : N[r] = 1) /\ revived = {} /\ early = {} =>
        /\ phase # "dead"
        /\ phase \in {"fail", "respond"} => \A s \in batch : Runnable(s)
        /\ \A r \in Streaming : chunks[r] = <<>>
        /\ \A s \in Seqs : Served(s[1]) /\ Runnable(s) => phase = "respond" /\ s \in batch \ todo

GInv == /\ GTypeOK /\ BatchInv /\ ClientInv /\ LengthInv /\ CountInv /\ UnansweredInv
        /\ DoneMeansOver /\ StreamInv /\ NoFailureInv /\ SingleInv

-----------------------------------------------------------------------------
(* Facts about sequences of requests, and about what the client is sent.   *)

LEMMA SeqsFacts ==
    /\ \A s \in Seqs : /\ s[1] \in Requests /\ s[2] \in 1..N[s[1]] /\ s = <<s[1], s[2]>>
                       /\ s \in SeqsOf(s[1])
    /\ \A r \in Requests : \A s \in SeqsOf(r) : s \in Seqs /\ s[1] = r
    /\ \A r \in Requests, k \in Nat : k \in 1..N[r] => <<r, k>> \in SeqsOf(r)
    /\ \A r \in Requests : N[r] \in Nat \ {0}
  BY GroupsAssumption DEF Seqs, SeqsOf

\* What is kept of a prompt that is too long is not empty.
LEMMA KeptType ==
    ASSUME NEW r \in Requests, TooLong(r)
    PROVE  Kept(r) \in Nat \ {0}
  BY GroupsAssumption DEF Kept, TooLong

LEMMA SendType ==
    ASSUME NEW r \in Requests, NEW msg \in Messages, rx \in [Requests -> Seq(Messages)], Send(r, msg)
    PROVE  /\ rx' \in [Requests -> Seq(Messages)]
           /\ rx'[r] = Append(rx[r], msg)
           /\ \A q \in Requests \ {r} : rx'[q] = rx[q]
  BY DEF Send

\* A message at the end: the first one is the same, or is the new one.
LEMMA AppendFacts ==
    ASSUME NEW S, NEW q \in Seq(S), NEW x \in S
    PROVE  /\ Append(q, x) \in Seq(S) /\ Append(q, x) # <<>>
           /\ Len(Append(q, x)) = Len(q) + 1
           /\ DOMAIN Append(q, x) = 1..(Len(q) + 1)
           /\ \A i \in 1..Len(q) : Append(q, x)[i] = q[i]
           /\ Append(q, x)[Len(q) + 1] = x
           /\ Head(Append(q, x)) = IF q = <<>> THEN x ELSE Head(q)
  OBVIOUS

LEMMA MessageFacts ==
    /\ \A t \in {"validation", "internal", "model"} : [type |-> t] \in Messages
    /\ \A cs \in Seq(Nat) : [type |-> "done", parts |-> cs] \in Messages
    /\ \A cs \in Seq(Chunks) : [type |-> "chunk", parts |-> cs] \in Messages
  BY DEF Messages

LEMMA FewerType ==
    ASSUME NEW F \in SUBSET Seqs, n_choices \in [Requests -> Int],
           \A r \in Requests : IsFiniteSet({s \in F : s[1] = r})
    PROVE  Fewer(F) \in [Requests -> Int]
<1> SUFFICES ASSUME NEW r \in Requests
             PROVE  n_choices[r] - Cardinality({s \in F : s[1] = r}) \in Int
  BY DEF Fewer
<1>1. Cardinality({s \in F : s[1] = r}) \in Nat
  BY FS_CardinalityType
<1> QED
  BY <1>1

\* A request has N[r] sequences, and finitely many of any set of sequences.
LEMMA SeqsOfFinite ==
    ASSUME NEW r \in Requests
    PROVE  /\ IsFiniteSet(SeqsOf(r)) /\ Cardinality(SeqsOf(r)) = N[r]
           /\ \A F \in SUBSET Seqs : IsFiniteSet({s \in F : s[1] = r})
<1> DEFINE f == [k \in 1..N[r] |-> <<r, k>>]
<1>1. N[r] \in Nat
  BY GroupsAssumption
<1>2. IsFiniteSet(1..N[r]) /\ Cardinality(1..N[r]) = N[r]
  BY <1>1, FS_Interval
<1>3. f \in Bijection(1..N[r], SeqsOf(r))
  BY DEF Bijection, Injection, Surjection, IsInjective, SeqsOf
<1>4. IsFiniteSet(SeqsOf(r)) /\ Cardinality(SeqsOf(r)) = N[r]
  BY <1>2, <1>3, FS_Bijection DEF ExistsBijection
<1>5. ASSUME NEW F \in SUBSET Seqs PROVE IsFiniteSet({s \in F : s[1] = r})
  <2>1. {s \in F : s[1] = r} \in SUBSET SeqsOf(r)
    BY SeqsFacts
  <2> QED
    BY <2>1, <1>4, FS_Subset
<1> QED
  BY <1>4, <1>5

-----------------------------------------------------------------------------
(* The types.                                                              *)

LEMMA InitG == Init => GTypeOK
<1> SUFFICES ASSUME Init PROVE GTypeOK
  OBVIOUS
<1>1. n_choices \in [Requests -> Int]
  BY GroupsAssumption DEF Init
<1>2. /\ choices \in [Requests -> Seq(Nat)]
      /\ chunks \in [Requests -> Seq(Chunks)]
      /\ rx \in [Requests -> Seq(Messages)]
  BY EmptySeq DEF Init
<1> QED
  BY <1>1, <1>2 DEF Init, GTypeOK, AnswerTypes

LEMMA TypeStep == GTypeOK /\ [Next]_vars => GTypeOK'
<1> SUFFICES ASSUME GTypeOK, [Next]_vars PROVE GTypeOK'
  OBVIOUS
<1>1. ASSUME NEW r \in Requests, AddRequest(r) PROVE GTypeOK'
  <2>1. prompt' \in [Requests -> Nat]
    BY <1>1, KeptType, GroupsAssumption DEF AddRequest, GTypeOK
  <2>2. /\ rx' \in [Requests -> Seq(Messages)] /\ phase' \in {"idle", "dead"}
        /\ st' \in [Seqs -> {"none", "fresh", "run", "done", "canceled", "error"}]
        /\ allocErrors' \in Nat
    <3>1. CASE Refuse(r)
      BY <1>1, <3>1, SendType, MessageFacts DEF AddRequest, Refuse, GTypeOK
    <3>2. CASE \E made \in 0..N[r] : MakeSequences(r, made)
      <4> PICK made \in 0..N[r] : MakeSequences(r, made)
        BY <3>2
      <4>1. /\ st' \in [Seqs -> {"none", "fresh", "run", "done", "canceled", "error"}]
            /\ allocErrors' \in Nat
        BY DEF MakeSequences, GTypeOK
      <4>2. rx' \in [Requests -> Seq(Messages)] /\ phase' \in {"idle", "dead"}
        BY <1>1, SendType, MessageFacts DEF AddRequest, MakeSequences, GTypeOK
      <4> QED
        BY <4>1, <4>2
    <3> QED
      BY <1>1, <3>1, <3>2 DEF AddRequest
  <2> QED
    BY <1>1, <2>1, <2>2 DEF AddRequest, GTypeOK, groupVars, clientVars
<1>2. CASE PickBatch
  BY <1>2 DEF PickBatch, GTypeOK, groupVars, clientVars, errors
<1>3. ASSUME NEW s \in Seqs, Withhold(s) PROVE GTypeOK'
  BY <1>3 DEF Withhold, CountToken, GTypeOK, groupVars, clientVars
<1>4. ASSUME NEW s \in Seqs, StreamToken(s) PROVE GTypeOK'
  <2> DEFINE r == s[1]
  <2>1. r \in Requests
    BY SeqsFacts
  <2> PICK stop \in BOOLEAN :
         LET cs == Append(chunks[r], [k |-> s[2], fin |-> stop])
         IN  /\ MustStop(s) => stop
             /\ SendChunks(r, cs)
             /\ st' = [st EXCEPT ![s] = IF Len(cs) = n_choices[r] /\ client[r] = "closed" THEN "canceled"
                                        ELSE IF stop THEN "done" ELSE @]
    BY <1>4 DEF StreamToken
  <2> DEFINE cs == Append(chunks[r], [k |-> s[2], fin |-> stop])
  <2>2. cs \in Seq(Chunks)
    <3>1. [k |-> s[2], fin |-> stop] \in Chunks
      BY SeqsFacts, GroupsAssumption DEF Chunks
    <3> QED
      BY <2>1, <3>1, AppendFacts DEF GTypeOK
  <2>3. SendChunks(r, cs)
    OBVIOUS
  <2>4. /\ st' \in [Seqs -> {"none", "fresh", "run", "done", "canceled", "error"}]
        /\ toks' \in [Seqs -> Nat]
    BY <1>4 DEF StreamToken, CountToken, GTypeOK
  <2> HIDE DEF cs, r
  <2>5. chunks' \in [Requests -> Seq(Chunks)] /\ rx' \in [Requests -> Seq(Messages)]
    <3>1. [type |-> "chunk", parts |-> cs] \in Messages
      BY <2>2, MessageFacts
    <3>2. <<>> \in Seq(Chunks)
      OBVIOUS
    <3> QED
      BY <2>1, <2>2, <2>3, <3>1, <3>2, SendType DEF SendChunks, GTypeOK
  <2> QED
    BY <1>4, <2>4, <2>5 DEF StreamToken, Sampling, FirstLeft, GTypeOK, clientVars, errors
<1>5. ASSUME NEW s \in Seqs, JsonToken(s) PROVE GTypeOK'
  <2> DEFINE r == s[1]
             cs == Append(choices[r], s[2])
  <2>1. r \in Requests /\ s[2] \in Nat
    BY SeqsFacts
  <2>2. cs \in Seq(Nat)
    BY <2>1, AppendFacts DEF GTypeOK
  <2>3. [type |-> "done", parts |-> cs] \in Messages
    BY <2>2, MessageFacts
  <2>4. toks' \in [Seqs -> Nat]
    BY <1>5 DEF JsonToken, CountToken, GTypeOK
  <2>5. /\ st' \in [Seqs -> {"none", "fresh", "run", "done", "canceled", "error"}]
        /\ choices' \in [Requests -> Seq(Nat)]
        /\ phase' \in {"sample", "fail"} /\ todo' \subseteq batch
    BY <1>5, <2>1, <2>2 DEF JsonToken, Sampling, GTypeOK
  <2>6. rx' \in [Requests -> Seq(Messages)]
    BY <1>5, <2>1, <2>3, SendType DEF JsonToken, GTypeOK
  <2> QED
    BY <1>5, <2>4, <2>5, <2>6 DEF JsonToken, GTypeOK, clientVars, errors
<1>6. ASSUME NEW s \in Seqs, SampleError(s) PROVE GTypeOK'
  <2>1. s[1] \in Requests /\ {s} \in SUBSET Seqs
    BY SeqsFacts
  <2>2. Fewer({s}) \in [Requests -> Int]
    BY <2>1, SeqsOfFinite, FewerType DEF GTypeOK
  <2>3. rx' \in [Requests -> Seq(Messages)]
    BY <1>6, <2>1, SendType, MessageFacts DEF SampleError, GTypeOK
  <2>4. /\ st' \in [Seqs -> {"none", "fresh", "run", "done", "canceled", "error"}]
        /\ todo' \subseteq batch
    BY <1>6 DEF SampleError, GTypeOK
  <2>5. phase' \in {"sample", "dead"} /\ sampleErrors' \in Nat
    BY <1>6 DEF SampleError, Sampling, GTypeOK
  <2> QED
    BY <1>6, <2>2, <2>3, <2>4, <2>5 DEF SampleError, GTypeOK, clientVars
<1>7. CASE EndStep
  BY <1>7 DEF EndStep, GTypeOK, groupVars, clientVars, errors
<1>8. CASE ForwardError
  BY <1>8 DEF ForwardError, GTypeOK, groupVars, clientVars
<1>9. ASSUME NEW s \in Seqs, FailAddChoices(s) PROVE GTypeOK'
  <2>1. s[1] \in Requests /\ s[2] \in Nat
    BY SeqsFacts
  <2>2. choices' \in [Requests -> Seq(Nat)]
    BY <1>9, <2>1, AppendFacts DEF FailAddChoices, GTypeOK
  <2> QED
    BY <1>9, <2>2 DEF FailAddChoices, GTypeOK, clientVars, errors
<1>10. ASSUME NEW s \in Seqs, FailRespond(s) PROVE GTypeOK'
  <2>1. s[1] \in Requests
    BY SeqsFacts
  <2>2. rx' \in [Requests -> Seq(Messages)]
    BY <1>10, <2>1, SendType, MessageFacts DEF FailRespond, GTypeOK
  <2> QED
    BY <1>10, <2>2 DEF FailRespond, GTypeOK, groupVars, clientVars, errors
<1>11. CASE FailEnd
  <2>1. Fewer(batch) \in [Requests -> Int]
    BY SeqsOfFinite, FewerType DEF GTypeOK
  <2> QED
    BY <1>11, <2>1 DEF FailEnd, GTypeOK, clientVars, errors
<1>12. ASSUME NEW r \in Requests, TakeAnswer(r) PROVE GTypeOK'
  <2>1. Head(rx[r]) \in Messages
    BY <1>12 DEF TakeAnswer, GTypeOK
  <2>2. Head(rx[r]).type \in AnswerTypes
    BY <2>1 DEF Messages, AnswerTypes
  <2>3. <<>> \in Seq(Messages)
    OBVIOUS
  <2>4. answer' \in [Requests -> AnswerTypes] /\ rx' \in [Requests -> Seq(Messages)]
    BY <1>12, <2>2, <2>3 DEF TakeAnswer, Disconnect, GTypeOK
  <2> QED
    BY <1>12, <2>4 DEF TakeAnswer, Disconnect, GTypeOK, groupVars, errors
<1>13. ASSUME NEW r \in Requests, PollChunk(r) PROVE GTypeOK'
  <2>1. <<>> \in Seq(Messages) /\ Tail(rx[r]) \in Seq(Messages)
    BY <1>13 DEF PollChunk, GTypeOK
  <2>2. rx' \in [Requests -> Seq(Messages)] /\ answer' \in [Requests -> AnswerTypes]
    BY <1>13, <2>1 DEF PollChunk, Disconnect, GTypeOK, AnswerTypes
  <2> QED
    BY <1>13, <2>2 DEF PollChunk, Disconnect, GTypeOK, groupVars, errors
<1>14. ASSUME NEW r \in Requests, Leave(r) PROVE GTypeOK'
  <2>1. <<>> \in Seq(Messages)
    OBVIOUS
  <2> QED
    BY <1>14, <2>1 DEF Leave, Disconnect, GTypeOK, groupVars, errors
<1>15. CASE UNCHANGED vars
  BY <1>15 DEF vars, GTypeOK, groupVars, clientVars, errors
<1> QED
  BY <1>1, <1>2, <1>3, <1>4, <1>5, <1>6, <1>7, <1>8, <1>9, <1>10, <1>11, <1>12, <1>13, <1>14, <1>15
  DEF Next, Engine, SampleNext, Client

-----------------------------------------------------------------------------
(* Batches, and clients.                                                   *)

LEMMA InBatch ==
    ASSUME GTypeOK, BatchInv, ClientInv, NEW s, FirstLeft(s)
    PROVE  /\ s \in batch /\ s \in Seqs /\ s[1] \in Requests /\ st[s] # "none"
           /\ prompt[s[1]] # 0
           /\ phase = "sample" => Runnable(s)
  BY SeqsFacts DEF FirstLeft, GTypeOK, BatchInv, ClientInv

LEMMA BatchStep == GTypeOK /\ GTypeOK' /\ BatchInv /\ [Next]_vars => BatchInv'
<1> SUFFICES ASSUME GTypeOK, GTypeOK', BatchInv, [Next]_vars PROVE BatchInv'
  OBVIOUS
<1>1. ASSUME NEW r \in Requests, AddRequest(r) PROVE BatchInv'
  <2>1. batch = {} /\ batch' = {} /\ phase' # "sample"
    BY <1>1 DEF AddRequest, Refuse, MakeSequences, BatchInv
  <2> QED
    BY <2>1 DEF BatchInv
<1>2. CASE PickBatch
  BY <1>2 DEF PickBatch, BatchInv, Runnable
<1>3. ASSUME NEW s \in Seqs, Withhold(s) PROVE BatchInv'
  BY <1>3 DEF Withhold, Sampling, BatchInv, Runnable, GTypeOK
<1>4. ASSUME NEW s \in Seqs, StreamToken(s) PROVE BatchInv'
  <2>1. /\ phase' = phase /\ phase = "sample" /\ batch' = batch /\ todo' = todo \ {s}
        /\ \E x \in {"canceled", "done", st[s]} : st' = [st EXCEPT ![s] = x]
    BY <1>4 DEF StreamToken, Sampling
  <2> QED
    BY <1>4, <2>1 DEF StreamToken, Sampling, FirstLeft, BatchInv, Runnable, GTypeOK
<1>5. ASSUME NEW s \in Seqs, JsonToken(s) PROVE BatchInv'
  <2>1. batch' = batch /\ (st' = st \/ st' = [st EXCEPT ![s] = "done"])
    BY <1>5 DEF JsonToken
  <2>2. phase' = "fail" \/ (phase' = "sample" /\ todo' = todo \ {s})
    BY <1>5 DEF JsonToken, Sampling
  <2> QED
    BY <1>5, <2>1, <2>2 DEF JsonToken, Sampling, BatchInv, Runnable, GTypeOK
<1>6. ASSUME NEW s \in Seqs, SampleError(s) PROVE BatchInv'
  <2>1. /\ batch' = batch /\ (st' = st \/ st' = [st EXCEPT ![s] = "error"])
        /\ phase' = "dead" \/ (phase' = "sample" /\ todo' = {})
    BY <1>6 DEF SampleError, Sampling
  <2> QED
    BY <2>1 DEF BatchInv, GTypeOK
<1>7. CASE EndStep
  BY <1>7 DEF EndStep, BatchInv
<1>8. CASE ForwardError
  BY <1>8 DEF ForwardError, BatchInv
<1>9. ASSUME NEW s \in Seqs, FailAddChoices(s) PROVE BatchInv'
  BY <1>9 DEF FailAddChoices, BatchInv
<1>10. ASSUME NEW s \in Seqs, FailRespond(s) PROVE BatchInv'
  BY <1>10 DEF FailRespond, BatchInv
<1>11. CASE FailEnd
  BY <1>11 DEF FailEnd, BatchInv
<1>12. ASSUME NEW r \in Requests, Client(r) \/ Leave(r) PROVE BatchInv'
  BY <1>12 DEF Client, TakeAnswer, PollChunk, Leave, BatchInv, Runnable
<1>13. CASE UNCHANGED vars
  BY <1>13 DEF vars, BatchInv, Runnable
<1> QED
  BY <1>1, <1>2, <1>3, <1>4, <1>5, <1>6, <1>7, <1>8, <1>9, <1>10, <1>11, <1>12, <1>13
  DEF Next, Engine, SampleNext

\* What the engine does to one request, as its client is concerned: nothing, or
\* the request was taken in, or an open channel gets a message.
LEMMA EngineClientStep ==
    ASSUME GTypeOK, ClientInv, UNCHANGED clientVars,
           \A r \in Requests :
              \/ prompt'[r] = prompt[r] /\ rx'[r] = rx[r]
                 /\ \A s \in SeqsOf(r) : st[s] = "none" => st'[s] = "none"
              \/ prompt'[r] # 0 /\ rx'[r] = rx[r]
              \/ prompt'[r] # 0 /\ client[r] = "open"
                 /\ \E msg \in Messages : /\ rx'[r] = Append(rx[r], msg)
                                          /\ msg.type = "done" => r \notin Streaming
    PROVE  ClientInv'
<1> SUFFICES ASSUME NEW r \in Requests
             PROVE  /\ prompt'[r] = 0 => /\ rx'[r] = <<>> /\ answer[r] = "none"
                                         /\ \A s \in SeqsOf(r) : st'[s] = "none"
                    /\ client[r] = "open" => r \notin early /\ answer[r] = "none"
                    /\ client[r] = "closed" => rx'[r] = <<>> /\ (r \in early \/ answer[r] # "none")
                    /\ r \in Streaming => \A i \in DOMAIN rx'[r] : rx'[r][i].type # "done"
                    /\ answer[r] = "done" => r \notin Streaming
  BY DEF ClientInv, clientVars
<1>1. CASE prompt'[r] = prompt[r] /\ rx'[r] = rx[r] /\ \A s \in SeqsOf(r) : st[s] = "none" => st'[s] = "none"
  BY <1>1 DEF ClientInv
<1>2. CASE prompt'[r] # 0 /\ rx'[r] = rx[r]
  BY <1>2 DEF ClientInv
<1>3. ASSUME prompt'[r] # 0, client[r] = "open",
             NEW msg \in Messages, rx'[r] = Append(rx[r], msg),
             msg.type = "done" => r \notin Streaming
      PROVE  /\ r \in Streaming => \A i \in DOMAIN rx'[r] : rx'[r][i].type # "done"
  <2>1. rx[r] \in Seq(Messages)
    BY DEF GTypeOK
  <2>2. \A i \in DOMAIN Append(rx[r], msg) :
           Append(rx[r], msg)[i] = msg \/ (i \in DOMAIN rx[r] /\ Append(rx[r], msg)[i] = rx[r][i])
    BY <2>1, AppendFacts
  <2> QED
    BY <1>3, <2>2 DEF ClientInv
<1> QED
  BY <1>1, <1>2, <1>3 DEF ClientInv

\* What a client does to its own request.
LEMMA OneClientStep ==
    ASSUME GTypeOK, ClientInv, UNCHANGED <<prompt, st>>, NEW r \in Requests, prompt[r] # 0,
           \A q \in Requests \ {r} : /\ rx'[q] = rx[q] /\ client'[q] = client[q]
                                     /\ answer'[q] = answer[q] /\ (q \in early' <=> q \in early),
           client'[r] = "open" => r \notin early' /\ answer'[r] = "none",
           client'[r] = "closed" => rx'[r] = <<>> /\ (r \in early' \/ answer'[r] # "none"),
           r \in Streaming => \A i \in DOMAIN rx'[r] : rx'[r][i].type # "done",
           answer'[r] = "done" => r \notin Streaming
    PROVE  ClientInv'
  BY DEF ClientInv

LEMMA ClientStep == GTypeOK /\ GTypeOK' /\ BatchInv /\ ClientInv /\ [Next]_vars => ClientInv'
<1> SUFFICES ASSUME GTypeOK, GTypeOK', BatchInv, ClientInv, [Next]_vars PROVE ClientInv'
  OBVIOUS
<1> DEFINE Kept1(r) == prompt'[r] = prompt[r] /\ rx'[r] = rx[r]
                       /\ \A s \in SeqsOf(r) : st[s] = "none" => st'[s] = "none"
           Taken(r) == prompt'[r] # 0 /\ rx'[r] = rx[r]
           Sent(r) == prompt'[r] # 0 /\ client[r] = "open"
                      /\ \E msg \in Messages : /\ rx'[r] = Append(rx[r], msg)
                                               /\ msg.type = "done" => r \notin Streaming
<1> SUFFICES ASSUME ~ \E r \in Requests : Client(r) \/ Leave(r)
             PROVE  UNCHANGED clientVars /\ \A r \in Requests : Kept1(r) \/ Taken(r) \/ Sent(r)
  <2>1. ASSUME NEW r \in Requests, TakeAnswer(r) PROVE ClientInv'
    <3>1. /\ client' = [client EXCEPT ![r] = "closed"] /\ rx' = [rx EXCEPT ![r] = <<>>]
          /\ r \notin Streaming /\ rx[r] # <<>> /\ UNCHANGED <<prompt, st, early>>
          /\ answer' = [answer EXCEPT ![r] = Head(rx[r]).type]
      BY <2>1 DEF TakeAnswer, Disconnect
    <3>2. Head(rx[r]) \in Messages
      BY <3>1 DEF GTypeOK
    <3>3. Head(rx[r]).type # "none" /\ prompt[r] # 0
      BY <3>1, <3>2 DEF Messages, ClientInv
    <3>4. /\ client'[r] = "closed" /\ rx'[r] = <<>> /\ answer'[r] # "none"
          /\ \A q \in Requests \ {r} : /\ rx'[q] = rx[q] /\ client'[q] = client[q]
                                        /\ answer'[q] = answer[q]
      BY <3>1, <3>3 DEF GTypeOK
    <3> QED
      BY <3>1, <3>3, <3>4, OneClientStep
  <2>2. ASSUME NEW r \in Requests, PollChunk(r) PROVE ClientInv'
    <3>1. /\ r \in Streaming /\ rx[r] # <<>> /\ rx[r] \in Seq(Messages) /\ client[r] = "open"
          /\ UNCHANGED <<prompt, st, early>> /\ prompt[r] # 0
      BY <2>2 DEF PollChunk, GTypeOK, ClientInv
    <3>2. CASE EndsStream(Head(rx[r]))
      <4>1. /\ client' = [client EXCEPT ![r] = "closed"] /\ rx' = [rx EXCEPT ![r] = <<>>]
            /\ answer' = [answer EXCEPT ![r] = "end"]
        BY <2>2, <3>2 DEF PollChunk, Disconnect
      <4>2. /\ client'[r] = "closed" /\ rx'[r] = <<>> /\ answer'[r] = "end"
            /\ \A q \in Requests \ {r} : /\ rx'[q] = rx[q] /\ client'[q] = client[q]
                                          /\ answer'[q] = answer[q]
        BY <4>1 DEF GTypeOK
      <4>3. DOMAIN rx'[r] = {}
        BY <4>2
      <4> QED
        BY <3>1, <4>2, <4>3, OneClientStep
    <3>3. CASE ~EndsStream(Head(rx[r]))
      <4>1. rx' = [rx EXCEPT ![r] = Tail(rx[r])] /\ UNCHANGED <<client, answer>>
        BY <2>2, <3>3 DEF PollChunk
      <4>2. \A i \in DOMAIN Tail(rx[r]) : i + 1 \in DOMAIN rx[r] /\ Tail(rx[r])[i] = rx[r][i + 1]
        BY <3>1
      <4>3. \A i \in DOMAIN Tail(rx[r]) : Tail(rx[r])[i].type # "done"
        BY <3>1, <4>2 DEF ClientInv
      <4>4. rx'[r] = Tail(rx[r]) /\ \A q \in Requests \ {r} : rx'[q] = rx[q]
        BY <4>1 DEF GTypeOK
      <4>5. \A i \in DOMAIN rx'[r] : rx'[r][i].type # "done"
        BY <4>3, <4>4
      <4>6. /\ client'[r] = "open" => r \notin early' /\ answer'[r] = "none"
            /\ client'[r] = "closed" => rx'[r] = <<>> /\ (r \in early' \/ answer'[r] # "none")
            /\ answer'[r] = "done" => r \notin Streaming
        BY <3>1, <4>1 DEF ClientInv
      <4> QED
        BY <3>1, <4>1, <4>4, <4>5, <4>6, OneClientStep
    <3> QED
      BY <3>2, <3>3
  <2>3. ASSUME NEW r \in Requests, Leave(r) PROVE ClientInv'
    BY SMTT(30), <2>3 DEF Leave, Disconnect, ClientInv, GTypeOK
  <2>4. CASE ~ \E r \in Requests : Client(r) \/ Leave(r)
    BY <2>4, EngineClientStep
  <2> QED
    BY <2>1, <2>2, <2>3, <2>4 DEF Client
<1>1. ASSUME NEW r \in Requests, AddRequest(r)
      PROVE  UNCHANGED clientVars /\ \A q \in Requests : Kept1(q) \/ Taken(q) \/ Sent(q)
  <2>1. UNCHANGED clientVars /\ prompt[r] = 0
    BY <1>1 DEF AddRequest
  <2>2. prompt'[r] # 0 /\ \A q \in Requests \ {r} : prompt'[q] = prompt[q]
    BY <1>1, KeptType, GroupsAssumption DEF AddRequest, GTypeOK
  <2>3. \/ UNCHANGED rx
        \/ client[r] = "open" /\ Send(r, [type |-> "validation"])
        \/ client[r] = "open" /\ Send(r, [type |-> "internal"])
    BY <1>1 DEF AddRequest, Refuse, MakeSequences
  <2>4. \A q \in Requests \ {r} : \A s \in SeqsOf(q) : st'[s] = st[s]
    BY <1>1, SeqsFacts DEF AddRequest, Refuse, MakeSequences
  <2>5. \A q \in Requests \ {r} : rx'[q] = rx[q]
    BY <2>3, SendType, MessageFacts DEF GTypeOK
  <2>6. Taken(r) \/ Sent(r)
    BY <2>2, <2>3, SendType, MessageFacts DEF GTypeOK
  <2> QED
    BY <2>1, <2>2, <2>4, <2>5, <2>6
<1>2. ASSUME UNCHANGED <<prompt, rx, clientVars>>, \A s \in Seqs : st[s] = "none" => st'[s] = "none"
      PROVE  UNCHANGED clientVars /\ \A q \in Requests : Kept1(q)
  BY <1>2, SeqsFacts
<1>3. ASSUME NEW r \in Requests, NEW msg \in Messages, Send(r, msg), msg.type = "done" => r \notin Streaming,
             prompt[r] # 0, client[r] = "open",
             UNCHANGED <<prompt, clientVars>>, \A s \in Seqs : st[s] = "none" => st'[s] = "none"
      PROVE  UNCHANGED clientVars /\ \A q \in Requests : Kept1(q) \/ Taken(q) \/ Sent(q)
  <2>1. rx'[r] = Append(rx[r], msg) /\ \A q \in Requests \ {r} : rx'[q] = rx[q]
    BY <1>3, SendType DEF GTypeOK
  <2>2. Sent(r)
    BY <1>3, <2>1
  <2>3. \A q \in Requests \ {r} : Kept1(q)
    BY <1>3, <2>1, SeqsFacts
  <2> QED
    BY <1>3, <2>2, <2>3
<1> DEFINE Goal == UNCHANGED clientVars /\ \A r \in Requests : Kept1(r) \/ Taken(r) \/ Sent(r)
<1> HIDE DEF Kept1, Taken, Sent
<1>4. CASE PickBatch
  BY <1>2, <1>4 DEF PickBatch
<1>5. ASSUME NEW s \in Seqs, Withhold(s) PROVE Goal
  BY <1>2, <1>5 DEF Withhold
<1>6. ASSUME NEW s \in Seqs, StreamToken(s) PROVE Goal
  <2>1. /\ s[1] \in Requests /\ prompt[s[1]] # 0 /\ st[s] # "none" /\ s[1] \in Streaming
        /\ UNCHANGED <<prompt, clientVars>>
        /\ \A t \in Seqs : st[t] = "none" => st'[t] = "none"
    BY <1>6, InBatch DEF StreamToken, Sampling, GTypeOK
  <2> PICK stop \in BOOLEAN : SendChunks(s[1], Append(chunks[s[1]], [k |-> s[2], fin |-> stop]))
    BY <1>6 DEF StreamToken
  <2> DEFINE cs == Append(chunks[s[1]], [k |-> s[2], fin |-> stop])
  <2>2. cs \in Seq(Chunks)
    <3>1. [k |-> s[2], fin |-> stop] \in Chunks
      BY SeqsFacts, GroupsAssumption DEF Chunks
    <3> QED
      BY <2>1, <3>1, AppendFacts DEF GTypeOK
  <2>3. [type |-> "chunk", parts |-> cs] \in Messages
    BY <2>2, MessageFacts
  <2>4. UNCHANGED rx \/ (client[s[1]] = "open" /\ Send(s[1], [type |-> "chunk", parts |-> cs]))
    BY DEF SendChunks
  <2> HIDE DEF cs
  <2> QED
    BY <1>2, <1>3, <2>1, <2>3, <2>4
<1>7. ASSUME NEW s \in Seqs, JsonToken(s) PROVE Goal
  <2> DEFINE cs == Append(choices[s[1]], s[2])
  <2>1. /\ s[1] \in Requests /\ prompt[s[1]] # 0 /\ st[s] # "none" /\ s[1] \notin Streaming
        /\ UNCHANGED <<prompt, clientVars>>
    BY <1>7, InBatch DEF JsonToken, Sampling
  <2>2. \A t \in Seqs : st[t] = "none" => st'[t] = "none"
    BY <1>7, <2>1 DEF JsonToken, GTypeOK
  <2>3. cs \in Seq(Nat)
    BY SMTT(30), <2>1, AppendFacts, SeqsFacts DEF GTypeOK
  <2>4. [type |-> "done", parts |-> cs] \in Messages
    BY <2>3, MessageFacts
  <2>5. UNCHANGED rx \/ (client[s[1]] = "open" /\ Send(s[1], [type |-> "done", parts |-> cs]))
    BY <1>7 DEF JsonToken
  <2> HIDE DEF cs
  <2> QED
    BY <1>2, <1>3, <2>1, <2>2, <2>4, <2>5
<1>8. ASSUME NEW s \in Seqs, SampleError(s) PROVE Goal
  <2>1. /\ s[1] \in Requests /\ prompt[s[1]] # 0 /\ st[s] # "none"
        /\ UNCHANGED <<prompt, clientVars>>
    BY <1>8, InBatch DEF SampleError, Sampling
  <2>2. \A t \in Seqs : st[t] = "none" => st'[t] = "none"
    BY <1>8, <2>1 DEF SampleError, GTypeOK
  <2>3. UNCHANGED rx \/ (client[s[1]] = "open" /\ Send(s[1], [type |-> "internal"]))
    BY <1>8 DEF SampleError
  <2>4. [type |-> "internal"] \in Messages /\ [type |-> "internal"].type # "done"
    BY MessageFacts
  <2> QED
    BY <1>2, <1>3, <2>1, <2>2, <2>3, <2>4
<1>9. CASE EndStep
  BY <1>2, <1>9 DEF EndStep, BatchInv
<1>10. CASE ForwardError
  BY <1>2, <1>10 DEF ForwardError
<1>11. ASSUME NEW s \in Seqs, FailAddChoices(s) PROVE Goal
  BY <1>2, <1>11 DEF FailAddChoices
<1>12. ASSUME NEW s \in Seqs, FailRespond(s) PROVE Goal
  <2>1. /\ s[1] \in Requests /\ prompt[s[1]] # 0
        /\ UNCHANGED <<prompt, clientVars, st>>
        /\ UNCHANGED rx \/ (client[s[1]] = "open" /\ Send(s[1], [type |-> "model"]))
    BY <1>12, InBatch DEF FailRespond
  <2>2. [type |-> "model"] \in Messages /\ [type |-> "model"].type # "done"
    BY MessageFacts
  <2> QED
    BY <1>2, <1>3, <2>1, <2>2
<1>13. CASE FailEnd
  BY <1>2, <1>13 DEF FailEnd, BatchInv
<1>14. CASE UNCHANGED vars
  BY <1>2, <1>14 DEF vars
<1> QED
  BY <1>1, <1>4, <1>5, <1>6, <1>7, <1>8, <1>9, <1>10, <1>11, <1>12, <1>13, <1>14
  DEF Next, Engine, SampleNext

-----------------------------------------------------------------------------
(* Lengths.                                                                *)

\* A sequence that counted a token and can do so again was not at its limit.
LEMMA SampledLength ==
    ASSUME GTypeOK, GTypeOK', LengthInv, NEW s \in Seqs, Runnable(s), CountToken(s),
           UNCHANGED <<prompt, revived, holds>>, \A t \in Seqs \ {s} : st'[t] = st[t],
           st'[s] # "none", MustStop(s) => ~Runnable(s)'
    PROVE  LengthInv'
<1>1. \A t \in Seqs : st'[t] # "none" => st[t] # "none"
  BY DEF Runnable
<1>2. \A t \in Seqs : st'[t] # "none" /\ TooLong(t[1]) => prompt'[t[1]] = Kept(t[1])
  BY <1>1 DEF LengthInv
<1>3. ASSUME holds = 0, revived = {}, NEW t \in Seqs
      PROVE  /\ toks'[t] <= MaxLen[t[1]] + 1
             /\ Runnable(t)' \/ st'[t] = "none" => toks'[t] <= MaxLen[t[1]]
  <2>1. CASE t # s
    <3>1. toks'[t] = toks[t] /\ st'[t] = st[t]
      BY <2>1 DEF CountToken, GTypeOK
    <3> QED
      BY <1>3, <3>1 DEF LengthInv, Runnable
  <2>2. CASE t = s
    <3>1. MaxLen[s[1]] \in Nat /\ MaxLen[s[1]] < TokBound /\ TokBound \in Nat
      BY SeqsFacts, GroupsAssumption
    <3>2. toks[s] <= MaxLen[s[1]] /\ toks[s] \in Nat
      BY <1>3 DEF LengthInv, GTypeOK
    <3>3. toks'[s] = toks[s] + 1
      BY <3>1, <3>2 DEF CountToken, GTypeOK
    <3>4. toks[s] = MaxLen[s[1]] => MustStop(s)
      BY DEF MustStop
    <3> QED
      BY <2>2, <3>1, <3>2, <3>3, <3>4
  <2> QED
    BY <2>1, <2>2
<1> QED
  BY <1>2, <1>3 DEF LengthInv, Runnable

LEMMA LengthStep == GTypeOK /\ GTypeOK' /\ BatchInv /\ ClientInv /\ LengthInv /\ [Next]_vars => LengthInv'
<1> SUFFICES ASSUME GTypeOK, GTypeOK', BatchInv, ClientInv, LengthInv, [Next]_vars PROVE LengthInv'
  OBVIOUS
\* A step that counts no token: what is runnable then was runnable before, or new.
<1>1. ASSUME UNCHANGED <<toks, holds>>, revived' = {} => revived = {},
             \A s \in Seqs : st'[s] # "none" => prompt'[s[1]] = prompt[s[1]] /\ st[s] # "none",
             revived' = {} => \A s \in Seqs : Runnable(s)' => Runnable(s) \/ st[s] = "none",
             \A s \in Seqs : st'[s] = "none" => st[s] = "none"
      PROVE  LengthInv'
  BY <1>1 DEF LengthInv, Runnable
<1>2. ASSUME NEW r \in Requests, AddRequest(r) PROVE LengthInv'
  <2>1. /\ prompt[r] = 0 /\ UNCHANGED <<toks, revived, holds>>
        /\ prompt' = [prompt EXCEPT ![r] = IF TooLong(r) /\ truncate_sequence THEN Kept(r) ELSE PromptLen[r]]
    BY <1>2 DEF AddRequest
  <2>2. \A s \in SeqsOf(r) : st[s] = "none"
    BY <2>1 DEF ClientInv
  <2>3. /\ \A s \in Seqs : s[1] # r => st'[s] = st[s]
        /\ \A s \in Seqs : s[1] = r => st'[s] \in {"none", "fresh"}
        /\ \A s \in Seqs : s[1] = r /\ st'[s] # "none" => ~TooLong(r) \/ truncate_sequence
    <3>1. \A s \in Seqs : s[1] = r => st[s] = "none"
      BY <2>2, SeqsFacts
    <3> QED
      BY <1>2, <3>1 DEF AddRequest, Refuse, MakeSequences
  <2>4. ASSUME NEW s \in Seqs, st'[s] # "none", TooLong(s[1])
        PROVE  prompt'[s[1]] = Kept(s[1])
    <3>1. CASE s[1] = r
      <4>1. TooLong(r) /\ truncate_sequence
        BY <2>3, <2>4, <3>1
      <4>2. prompt'[r] = Kept(r)
        BY <2>1, <4>1 DEF GTypeOK
      <4> QED
        BY <3>1, <4>2
    <3>2. CASE s[1] # r
      <4>1. st[s] # "none" /\ prompt'[s[1]] = prompt[s[1]]
        BY <2>1, <2>3, <2>4, <3>2, SeqsFacts DEF GTypeOK
      <4> QED
        BY <2>4, <4>1 DEF LengthInv
    <3> QED
      BY <3>1, <3>2
  <2>5. ASSUME holds = 0, revived = {}, NEW s \in Seqs
        PROVE  /\ toks[s] <= MaxLen[s[1]] + 1
               /\ Runnable(s)' \/ st'[s] = "none" => toks[s] <= MaxLen[s[1]]
    BY <2>2, <2>3, <2>5, SeqsFacts DEF LengthInv, Runnable
  <2> QED
    BY <2>1, <2>4, <2>5 DEF LengthInv
<1>3. CASE PickBatch
  BY <1>1, <1>3 DEF PickBatch, Runnable, errors
<1>4. ASSUME NEW s \in Seqs, Withhold(s) PROVE LengthInv'
  BY <1>4 DEF Withhold, LengthInv, GTypeOK
<1>5. ASSUME NEW s \in Seqs, StreamToken(s) PROVE LengthInv'
  <2>1. Runnable(s) /\ CountToken(s) /\ UNCHANGED <<prompt, revived, holds>>
    BY <1>5, InBatch DEF StreamToken, Sampling, errors
  <2> PICK stop \in BOOLEAN :
         LET cs == Append(chunks[s[1]], [k |-> s[2], fin |-> stop])
         IN  /\ MustStop(s) => stop
             /\ st' = [st EXCEPT ![s] = IF Len(cs) = n_choices[s[1]] /\ client[s[1]] = "closed" THEN "canceled"
                                        ELSE IF stop THEN "done" ELSE @]
    BY <1>5 DEF StreamToken
  <2>2. (\A t \in Seqs \ {s} : st'[t] = st[t]) /\ st'[s] # "none" /\ (MustStop(s) => ~Runnable(s)')
    BY <2>1 DEF GTypeOK, Runnable
  <2> QED
    BY <2>1, <2>2, SampledLength
<1>6. ASSUME NEW s \in Seqs, JsonToken(s) PROVE LengthInv'
  <2>1. Runnable(s) /\ CountToken(s) /\ UNCHANGED <<prompt, revived, holds>>
    BY <1>6, InBatch DEF JsonToken, Sampling, errors
  <2>2. \/ st' = st /\ ~MustStop(s)
        \/ st' = [st EXCEPT ![s] = "done"]
    BY <1>6 DEF JsonToken
  <2>3. (\A t \in Seqs \ {s} : st'[t] = st[t]) /\ st'[s] # "none" /\ (MustStop(s) => ~Runnable(s)')
    BY <2>1, <2>2 DEF GTypeOK, Runnable
  <2> QED
    BY <2>1, <2>3, SampledLength
<1>7. ASSUME NEW s \in Seqs, SampleError(s) PROVE LengthInv'
  <2>1. /\ UNCHANGED <<toks, prompt, revived, holds>> /\ Runnable(s)
        /\ st' = st \/ st' = [st EXCEPT ![s] = "error"]
    BY <1>7, InBatch DEF SampleError, Sampling
  <2> QED
    BY <1>1, <2>1 DEF Runnable, GTypeOK
<1>8. CASE EndStep
  <2>1. /\ UNCHANGED <<toks, prompt, holds>>
        /\ revived' = IF isPrompt THEN revived \cup {s \in batch : ~Runnable(s)} ELSE revived
        /\ st' = [s \in Seqs |-> IF isPrompt /\ s \in batch THEN "run" ELSE st[s]]
    BY <1>8 DEF EndStep, errors
  <2> QED
    BY <1>1, <2>1 DEF Runnable, GTypeOK, BatchInv
<1>9. CASE ForwardError
  BY <1>1, <1>9 DEF ForwardError, Runnable
<1>10. ASSUME NEW s \in Seqs, FailAddChoices(s) \/ FailRespond(s) PROVE LengthInv'
  BY <1>1, <1>10 DEF FailAddChoices, FailRespond, Runnable, errors
<1>11. CASE FailEnd
  BY <1>1, <1>11 DEF FailEnd, Runnable, errors, GTypeOK, BatchInv
<1>12. ASSUME NEW r \in Requests, Client(r) \/ Leave(r) PROVE LengthInv'
  BY <1>1, <1>12 DEF Client, TakeAnswer, PollChunk, Leave, errors, Runnable
<1>13. CASE UNCHANGED vars
  BY <1>1, <1>13 DEF vars, errors, Runnable
<1> QED
  BY <1>2, <1>3, <1>4, <1>5, <1>6, <1>7, <1>8, <1>9, <1>10, <1>11, <1>12, <1>13
  DEF Next, Engine, SampleNext

\* The limit and what is kept of a prompt add up to the model's maximum.
LEMMA LengthFits == GTypeOK /\ LengthInv => TruncatedFits
<1> SUFFICES ASSUME GTypeOK, LengthInv, NEW s \in Seqs, TooLong(s[1]), MaxLen[s[1]] < MaxSeqLen,
                    holds = 0, revived = {}, st[s] # "none"
             PROVE  prompt[s[1]] + toks[s] <= MaxSeqLen + 1
  BY DEF TruncatedFits
<1>1. prompt[s[1]] = Kept(s[1]) /\ toks[s] <= MaxLen[s[1]] + 1 /\ toks[s] \in Nat
  BY DEF LengthInv, GTypeOK
<1>2. /\ s[1] \in Requests /\ MaxLen[s[1]] \in Nat /\ MaxSeqLen \in Nat /\ PromptLen[s[1]] \in Nat
  BY SeqsFacts, GroupsAssumption
<1>3. Kept(s[1]) = MaxSeqLen - MaxLen[s[1]]
  BY <1>2 DEF Kept
<1> QED
  BY <1>1, <1>2, <1>3

-----------------------------------------------------------------------------
(* Counting the sequences that have not failed.                            *)

Errors(r) == {s \in SeqsOf(r) : st[s] = "error"}

\* Sequences that had not failed are counted off, each once.
LEMMA FewerCounts ==
    ASSUME GTypeOK, NEW F \in SUBSET Seqs, \A s \in F : st[s] # "error",
           \A r \in Requests : n_choices[r] = N[r] - Cardinality(Errors(r)),
           n_choices' = Fewer(F),
           \A s \in Seqs : st'[s] = "error" <=> (s \in F \/ st[s] = "error")
    PROVE  \A r \in Requests : n_choices'[r] = N[r] - Cardinality(Errors(r)')
<1> SUFFICES ASSUME NEW r \in Requests PROVE n_choices'[r] = N[r] - Cardinality(Errors(r)')
  OBVIOUS
<1> DEFINE Fr == {s \in F : s[1] = r}
<1>1. IsFiniteSet(SeqsOf(r)) /\ IsFiniteSet(Fr)
  BY SeqsOfFinite
<1>2. IsFiniteSet(Errors(r))
  BY <1>1, FS_Subset DEF Errors
<1>3. Errors(r)' = Errors(r) \cup Fr /\ Errors(r) \cap Fr = {}
  BY SeqsFacts DEF Errors
<1>4. n_choices'[r] = n_choices[r] - Cardinality(Fr)
  BY DEF Fewer
<1>5. Cardinality(Errors(r) \cup Fr) = Cardinality(Errors(r)) + Cardinality(Fr)
  <2>1. Cardinality(Errors(r) \cup Fr)
           = Cardinality(Errors(r)) + Cardinality(Fr) - Cardinality(Errors(r) \cap Fr)
    BY <1>1, <1>2, FS_Union
  <2>2. Cardinality(Errors(r) \cap Fr) = 0
    BY <1>3, FS_EmptySet
  <2>3. Cardinality(Errors(r)) \in Nat /\ Cardinality(Fr) \in Nat
    BY <1>1, <1>2, FS_CardinalityType
  <2> HIDE DEF Fr
  <2> QED
    BY <2>1, <2>2, <2>3
<1>6. Cardinality(Errors(r)) \in Nat /\ Cardinality(Fr) \in Nat /\ N[r] \in Nat
  BY <1>1, <1>2, FS_CardinalityType, GroupsAssumption
<1> HIDE DEF Fr
<1> QED
  BY <1>3, <1>4, <1>5, <1>6

LEMMA CountStep == GTypeOK /\ GTypeOK' /\ BatchInv /\ ClientInv /\ CountInv /\ [Next]_vars => CountInv'
<1> SUFFICES ASSUME GTypeOK, GTypeOK', BatchInv, ClientInv, CountInv, [Next]_vars, revived' = {}
             PROVE  /\ \A r \in Requests : n_choices'[r] = N[r] - Cardinality(Errors(r)')
                    /\ phase' \in {"fail", "respond"} \/ (phase' = "sample" /\ todo' # {})
                         => \A s \in batch' : st'[s] # "error"
  BY DEF CountInv, NChoicesCountsTheRest, Errors
<1>1. revived = {}
  <2>1. revived \subseteq revived'
    BY DEF Next, AddRequest, Client, TakeAnswer, PollChunk, Leave, Engine, PickBatch, SampleNext, Withhold,
           StreamToken, JsonToken, SampleError, EndStep, ForwardError, FailAddChoices, FailRespond, FailEnd, vars
  <2> QED
    BY <2>1
<1>2. /\ \A r \in Requests : n_choices[r] = N[r] - Cardinality(Errors(r))
      /\ phase \in {"fail", "respond"} \/ (phase = "sample" /\ todo # {})
           => \A s \in batch : st[s] # "error"
  BY <1>1 DEF CountInv, NChoicesCountsTheRest, Errors
\* A step with which nothing fails.
<1>3. ASSUME UNCHANGED <<batch, n_choices>>, \A s \in Seqs : st'[s] = "error" <=> st[s] = "error",
             phase' \in {"fail", "respond", "sample"} =>
                phase \in {"fail", "respond"} \/ (phase = "sample" /\ todo # {})
      PROVE  /\ \A r \in Requests : n_choices'[r] = N[r] - Cardinality(Errors(r)')
             /\ phase' \in {"fail", "respond"} \/ (phase' = "sample" /\ todo' # {})
                         => \A s \in batch' : st'[s] # "error"
  <2>1. \A r \in Requests : Errors(r)' = Errors(r)
    BY <1>3, SeqsFacts DEF Errors
  <2>2. batch \subseteq Seqs
    BY DEF GTypeOK
  <2> QED
    BY <1>2, <1>3, <2>1, <2>2
<1> DEFINE Goal == /\ \A r \in Requests : n_choices'[r] = N[r] - Cardinality(Errors(r)')
                   /\ phase' \in {"fail", "respond"} \/ (phase' = "sample" /\ todo' # {})
                         => \A s \in batch' : st'[s] # "error"
<1>4. ASSUME NEW r \in Requests, AddRequest(r) PROVE Goal
  <2>1. /\ UNCHANGED <<batch, n_choices>> /\ phase' \in {"idle", "dead"}
        /\ \A s \in SeqsOf(r) : st[s] = "none"
    BY <1>4 DEF AddRequest, Refuse, MakeSequences, groupVars, ClientInv
  <2>2. \A s \in Seqs : s[1] = r => st[s] = "none"
    BY <2>1, SeqsFacts
  <2>3. \A s \in Seqs : st'[s] = "error" <=> st[s] = "error"
    BY <1>4, <2>2 DEF AddRequest, Refuse, MakeSequences
  <2> QED
    BY <1>3, <2>1, <2>3
<1>5. CASE PickBatch
  <2>1. /\ UNCHANGED <<n_choices, st>> /\ batch' \subseteq {s \in Seqs : Runnable(s)}
    BY <1>5 DEF PickBatch, groupVars
  <2> QED
    BY <1>2, <2>1 DEF Runnable, Errors
<1>6. ASSUME NEW s \in Seqs, Withhold(s) PROVE Goal
  BY <1>3, <1>6 DEF Withhold, Sampling, FirstLeft, groupVars
<1>7. ASSUME NEW s \in Seqs, StreamToken(s) PROVE Goal
  <2>1. UNCHANGED <<batch, n_choices, phase>> /\ phase = "sample" /\ s \in todo /\ Runnable(s)
    BY <1>7, InBatch DEF StreamToken, Sampling, FirstLeft
  <2>2. \E x \in {"canceled", "done", st[s]} : st' = [st EXCEPT ![s] = x]
    BY <1>7 DEF StreamToken
  <2>3. \A t \in Seqs : st'[t] = "error" <=> st[t] = "error"
    BY <2>1, <2>2 DEF GTypeOK, Runnable
  <2> QED
    BY <1>3, <2>1, <2>3
<1>8. ASSUME NEW s \in Seqs, JsonToken(s) PROVE Goal
  <2>1. UNCHANGED <<batch, n_choices>> /\ phase = "sample" /\ s \in todo /\ Runnable(s)
    BY <1>8, InBatch DEF JsonToken, Sampling, FirstLeft
  <2>2. st' = st \/ st' = [st EXCEPT ![s] = "done"]
    BY <1>8 DEF JsonToken
  <2>3. \A t \in Seqs : st'[t] = "error" <=> st[t] = "error"
    BY <2>1, <2>2 DEF GTypeOK, Runnable
  <2> QED
    BY <1>3, <2>1, <2>3
<1>9. ASSUME NEW s \in Seqs, SampleError(s) PROVE Goal
  <2>1. /\ UNCHANGED batch /\ phase = "sample" /\ s \in todo /\ Runnable(s)
        /\ \/ phase' = "dead" /\ UNCHANGED <<st, n_choices>>
           \/ st' = [st EXCEPT ![s] = "error"] /\ n_choices' = Fewer({s}) /\ todo' = {} /\ phase' = phase
    BY <1>9, InBatch DEF SampleError, Sampling, FirstLeft
  <2>2. CASE phase' = "dead" /\ UNCHANGED <<st, n_choices>>
    BY <1>3, <2>1, <2>2
  <2>3. CASE st' = [st EXCEPT ![s] = "error"] /\ n_choices' = Fewer({s}) /\ todo' = {} /\ phase' = phase
    <3>1. \A t \in Seqs : st'[t] = "error" <=> (t \in {s} \/ st[t] = "error")
      BY <2>3 DEF GTypeOK
    <3>2. \A r \in Requests : n_choices'[r] = N[r] - Cardinality(Errors(r)')
      BY <1>2, <2>1, <2>3, <3>1, FewerCounts DEF Runnable
    <3> QED
      BY <2>1, <2>3, <3>2
  <2> QED
    BY <2>1, <2>2, <2>3
<1>10. CASE EndStep
  <2>1. /\ UNCHANGED n_choices /\ phase' = "idle"
        /\ revived' = IF isPrompt THEN revived \cup {s \in batch : ~Runnable(s)} ELSE revived
        /\ st' = [s \in Seqs |-> IF isPrompt /\ s \in batch THEN "run" ELSE st[s]]
    BY <1>10 DEF EndStep, groupVars
  <2>2. \A s \in Seqs : st'[s] = "error" <=> st[s] = "error"
    BY <2>1 DEF Runnable
  <2>3. \A r \in Requests : Errors(r)' = Errors(r)
    BY <2>2, SeqsFacts DEF Errors
  <2> QED
    BY <1>2, <2>1, <2>3
<1>11. CASE ForwardError
  <2>1. UNCHANGED <<batch, n_choices, st>> /\ phase = "sample" /\ todo = batch /\ phase' = "fail"
    BY <1>11 DEF ForwardError, groupVars
  <2> QED
    BY <1>2, <2>1 DEF Errors
<1>12. ASSUME NEW s \in Seqs, FailAddChoices(s) \/ FailRespond(s) PROVE Goal
  <2>1. UNCHANGED <<batch, n_choices, st>> /\ phase \in {"fail", "respond"}
    BY <1>12 DEF FailAddChoices, FailRespond, groupVars
  <2> QED
    BY <1>3, <2>1
<1>13. CASE FailEnd
  <2>1. /\ n_choices' = Fewer(batch) /\ phase = "respond" /\ phase' = "idle"
        /\ st' = [s \in Seqs |-> IF s \in batch THEN "error" ELSE st[s]]
    BY <1>13 DEF FailEnd
  <2>2. batch \in SUBSET Seqs /\ \A s \in Seqs : st'[s] = "error" <=> (s \in batch \/ st[s] = "error")
    BY <2>1 DEF GTypeOK
  <2>3. \A r \in Requests : n_choices'[r] = N[r] - Cardinality(Errors(r)')
    BY <1>2, <2>1, <2>2, FewerCounts
  <2> QED
    BY <2>1, <2>3
<1>14. ASSUME NEW r \in Requests, Client(r) \/ Leave(r) PROVE Goal
  <2>1. UNCHANGED <<batch, n_choices, st, phase, todo>>
    BY <1>14 DEF Client, TakeAnswer, PollChunk, Leave, groupVars
  <2> QED
    BY <1>2, <2>1 DEF Errors
<1>15. CASE UNCHANGED vars
  BY <1>2, <1>15 DEF vars, groupVars, Errors
<1> QED
  BY <1>4, <1>5, <1>6, <1>7, <1>8, <1>9, <1>10, <1>11, <1>12, <1>13, <1>14, <1>15
  DEF Next, Engine, SampleNext

-----------------------------------------------------------------------------
(* What steps have in common.                                              *)

LEMMA Past ==
    ASSUME GTypeOK, [Next]_vars
    PROVE  /\ revived \subseteq revived' /\ early \subseteq early'
           /\ sampleErrors' \in Nat /\ forwardErrors' \in Nat
           /\ sampleErrors' + forwardErrors' = 0 => sampleErrors + forwardErrors = 0
<1>1. revived \subseteq revived'
  BY DEF Next, AddRequest, Client, TakeAnswer, PollChunk, Leave, Engine, PickBatch, SampleNext, Withhold,
         StreamToken, JsonToken, SampleError, EndStep, ForwardError, FailAddChoices, FailRespond, FailEnd, vars
<1>2. early \subseteq early'
  BY DEF Next, AddRequest, Client, TakeAnswer, PollChunk, Leave, Engine, PickBatch, SampleNext, Withhold, clientVars,
         StreamToken, JsonToken, SampleError, EndStep, ForwardError, FailAddChoices, FailRespond, FailEnd, vars
<1>3. sampleErrors' \in {sampleErrors, sampleErrors + 1} /\ forwardErrors' \in {forwardErrors, forwardErrors + 1}
  BY DEF Next, AddRequest, Client, TakeAnswer, PollChunk, Leave, Engine, PickBatch, SampleNext, Withhold, errors,
         StreamToken, JsonToken, SampleError, EndStep, ForwardError, FailAddChoices, FailRespond, FailEnd, vars
<1>4. sampleErrors \in Nat /\ forwardErrors \in Nat
  BY DEF GTypeOK
<1>5. sampleErrors' \in Nat /\ forwardErrors' \in Nat
      /\ (sampleErrors' + forwardErrors' = 0 => sampleErrors + forwardErrors = 0)
  <2>1. sampleErrors' = sampleErrors \/ sampleErrors' = sampleErrors + 1
    BY <1>3
  <2>2. forwardErrors' = forwardErrors \/ forwardErrors' = forwardErrors + 1
    BY <1>3
  <2> QED
    BY <1>4, <2>1, <2>2
<1> QED
  BY <1>1, <1>2, <1>5

\* When nothing has been revived, a step ends sequences, or makes those of a
\* request that was not taken in, but runs none again.
LEMMA StateSteps ==
    ASSUME GTypeOK, BatchInv, ClientInv, [Next]_vars, revived' = {}
    PROVE  \A s \in Seqs : \/ st'[s] = st[s]
                           \/ Runnable(s)
                           \/ phase = "respond" /\ s \in batch /\ st'[s] = "error"
                           \/ prompt[s[1]] = 0 /\ st[s] = "none" /\ st'[s] = "fresh"
<1> SUFFICES ASSUME NEW s \in Seqs, st'[s] # st[s], ~Runnable(s)
             PROVE  \/ phase = "respond" /\ s \in batch /\ st'[s] = "error"
                    \/ prompt[s[1]] = 0 /\ st[s] = "none" /\ st'[s] = "fresh"
  OBVIOUS
<1>1. ASSUME NEW r \in Requests, AddRequest(r)
      PROVE  prompt[s[1]] = 0 /\ st[s] = "none" /\ st'[s] = "fresh"
  <2>1. prompt[r] = 0 /\ s[1] = r /\ st'[s] = "fresh"
    BY <1>1 DEF AddRequest, Refuse, MakeSequences
  <2> QED
    BY <2>1, SeqsFacts DEF ClientInv
<1>2. ASSUME NEW t \in Seqs, StreamToken(t) \/ JsonToken(t) \/ SampleError(t) \/ Withhold(t) PROVE FALSE
  <2>1. Runnable(t)
    BY <1>2, InBatch DEF StreamToken, JsonToken, SampleError, Withhold, Sampling
  <2>2. t # s => st'[s] = st[s]
    BY <1>2 DEF StreamToken, JsonToken, SampleError, Withhold, GTypeOK
  <2> QED
    BY <2>1, <2>2
<1>3. CASE EndStep
  BY <1>3 DEF EndStep
<1>4. CASE FailEnd
  BY <1>4 DEF FailEnd
<1>5. CASE UNCHANGED st
  BY <1>5
<1> QED
  BY <1>1, <1>2, <1>3, <1>4, <1>5
  DEF Next, Engine, SampleNext, Client, TakeAnswer, PollChunk, Leave, PickBatch, ForwardError,
      FailAddChoices, FailRespond, vars

\* What a step does to the channel of a request that is not streamed.
LEMMA ChannelSteps ==
    ASSUME GTypeOK, BatchInv, ClientInv, [Next]_vars, NEW r \in Requests \ Streaming
    PROVE  \/ rx'[r] = rx[r] /\ answer'[r] = answer[r] /\ (r \in early' <=> r \in early) /\ client'[r] = client[r]
           \/ rx'[r] = <<>> /\ rx[r] # <<>> /\ answer'[r] = Head(rx[r]).type /\ answer'[r] # "none"
              /\ client[r] = "open" /\ client'[r] = "closed"
           \/ rx'[r] = <<>> /\ r \in early' /\ answer'[r] = answer[r]
           \/ /\ client[r] = "open" /\ UNCHANGED clientVars
              /\ \E msg \in Messages : /\ rx'[r] = Append(rx[r], msg)
                                       /\ msg.type = "done" => \E s \in SeqsOf(r) : JsonToken(s)
<1> DEFINE Same == rx'[r] = rx[r] /\ answer'[r] = answer[r] /\ (r \in early' <=> r \in early) /\ client'[r] = client[r]
           Message == /\ client[r] = "open" /\ UNCHANGED clientVars
                      /\ \E msg \in Messages : /\ rx'[r] = Append(rx[r], msg)
                                               /\ msg.type = "done" => \E s \in SeqsOf(r) : JsonToken(s)
<1>1. ASSUME NEW q \in Requests, NEW msg \in Messages, Send(q, msg), UNCHANGED clientVars, client[q] = "open",
             msg.type = "done" => \E s \in SeqsOf(q) : JsonToken(s)
      PROVE  Same \/ Message
  <2>1. CASE q = r
    BY <1>1, <2>1, SendType DEF GTypeOK
  <2>2. CASE q # r
    BY <1>1, <2>2, SendType DEF GTypeOK, clientVars
  <2> QED
    BY <2>1, <2>2
<1>2. ASSUME UNCHANGED <<rx, clientVars>> PROVE Same
  BY <1>2 DEF clientVars
<1> HIDE DEF Message, Same
<1>3. ASSUME NEW q \in Requests, AddRequest(q) PROVE Same \/ Message
  <2>1. /\ UNCHANGED clientVars
        /\ \/ UNCHANGED rx
           \/ client[q] = "open" /\ Send(q, [type |-> "validation"])
           \/ client[q] = "open" /\ Send(q, [type |-> "internal"])
    BY <1>3 DEF AddRequest, Refuse, MakeSequences
  <2> QED
    BY <1>1, <1>2, <2>1, MessageFacts
<1>4. ASSUME NEW s \in Seqs, StreamToken(s) PROVE Same
  <2>1. s[1] \in Streaming /\ UNCHANGED clientVars
    BY <1>4 DEF StreamToken
  <2>2. rx'[r] = rx[r]
    BY <1>4, <2>1 DEF StreamToken, SendChunks, Send, GTypeOK
  <2> QED
    BY <2>1, <2>2 DEF Same, clientVars
<1>5. ASSUME NEW s \in Seqs, JsonToken(s) PROVE Same \/ Message
  <2> DEFINE cs == Append(choices[s[1]], s[2])
  <2>1. /\ UNCHANGED clientVars
        /\ UNCHANGED rx \/ (client[s[1]] = "open" /\ Send(s[1], [type |-> "done", parts |-> cs]))
    BY <1>5 DEF JsonToken
  <2>2. s[1] \in Requests /\ s \in SeqsOf(s[1]) /\ cs \in Seq(Nat)
    BY SMTT(30), SeqsFacts, AppendFacts DEF GTypeOK
  <2>3. [type |-> "done", parts |-> cs] \in Messages
    BY <2>2, MessageFacts
  <2> HIDE DEF cs
  <2> QED
    BY <1>1, <1>2, <1>5, <2>1, <2>2, <2>3
<1>6. ASSUME NEW s \in Seqs, SampleError(s) \/ FailRespond(s) PROVE Same \/ Message
  <2>1. /\ UNCHANGED clientVars
        /\ \/ UNCHANGED rx
           \/ client[s[1]] = "open" /\ Send(s[1], [type |-> "internal"])
           \/ client[s[1]] = "open" /\ Send(s[1], [type |-> "model"])
    BY <1>6 DEF SampleError, FailRespond
  <2> QED
    BY <1>1, <1>2, <2>1, MessageFacts, SeqsFacts
<1>7. ASSUME NEW q \in Requests, TakeAnswer(q)
      PROVE  Same \/ (rx'[r] = <<>> /\ rx[r] # <<>> /\ answer'[r] = Head(rx[r]).type /\ answer'[r] # "none"
                      /\ client[r] = "open" /\ client'[r] = "closed")
  <2>1. CASE q # r
    BY <1>7, <2>1 DEF TakeAnswer, Disconnect, Same, GTypeOK
  <2>2. CASE q = r
    <3>1. Head(rx[r]) \in Messages /\ rx[r] # <<>> /\ client[r] = "open"
      BY <1>7, <2>2 DEF TakeAnswer, GTypeOK
    <3>2. Head(rx[r]).type # "none"
      BY <3>1 DEF Messages
    <3>3. rx'[r] = <<>> /\ answer'[r] = Head(rx[r]).type /\ client'[r] = "closed"
      BY <1>7, <2>2 DEF TakeAnswer, Disconnect, GTypeOK
    <3> QED
      BY <3>1, <3>2, <3>3
  <2> QED
    BY <2>1, <2>2
<1>8. ASSUME NEW q \in Requests, PollChunk(q) PROVE Same
  BY <1>8 DEF PollChunk, Disconnect, Same, GTypeOK
<1>9. ASSUME NEW q \in Requests, Leave(q)
      PROVE  Same \/ (rx'[r] = <<>> /\ r \in early' /\ answer'[r] = answer[r])
  BY <1>9 DEF Leave, Disconnect, Same, GTypeOK
<1>10. ASSUME PickBatch PROVE Same
  BY <1>2, <1>10 DEF PickBatch
<1>11. ASSUME NEW s \in Seqs, Withhold(s) PROVE Same
  BY <1>2, <1>11 DEF Withhold
<1>12. ASSUME EndStep \/ ForwardError \/ FailEnd PROVE Same
  BY <1>2, <1>12 DEF EndStep, ForwardError, FailEnd
<1>13. ASSUME NEW s \in Seqs, FailAddChoices(s) PROVE Same
  BY <1>2, <1>13 DEF FailAddChoices
<1>14. ASSUME UNCHANGED vars PROVE Same
  BY <1>2, <1>14 DEF vars
<1>15. \/ Same \/ Message
       \/ rx'[r] = <<>> /\ rx[r] # <<>> /\ answer'[r] = Head(rx[r]).type /\ answer'[r] # "none"
          /\ client[r] = "open" /\ client'[r] = "closed"
       \/ rx'[r] = <<>> /\ r \in early' /\ answer'[r] = answer[r]
  BY <1>3, <1>4, <1>5, <1>6, <1>7, <1>8, <1>9, <1>10, <1>11, <1>12, <1>13, <1>14
  DEF Next, Engine, SampleNext, Client
<1> QED
  BY <1>15 DEF Same, Message

-----------------------------------------------------------------------------
(* Requests whose client has nothing yet.                                  *)

\* The rest of a request to which nothing happened but that its sequences ran.
Rest(r) ==
    /\ ChoicesAreDone(r)
    /\ n_choices[r] = N[r]
    /\ prompt[r] # 0 => /\ \A s \in SeqsOf(r) : st[s] \in {"fresh", "run", "done"}
                        /\ \E s \in SeqsOf(r) : st[s] # "done"

LEMMA RestKept ==
    ASSUME NEW r \in Requests, choices'[r] = choices[r], n_choices'[r] = n_choices[r], prompt'[r] = prompt[r],
           \A s \in SeqsOf(r) : st'[s] = st[s] \/ (Runnable(s) /\ Runnable(s)'),
           Rest(r)
    PROVE  Rest(r)'
<1>1. DoneKs(r)' = DoneKs(r)
  BY SeqsFacts DEF DoneKs, Runnable
<1>2. ChoicesAreDone(r)'
  BY <1>1 DEF ChoicesAreDone, Rest
<1> QED
  BY <1>2 DEF Rest, Runnable

\* The number of choices is that of the sequences that are done: they are all
\* there when there is one for each.
LEMMA AllThere ==
    ASSUME NEW r \in Requests, NEW cs \in Seq(Nat), IsInjective(cs), Range(cs) \subseteq 1..N[r]
    PROVE  /\ Len(cs) = Cardinality(Range(cs)) /\ Len(cs) <= N[r]
           /\ Len(cs) = N[r] <=> Range(cs) = 1..N[r]
<1>1. N[r] \in Nat /\ Len(cs) \in Nat /\ DOMAIN cs = 1..Len(cs)
  BY GroupsAssumption
<1>2. \A n \in Nat : IsFiniteSet(1..n) /\ Cardinality(1..n) = n
  BY FS_Interval
<1>3. cs \in Bijection(1..Len(cs), Range(cs))
  BY <1>1 DEF Bijection, Injection, Surjection, Range
<1>4. IsFiniteSet(Range(cs)) /\ Cardinality(Range(cs)) = Len(cs)
  BY <1>1, <1>2, <1>3, FS_Bijection DEF ExistsBijection
<1>5. Range(cs) \in SUBSET (1..N[r])
  OBVIOUS
<1>6. /\ Cardinality(Range(cs)) <= Cardinality(1..N[r])
      /\ Cardinality(1..N[r]) = Cardinality(Range(cs)) => 1..N[r] = Range(cs)
  BY <1>1, <1>2, <1>5, FS_Subset
<1> QED
  BY <1>1, <1>2, <1>4, <1>6

\* A sequence with one more element.
LEMMA OneMore ==
    ASSUME NEW L \in Nat, NEW q, NEW cs, NEW x, DOMAIN q = 1..L, DOMAIN cs = 1..(L + 1),
           \A i \in 1..L : cs[i] = q[i], cs[L + 1] = x
    PROVE  /\ Range(cs) = Range(q) \cup {x}
           /\ IsInjective(q) /\ x \notin Range(q) => IsInjective(cs)
<1>1. \A i \in 1..(L + 1) : i \in 1..L \/ i = L + 1
  OBVIOUS
<1>2. \A i \in 1..L : i \in 1..(L + 1) /\ i # L + 1
  OBVIOUS
<1>3. L + 1 \in 1..(L + 1)
  OBVIOUS
<1>4. Range(cs) = Range(q) \cup {x}
  BY <1>1, <1>2, <1>3 DEF Range
<1>5. ASSUME IsInjective(q), x \notin Range(q) PROVE IsInjective(cs)
  <2> SUFFICES ASSUME NEW a \in 1..(L + 1), NEW b \in 1..(L + 1), cs[a] = cs[b] PROVE a = b
    BY DEF IsInjective
  <2>1. \A i \in 1..L : q[i] # x
    BY <1>5 DEF Range
  <2>2. CASE a \in 1..L /\ b \in 1..L
    <3>1. q[a] = q[b]
      BY <2>2
    <3> QED
      BY <1>5, <2>2, <3>1 DEF IsInjective
  <2>3. CASE a = L + 1 /\ b \in 1..L
    BY <2>1, <2>3
  <2>4. CASE b = L + 1 /\ a \in 1..L
    BY <2>1, <2>4
  <2> QED
    BY <1>1, <2>2, <2>3, <2>4
<1> QED
  BY <1>4, <1>5

\* A sequence adds its choice when it is done.
LEMMA DoneChoice ==
    ASSUME GTypeOK, NEW s \in Seqs, Runnable(s), ChoicesAreDone(s[1]),
           choices' = [choices EXCEPT ![s[1]] = Append(choices[s[1]], s[2])],
           st' = [st EXCEPT ![s] = "done"]
    PROVE  /\ ChoicesAreDone(s[1])' /\ choices'[s[1]] = Append(choices[s[1]], s[2])
           /\ choices'[s[1]] \in Seq(Nat)
           /\ Len(choices'[s[1]]) = N[s[1]] <=> \A t \in SeqsOf(s[1]) : st'[t] = "done"
           /\ Len(choices'[s[1]]) = N[s[1]] => Range(choices'[s[1]]) = 1..N[s[1]]
<1> DEFINE r == s[1]
           cs == Append(choices[r], s[2])
<1>1. r \in Requests /\ s[2] \in 1..N[r] /\ s[2] \in Nat /\ s = <<r, s[2]>> /\ choices[r] \in Seq(Nat)
  BY SeqsFacts DEF GTypeOK
<1>2. choices'[r] = cs /\ cs \in Seq(Nat) /\ Len(cs) = Len(choices[r]) + 1 /\ Len(choices[r]) \in Nat
  BY <1>1, AppendFacts DEF GTypeOK
<1>3. /\ \A i \in 1..Len(choices[r]) : cs[i] = choices[r][i]
      /\ cs[Len(choices[r]) + 1] = s[2]
      /\ DOMAIN cs = 1..(Len(choices[r]) + 1) /\ DOMAIN choices[r] = 1..Len(choices[r])
  BY <1>1, AppendFacts
<1> HIDE DEF cs, r
<1> DEFINE L == Len(choices[r])
           q == choices[r]
           x == s[2]
<1>3a. L \in Nat /\ DOMAIN q = 1..L /\ DOMAIN cs = 1..(L + 1) /\ (\A i \in 1..L : cs[i] = q[i]) /\ cs[L + 1] = x
  BY <1>2, <1>3
<1>3b. Range(cs) = Range(q) \cup {x} /\ (IsInjective(q) /\ x \notin Range(q) => IsInjective(cs))
  <2> HIDE DEF L, q, x
  <2> QED
    BY <1>3a, OneMore
<1>4. s[2] \notin Range(choices[r])
  <2>1. s[2] \notin DoneKs(r)
    BY <1>1 DEF DoneKs, Runnable
  <2> QED
    BY <2>1 DEF ChoicesAreDone, r
<1>5. IsInjective(cs)
  <2>1. IsInjective(choices[r])
    BY DEF ChoicesAreDone, r
  <2> QED
    BY <1>3b, <1>4, <2>1
<1>6. Range(cs) = Range(choices[r]) \cup {s[2]}
  BY <1>3b
<1>7. DoneKs(r)' = DoneKs(r) \cup {s[2]}
  <2>1. \A k \in 1..N[r] : st'[<<r, k>>] = IF k = s[2] THEN "done" ELSE st[<<r, k>>]
    BY <1>1, SeqsFacts DEF GTypeOK
  <2> QED
    BY <1>1, <2>1 DEF DoneKs
<1>8. ChoicesAreDone(r)'
  BY <1>2, <1>5, <1>6, <1>7 DEF ChoicesAreDone, r
<1>9. DoneKs(r)' \subseteq 1..N[r] /\ (DoneKs(r)' = 1..N[r] <=> \A t \in SeqsOf(r) : st'[t] = "done")
  BY <1>1 DEF DoneKs, SeqsOf
<1>10. Range(cs) = DoneKs(r)'
  BY <1>2, <1>8 DEF ChoicesAreDone
<1>11. Len(cs) = N[r] <=> Range(cs) = 1..N[r]
  BY <1>1, <1>2, <1>5, <1>9, <1>10, AllThere
<1> QED
  BY <1>2, <1>8, <1>9, <1>10, <1>11 DEF cs, r

LEMMA UnansweredKept ==
    ASSUME GTypeOK, BatchInv, ClientInv, [Next]_vars, NEW r \in Requests \ Streaming, Unanswered(r)'
    PROVE  Unanswered(r)
<1>1. rx'[r] = <<>> /\ answer'[r] = "none" /\ r \notin early' /\ r \notin early
  BY Past DEF Unanswered
<1>2. rx[r] = <<>> /\ answer[r] = "none"
  <2>1. \A msg \in Messages : rx'[r] # Append(rx[r], msg)
    <3>1. rx[r] \in Seq(Messages)
      BY DEF GTypeOK
    <3>2. \A msg \in Messages : Append(rx[r], msg) # <<>>
      BY <3>1, AppendFacts
    <3> QED
      BY <1>1, <3>2
  <2> QED
    BY <1>1, <2>1, ChannelSteps
<1> QED
  BY <1>1, <1>2 DEF Unanswered

\* A client that has nothing yet is there.
LEMMA UnansweredOpen ==
    ASSUME GTypeOK, ClientInv, NEW r \in Requests, Unanswered(r)
    PROVE  client[r] = "open"
  BY DEF GTypeOK, ClientInv, Unanswered

\* What is sent is an answer.
LEMMA SendAnswers ==
    ASSUME GTypeOK, NEW r \in Requests, NEW msg \in Messages, Send(r, msg)
    PROVE  ~Unanswered(r)'
  BY SendType, AppendFacts DEF Unanswered, GTypeOK

LEMMA RespondStep ==
    ASSUME GTypeOK, BatchInv, ClientInv, UnansweredInv, [Next]_vars, phase' = "respond"
    PROVE  \A s \in batch' \ todo' : s[1] \notin Streaming => ~Unanswered(s[1])'
<1> SUFFICES ASSUME NEW s \in batch' \ todo', s[1] \notin Streaming, Unanswered(s[1])' PROVE FALSE
  OBVIOUS
<1> DEFINE Kept2 == UNCHANGED <<phase, batch, todo>>
<1>1. CASE Kept2
  <2>1. s \in batch \ todo /\ s[1] \in Requests
    BY <1>1, SeqsFacts DEF GTypeOK
  <2> QED
    BY <1>1, <2>1, UnansweredKept DEF UnansweredInv
<1>2. ASSUME NEW t \in Seqs, FailAddChoices(t) PROVE FALSE
  BY <1>2 DEF FailAddChoices
<1>3. ASSUME NEW t \in Seqs, FailRespond(t) PROVE FALSE
  <2>1. Send(t[1], [type |-> "model"]) /\ todo' = todo \ {t} /\ batch' = batch /\ phase = "respond"
    BY <1>3 DEF FailRespond
  <2>2. ~Unanswered(t[1])'
    BY <2>1, SendAnswers, MessageFacts, SeqsFacts
  <2>3. s \in batch \ todo /\ s[1] \in Requests
    BY <2>1, <2>2, SeqsFacts DEF GTypeOK
  <2> QED
    BY <2>1, <2>3, UnansweredKept DEF UnansweredInv
<1>4. ASSUME NEW r \in Requests, AddRequest(r) PROVE FALSE
  BY <1>4 DEF AddRequest, Refuse, MakeSequences
<1>5. ASSUME NEW t \in Seqs, Withhold(t) \/ StreamToken(t) \/ JsonToken(t) \/ SampleError(t) PROVE FALSE
  BY <1>5 DEF Withhold, StreamToken, JsonToken, SampleError, Sampling
<1>6. CASE PickBatch \/ EndStep \/ ForwardError \/ FailEnd
  BY <1>6 DEF PickBatch, EndStep, ForwardError, FailEnd
<1>7. ASSUME NEW r \in Requests, Client(r) \/ Leave(r) PROVE FALSE
  BY <1>1, <1>7 DEF Client, TakeAnswer, PollChunk, Leave
<1>8. CASE UNCHANGED vars
  BY <1>1, <1>8 DEF vars
<1> QED
  BY <1>2, <1>3, <1>4, <1>5, <1>6, <1>7, <1>8 DEF Next, Engine, SampleNext

LEMMA RestStep ==
    ASSUME GTypeOK, GTypeOK', BatchInv, ClientInv, UnansweredInv, [Next]_vars, revived' = {},
           NEW r \in Requests \ Streaming, Unanswered(r)', ~Failing(r)'
    PROVE  Rest(r)'
<1>1. revived = {} /\ Unanswered(r) /\ client[r] = "open"
  BY UnansweredKept, UnansweredOpen, Past
<1>2. ~Failing(r) => Rest(r)
  BY <1>1 DEF UnansweredInv, Rest
<1>3. ASSUME Rest(r), choices'[r] = choices[r], n_choices'[r] = n_choices[r], prompt'[r] = prompt[r],
             \A s \in SeqsOf(r) : st'[s] = st[s] \/ (Runnable(s) /\ Runnable(s)')
      PROVE  Rest(r)'
  BY <1>3, RestKept
<1>4. ASSUME NEW q \in Requests, AddRequest(q) PROVE Rest(r)'
  <2>1. /\ UNCHANGED <<choices, n_choices>> /\ phase = "idle" /\ prompt[q] = 0
        /\ \A p \in Requests \ {q} : prompt'[p] = prompt[p]
    BY <1>4 DEF AddRequest, groupVars, GTypeOK
  <2>2. Rest(r)
    BY <1>2, <2>1 DEF Failing
  <2>3. CASE q # r
    <3>1. \A s \in SeqsOf(r) : st'[s] = st[s]
      BY <1>4, <2>3, SeqsFacts DEF AddRequest, Refuse, MakeSequences
    <3> QED
      BY <1>3, <2>1, <2>2, <2>3, <3>1
  <2>4. CASE q = r
    <3>1. ~Send(r, [type |-> "validation"]) /\ ~Send(r, [type |-> "internal"])
      BY SendAnswers, MessageFacts
    <3>2. MakeSequences(r, N[r])
      BY <1>1, <1>4, <2>4, <3>1 DEF AddRequest, Refuse, MakeSequences
    <3>3. \A s \in SeqsOf(r) : st'[s] = "fresh" /\ st[s] = "none"
      <4>1. \A s \in SeqsOf(r) : st[s] = "none"
        BY <2>1, <2>4 DEF ClientInv
      <4> QED
        BY <3>2, <4>1, SeqsFacts DEF MakeSequences
    <3>4. DoneKs(r)' = DoneKs(r)
      BY <3>3, SeqsFacts DEF DoneKs
    <3>5. ChoicesAreDone(r)'
      BY <2>1, <2>2, <3>4 DEF Rest, ChoicesAreDone
    <3>6. <<r, 1>> \in SeqsOf(r)
      BY SeqsFacts
    <3> QED
      BY <2>1, <2>2, <3>3, <3>5, <3>6 DEF Rest
  <2> QED
    BY <2>3, <2>4
<1>5. CASE PickBatch
  BY <1>2, <1>3, <1>5 DEF PickBatch, groupVars, Failing
<1>6. ASSUME NEW s \in Seqs, Withhold(s) PROVE Rest(r)'
  BY <1>2, <1>3, <1>6 DEF Withhold, Sampling, groupVars, Failing
<1>7. ASSUME NEW s \in Seqs, StreamToken(s) PROVE Rest(r)'
  <2>1. UNCHANGED <<prompt, n_choices, choices, batch, phase>> /\ s[1] \in Streaming /\ phase = "sample"
    BY <1>7 DEF StreamToken, Sampling
  <2>2. \A t \in SeqsOf(r) : st'[t] = st[t]
    BY <1>7, <2>1, SeqsFacts DEF StreamToken, GTypeOK
  <2> QED
    BY <1>2, <1>3, <2>1, <2>2 DEF Failing
<1>8. ASSUME NEW s \in Seqs, JsonToken(s) PROVE Rest(r)'
  <2>1. UNCHANGED <<prompt, n_choices, batch>> /\ phase = "sample" /\ Runnable(s)
    BY <1>8, InBatch DEF JsonToken, Sampling
  <2>2. Rest(r)
    BY <1>2, <2>1 DEF Failing
  <2>3. CASE UNCHANGED <<st, choices>>
    BY <1>3, <2>1, <2>2, <2>3
  <2>4. CASE ~ UNCHANGED <<st, choices>>
    <3>1. /\ st' = [st EXCEPT ![s] = "done"]
          /\ choices' = [choices EXCEPT ![s[1]] = Append(choices[s[1]], s[2])]
          /\ DoneReady(s[1], Append(choices[s[1]], s[2])) /\ client[s[1]] = "open"
                => Send(s[1], [type |-> "done", parts |-> Append(choices[s[1]], s[2])])
      BY <1>8, <2>4 DEF JsonToken
    <3>2. CASE s[1] # r
      <4>1. choices'[r] = choices[r] /\ \A t \in SeqsOf(r) : st'[t] = st[t]
        BY SMTT(30), <3>1, <3>2, SeqsFacts DEF GTypeOK
      <4> QED
        BY <1>3, <2>1, <2>2, <4>1
    <3>3. CASE s[1] = r
      <4>1. /\ ChoicesAreDone(r)' /\ choices'[r] \in Seq(Nat) /\ choices'[r] = Append(choices[r], s[2])
            /\ Len(choices'[r]) = N[r] <=> \A t \in SeqsOf(r) : st'[t] = "done"
        BY <2>1, <2>2, <3>1, <3>3, DoneChoice DEF Rest
      <4>2. Len(choices'[r]) # N[r]
        <5>1. [type |-> "done", parts |-> choices'[r]] \in Messages
          BY <4>1, MessageFacts
        <5>2. ~Send(r, [type |-> "done", parts |-> choices'[r]])
          BY <5>1, SendAnswers
        <5>3. ~DoneReady(r, choices'[r])
          BY <1>1, <3>1, <3>3, <4>1, <5>2
        <5> QED
          BY <2>2, <5>3 DEF DoneReady, Rest
      <4>3. prompt[r] # 0
        BY <1>8, <3>3, InBatch DEF JsonToken, Sampling
      <4>4. \A t \in SeqsOf(r) : st'[t] \in {"fresh", "run", "done"}
        BY <2>2, <3>1, <4>3, SeqsFacts DEF Rest, GTypeOK
      <4> QED
        BY <2>1, <2>2, <4>1, <4>2, <4>4 DEF Rest
    <3> QED
      BY <3>2, <3>3
  <2> QED
    BY <2>3, <2>4
<1>9. ASSUME NEW s \in Seqs, SampleError(s) PROVE Rest(r)'
  <2>1. /\ UNCHANGED <<prompt, choices>> /\ phase = "sample"
        /\ client[s[1]] = "open" => Send(s[1], [type |-> "internal"])
        /\ client[s[1]] # "open" => UNCHANGED <<st, n_choices>>
        /\ \/ UNCHANGED <<st, n_choices>>
           \/ st' = [st EXCEPT ![s] = "error"] /\ n_choices' = Fewer({s})
    BY <1>9 DEF SampleError, Sampling
  <2>2. s[1] # r
    <3>1. ~Send(r, [type |-> "internal"])
      BY SendAnswers, MessageFacts
    <3> QED
      BY <1>1, <2>1, <3>1
  <2>3. Rest(r)
    BY <1>2, <2>1 DEF Failing
  <2>4. \A t \in SeqsOf(r) : st'[t] = st[t]
    <3>1. \A t \in SeqsOf(r) : t # s /\ t \in Seqs
      BY <2>2, SeqsFacts
    <3>2. CASE UNCHANGED st
      BY <3>2
    <3>3. CASE st' = [st EXCEPT ![s] = "error"]
      BY <3>1, <3>3 DEF GTypeOK
    <3> QED
      BY <2>1, <3>2, <3>3
  <2>5. n_choices'[r] = n_choices[r]
    <3>1. CASE UNCHANGED n_choices
      BY <3>1
    <3>2. CASE n_choices' = Fewer({s})
      <4>1. {t \in {s} : t[1] = r} = {}
        BY <2>2
      <4>2. n_choices'[r] = n_choices[r] - Cardinality({})
        BY <3>2, <4>1 DEF Fewer
      <4> QED
        BY <4>2, FS_EmptySet DEF GTypeOK
    <3> QED
      BY <2>1, <3>1, <3>2
  <2> QED
    BY <1>3, <2>1, <2>3, <2>4, <2>5
<1>10. CASE EndStep
  <2>1. /\ UNCHANGED <<prompt, choices, n_choices>> /\ phase = "sample"
        /\ st' = [s \in Seqs |-> IF isPrompt /\ s \in batch THEN "run" ELSE st[s]]
        /\ isPrompt => \A s \in batch : Runnable(s)
    BY <1>10 DEF EndStep, groupVars, GTypeOK
  <2>2. Rest(r)
    BY <1>2, <2>1 DEF Failing
  <2>3. \A t \in SeqsOf(r) : st'[t] = st[t] \/ (Runnable(t) /\ Runnable(t)')
    BY <2>1, SeqsFacts DEF Runnable
  <2> QED
    BY <1>3, <2>1, <2>2, <2>3
<1>11. CASE ForwardError
  BY <1>2, <1>3, <1>11 DEF ForwardError, groupVars, Failing
<1>12. ASSUME NEW s \in Seqs, FailAddChoices(s) PROVE Rest(r)'
  <2>1. /\ UNCHANGED <<prompt, n_choices, st, batch>> /\ phase = "fail" /\ phase' \in {"fail", "respond"}
        /\ s \in batch /\ choices' = [choices EXCEPT ![s[1]] = Append(@, s[2])]
    BY <1>12, InBatch DEF FailAddChoices
  <2>2. s[1] # r /\ Rest(r)
    BY <1>2, <2>1 DEF Failing
  <2> QED
    BY <1>3, <2>1, <2>2 DEF GTypeOK
<1>13. ASSUME NEW s \in Seqs, FailRespond(s) PROVE Rest(r)'
  <2>1. UNCHANGED <<prompt, groupVars, st, batch>> /\ phase = "respond" /\ phase' \in {"dead", "respond"}
    BY <1>13 DEF FailRespond
  <2> QED
    BY <1>2, <1>3, <2>1 DEF Failing, groupVars
<1>14. CASE FailEnd
  <2>1. /\ UNCHANGED <<prompt, choices>> /\ phase = "respond" /\ todo = {}
        /\ st' = [s \in Seqs |-> IF s \in batch THEN "error" ELSE st[s]]
        /\ n_choices' = Fewer(batch)
    BY <1>14 DEF FailEnd
  <2>2. {s \in batch : s[1] = r} = {}
    BY <1>1, <2>1 DEF UnansweredInv
  <2>3. Rest(r)
    BY <1>2, <2>1, <2>2 DEF Failing
  <2>4. n_choices'[r] = n_choices[r] - Cardinality({})
    BY <2>1, <2>2 DEF Fewer
  <2>5. n_choices'[r] = n_choices[r]
    BY <2>4, FS_EmptySet DEF GTypeOK
  <2>6. \A t \in SeqsOf(r) : st'[t] = st[t]
    BY <2>1, <2>2, SeqsFacts
  <2> QED
    BY <1>3, <2>1, <2>3, <2>5, <2>6
<1>15. ASSUME NEW q \in Requests, Client(q) \/ Leave(q) PROVE Rest(r)'
  <2>1. UNCHANGED <<prompt, groupVars, st, batch, phase>>
    BY <1>15 DEF Client, TakeAnswer, PollChunk, Leave
  <2> QED
    BY <1>2, <1>3, <2>1 DEF Failing, groupVars
<1>16. CASE UNCHANGED vars
  BY <1>2, <1>3, <1>16 DEF Failing, groupVars, vars
<1> QED
  BY <1>4, <1>5, <1>6, <1>7, <1>8, <1>9, <1>10, <1>11, <1>12, <1>13, <1>14, <1>15, <1>16
  DEF Next, Engine, SampleNext

LEMMA UnansweredStep ==
    GTypeOK /\ GTypeOK' /\ BatchInv /\ ClientInv /\ UnansweredInv /\ [Next]_vars => UnansweredInv'
<1> SUFFICES ASSUME GTypeOK, GTypeOK', BatchInv, ClientInv, UnansweredInv, [Next]_vars PROVE UnansweredInv'
  OBVIOUS
<1>1. phase' = "respond" => \A s \in batch' \ todo' : s[1] \notin Streaming => ~Unanswered(s[1])'
  BY RespondStep
<1>2. revived' = {} => \A r \in Requests \ Streaming : Unanswered(r)' /\ ~Failing(r)' => Rest(r)'
  BY RestStep
<1> QED
  BY <1>1, <1>2 DEF UnansweredInv, Rest

-----------------------------------------------------------------------------
(* A final answer is the last of its request.                              *)

\* What is over stays over.
LEMMA OverStays ==
    ASSUME GTypeOK, BatchInv, ClientInv, [Next]_vars, revived' = {},
           NEW r \in Requests, prompt[r] # 0, \A s \in SeqsOf(r) : ~Runnable(s)
    PROVE  \A s \in SeqsOf(r) : ~Runnable(s)'
<1> SUFFICES ASSUME NEW s \in SeqsOf(r) PROVE ~Runnable(s)'
  OBVIOUS
<1>1. s \in Seqs /\ s[1] = r /\ ~Runnable(s)
  BY SeqsFacts
<1>2. st'[s] = st[s] \/ st'[s] = "error"
  BY <1>1, StateSteps
<1> QED
  BY <1>1, <1>2 DEF Runnable

FirstIsDone(r) == rx[r] # <<>> /\ Head(rx[r]).type = "done"

LEMMA OverStep ==
    GTypeOK /\ GTypeOK' /\ BatchInv /\ ClientInv /\ CountInv /\ UnansweredInv /\ DoneMeansOver
        /\ [Next]_vars => DoneMeansOver'
<1> SUFFICES ASSUME GTypeOK, GTypeOK', BatchInv, ClientInv, CountInv, UnansweredInv, DoneMeansOver, [Next]_vars,
                    revived' = {}, NEW r \in Requests,
                    FirstIsDone(r)' \/ answer'[r] = "done"
             PROVE  /\ FirstIsDone(r)' => /\ IsInjective(Head(rx'[r]).parts)
                                          /\ Range(Head(rx'[r]).parts) = 1..N[r]
                    /\ \A s \in SeqsOf(r) : ~Runnable(s)'
  BY DEF DoneMeansOver, FirstIsDone
<1>1. revived = {}
  BY Past
<1>2. ASSUME FirstIsDone(r) \/ answer[r] = "done"
      PROVE  \A s \in SeqsOf(r) : ~Runnable(s)'
  <2>1. \A s \in SeqsOf(r) : ~Runnable(s)
    BY <1>1, <1>2 DEF DoneMeansOver, FirstIsDone
  <2>2. prompt[r] # 0
    BY <1>2 DEF ClientInv, FirstIsDone
  <2> QED
    BY <2>1, <2>2, OverStays
<1>3. r \notin Streaming
  <2>1. ASSUME FirstIsDone(r)', r \in Streaming PROVE FALSE
    <3>1. rx'[r] # <<>> /\ rx'[r] \in Seq(Messages) /\ Head(rx'[r]).type = "done"
      BY <2>1 DEF GTypeOK, FirstIsDone
    <3>2. 1 \in DOMAIN rx'[r] /\ rx'[r][1].type = "done"
      BY <3>1
    <3>3. ClientInv'
      BY ClientStep
    <3> QED
      BY <2>1, <3>2, <3>3 DEF ClientInv
  <2>2. ASSUME answer'[r] = "done", r \in Streaming PROVE FALSE
    BY <2>2, ClientStep DEF ClientInv
  <2> QED
    BY <2>1, <2>2
<1>4. CASE FirstIsDone(r) /\ ~FirstIsDone(r)'
  BY <1>2, <1>4
<1>5. CASE answer[r] = "done"
  <2>1. rx[r] = <<>> /\ client[r] = "closed"
    BY <1>5 DEF ClientInv, GTypeOK
  <2>2. ~FirstIsDone(r)'
    BY <1>3, <2>1, ChannelSteps DEF FirstIsDone
  <2> QED
    BY <1>2, <1>5, <2>2
<1>6. CASE FirstIsDone(r) /\ FirstIsDone(r)'
  <2>1. Head(rx'[r]) = Head(rx[r])
    <3>1. rx[r] \in Seq(Messages) /\ rx[r] # <<>> /\ rx'[r] # <<>>
      BY <1>6 DEF GTypeOK, FirstIsDone
    <3>2. \A msg \in Messages : Head(Append(rx[r], msg)) = Head(rx[r])
      BY <3>1, AppendFacts
    <3> QED
      BY <1>3, <3>1, <3>2, ChannelSteps
  <2> QED
    BY <1>1, <1>2, <1>6, <2>1 DEF DoneMeansOver, FirstIsDone
<1>7. CASE ~FirstIsDone(r) /\ answer[r] # "done"
  <2>1. rx[r] = <<>> /\ client[r] = "open" /\ UNCHANGED clientVars
        /\ \E msg \in Messages : /\ rx'[r] = Append(rx[r], msg)
                                 /\ msg.type = "done" => \E s \in SeqsOf(r) : JsonToken(s)
    <3>1. rx[r] \in Seq(Messages)
      BY DEF GTypeOK
    <3>2. \A msg \in Messages : rx[r] # <<>> => Head(Append(rx[r], msg)) = Head(rx[r])
      BY <3>1, AppendFacts
    <3> QED
      BY <1>3, <1>7, <3>2, ChannelSteps DEF FirstIsDone, clientVars
  <2> PICK msg \in Messages : /\ rx'[r] = Append(rx[r], msg)
                              /\ msg.type = "done" => \E s \in SeqsOf(r) : JsonToken(s)
    BY <2>1
  <2>2. Head(rx'[r]) = msg /\ rx'[r] # <<>>
    <3>1. rx[r] \in Seq(Messages)
      BY DEF GTypeOK
    <3>2. /\ Append(rx[r], msg) # <<>>
          /\ Head(Append(rx[r], msg)) = IF rx[r] = <<>> THEN msg ELSE Head(rx[r])
      BY <3>1, AppendFacts
    <3>3. rx[r] = <<>> /\ rx'[r] = Append(rx[r], msg)
      BY <2>1
    <3> QED
      BY <3>2, <3>3
  <2>3. FirstIsDone(r)' /\ msg.type = "done"
    BY <1>7, <2>1, <2>2 DEF FirstIsDone, clientVars
  <2> PICK s \in SeqsOf(r) : JsonToken(s)
    BY <2>3
  <2>4. s \in Seqs /\ s[1] = r
    BY SeqsFacts
  <2>5. Unanswered(r)
    BY <2>1 DEF Unanswered, ClientInv
  <2>6. phase = "sample" /\ Runnable(s) /\ UNCHANGED n_choices
    BY InBatch DEF JsonToken, Sampling
  <2>7. ChoicesAreDone(r) /\ n_choices[r] = N[r]
    BY <1>1, <1>3, <2>5, <2>6 DEF UnansweredInv, Failing
  <2> DEFINE cs == Append(choices[r], s[2])
  <2>8. /\ st' = [st EXCEPT ![s] = "done"]
        /\ choices' = [choices EXCEPT ![r] = cs]
        /\ DoneReady(r, cs) /\ Send(r, [type |-> "done", parts |-> cs])
    <3>1. rx' # rx
      BY <2>1, <2>2
    <3> QED
      BY <2>4, <3>1 DEF JsonToken
  <2>9. /\ ChoicesAreDone(r)' /\ choices'[r] = cs
        /\ cs \in Seq(Nat)
        /\ Len(cs) = N[r] <=> \A t \in SeqsOf(r) : st'[t] = "done"
        /\ Len(cs) = N[r] => Range(cs) = 1..N[r]
    BY <2>4, <2>6, <2>7, <2>8, DoneChoice
  <2> HIDE DEF cs
  <2>10. Len(cs) = N[r]
    BY <2>7, <2>8 DEF DoneReady
  <2>11. msg = [type |-> "done", parts |-> cs]
    <3>1. rx[r] \in Seq(Messages) /\ [type |-> "done", parts |-> cs] \in Messages
      BY <2>9, MessageFacts DEF GTypeOK
    <3>2. rx'[r] = Append(rx[r], [type |-> "done", parts |-> cs])
      BY <2>8, <3>1, SendType DEF GTypeOK
    <3>3. Head(Append(rx[r], [type |-> "done", parts |-> cs])) = [type |-> "done", parts |-> cs]
      BY <2>1, <3>1, AppendFacts
    <3> QED
      BY <2>2, <3>2, <3>3
  <2>12. IsInjective(cs) /\ Range(cs) = 1..N[r]
    BY <2>9, <2>10 DEF ChoicesAreDone
  <2>13. \A t \in SeqsOf(r) : ~Runnable(t)'
    BY <2>9, <2>10 DEF Runnable
  <2> QED
    BY <2>2, <2>11, <2>12, <2>13
<1> QED
  BY <1>4, <1>5, <1>6, <1>7

-----------------------------------------------------------------------------
(* Streams.                                                                *)

LEMMA StreamStep ==
    GTypeOK /\ GTypeOK' /\ BatchInv /\ ClientInv /\ StreamInv /\ [Next]_vars => StreamInv'
<1> SUFFICES ASSUME GTypeOK, GTypeOK', BatchInv, ClientInv, StreamInv, [Next]_vars,
                    sampleErrors' + forwardErrors' = 0
             PROVE  /\ n_choices' = N
                    /\ \A r \in Streaming : Len(chunks'[r]) < N[r]
                    /\ phase' = "fail" => \E s \in batch' : client'[s[1]] = "closed"
                    /\ phase' = "respond" => \E s \in todo' : client'[s[1]] = "closed"
  BY DEF StreamInv
<1>1. /\ n_choices = N
      /\ \A r \in Streaming : Len(chunks[r]) < N[r]
      /\ phase = "fail" => \E s \in batch : client[s[1]] = "closed"
      /\ phase = "respond" => \E s \in todo : client[s[1]] = "closed"
  BY Past DEF StreamInv
<1> DEFINE Goal == /\ n_choices' = N
                   /\ \A r \in Streaming : Len(chunks'[r]) < N[r]
                   /\ phase' = "fail" => \E s \in batch' : client'[s[1]] = "closed"
                   /\ phase' = "respond" => \E s \in todo' : client'[s[1]] = "closed"
<1>2. ASSUME UNCHANGED <<n_choices, chunks>>, phase' \notin {"fail", "respond"} PROVE Goal
  BY <1>1, <1>2
<1>3. ASSUME NEW r \in Requests, AddRequest(r) PROVE Goal
  BY <1>2, <1>3 DEF AddRequest, Refuse, MakeSequences, groupVars
<1>4. CASE PickBatch \/ EndStep
  BY <1>2, <1>4 DEF PickBatch, EndStep, groupVars
<1>5. ASSUME NEW s \in Seqs, Withhold(s) PROVE Goal
  BY <1>2, <1>5 DEF Withhold, Sampling, groupVars
<1>6. ASSUME NEW s \in Seqs, StreamToken(s) PROVE Goal
  <2> DEFINE r == s[1]
  <2>1. r \in Requests /\ r \in Streaming /\ UNCHANGED <<n_choices, phase>> /\ phase = "sample"
    BY <1>6, SeqsFacts DEF StreamToken, Sampling
  <2> PICK stop \in BOOLEAN : SendChunks(r, Append(chunks[r], [k |-> s[2], fin |-> stop]))
    BY <1>6 DEF StreamToken
  <2> DEFINE c == [k |-> s[2], fin |-> stop]
             cs == Append(chunks[r], c)
  <2>2. c \in Chunks /\ chunks[r] \in Seq(Chunks)
    BY SMTT(30), <2>1, SeqsFacts DEF Chunks, GTypeOK
  <2>3. Len(cs) = Len(chunks[r]) + 1 /\ Len(chunks[r]) \in Nat
    <3> HIDE DEF c
    <3> QED
      BY <2>2, AppendFacts
  <2>4. SendChunks(r, cs) /\ n_choices[r] = N[r] /\ N[r] \in Nat \ {0} /\ Len(chunks[r]) < N[r]
    BY <1>1, <2>1, GroupsAssumption
  <2>5. chunks' = [chunks EXCEPT ![r] = <<>>] \/ (Len(cs) # N[r] /\ chunks' = [chunks EXCEPT ![r] = cs])
    BY <2>4 DEF SendChunks
  <2> HIDE DEF cs, r
  <2>6. Len(chunks'[r]) < N[r] /\ \A q \in Streaming \ {r} : chunks'[q] = chunks[q]
    <3>1. CASE chunks' = [chunks EXCEPT ![r] = <<>>]
      <4>1. Len(<<>>) = 0
        OBVIOUS
      <4>2. chunks'[r] = <<>> /\ \A q \in Streaming \ {r} : chunks'[q] = chunks[q]
        BY <2>1, <3>1, GroupsAssumption DEF GTypeOK
      <4> QED
        BY <2>4, <4>1, <4>2
    <3>2. CASE Len(cs) # N[r] /\ chunks' = [chunks EXCEPT ![r] = cs]
      <4>1. chunks'[r] = cs /\ \A q \in Streaming \ {r} : chunks'[q] = chunks[q]
        BY <2>1, <3>2, GroupsAssumption DEF GTypeOK
      <4> QED
        BY <2>3, <2>4, <3>2, <4>1
    <3> QED
      BY <2>5, <3>1, <3>2
  <2> QED
    BY <1>1, <2>1, <2>6
<1>7. ASSUME NEW s \in Seqs, JsonToken(s) PROVE Goal
  <2>1. UNCHANGED <<n_choices, chunks, client, batch>> /\ phase = "sample" /\ s \in batch /\ s[1] \in Requests
    BY <1>7, InBatch DEF JsonToken, Sampling, clientVars
  <2>2. phase' = "sample" \/ (phase' = "fail" /\ client[s[1]] # "open")
    BY <1>7, <2>1 DEF JsonToken
  <2> QED
    BY <1>1, <2>1, <2>2 DEF GTypeOK
<1>8. ASSUME NEW s \in Seqs, SampleError(s) PROVE FALSE
  <2>1. sampleErrors' = sampleErrors + 1 /\ forwardErrors' = forwardErrors
    BY <1>8 DEF SampleError
  <2> QED
    BY <2>1 DEF GTypeOK
<1>9. CASE ForwardError
  <2>1. forwardErrors' = forwardErrors + 1 /\ sampleErrors' = sampleErrors
    BY <1>9 DEF ForwardError
  <2> QED
    BY <2>1 DEF GTypeOK
<1>10. ASSUME NEW s \in Seqs, FailAddChoices(s) PROVE Goal
  <2>1. UNCHANGED <<n_choices, chunks, client, batch>> /\ phase = "fail"
        /\ (phase' = "fail" \/ (phase' = "respond" /\ todo' = batch))
    BY <1>10 DEF FailAddChoices, clientVars
  <2> QED
    BY <1>1, <2>1
<1>11. ASSUME NEW s \in Seqs, FailRespond(s) PROVE Goal
  <2>1. /\ UNCHANGED <<n_choices, chunks, client>> /\ phase = "respond"
        /\ phase' = "dead" \/ (phase' = "respond" /\ client[s[1]] = "open" /\ todo' = todo \ {s})
    BY <1>11 DEF FailRespond, clientVars, groupVars
  <2> QED
    BY <1>1, <2>1
<1>12. CASE FailEnd
  <2>1. phase = "respond" /\ todo = {}
    BY <1>12 DEF FailEnd
  <2> QED
    BY <1>1, <2>1
<1>13. ASSUME NEW r \in Requests, Client(r) \/ Leave(r) PROVE Goal
  <2>1. UNCHANGED <<n_choices, chunks, phase, batch, todo>>
    BY <1>13 DEF Client, TakeAnswer, PollChunk, Leave, groupVars
  <2>2. \A q \in Requests : client[q] = "closed" => client'[q] = "closed"
    BY <1>13 DEF Client, TakeAnswer, PollChunk, Leave, Disconnect, GTypeOK
  <2>3. \A s \in batch : s[1] \in Requests
    BY SeqsFacts DEF GTypeOK
  <2> QED
    BY <1>1, <2>1, <2>2, <2>3 DEF GTypeOK
<1>14. CASE UNCHANGED vars
  BY <1>1, <1>14 DEF vars, groupVars, clientVars
<1> QED
  BY <1>3, <1>4, <1>5, <1>6, <1>7, <1>8, <1>9, <1>10, <1>11, <1>12, <1>13, <1>14
  DEF Next, Engine, SampleNext

-----------------------------------------------------------------------------
(* What there is without failures.                                         *)

NoFailure == revived = {} /\ early = {} /\ sampleErrors + forwardErrors = 0

\* Of a request that was answered, a sequence was never made, or all are done.
Closed(r) == rx[r] # <<>> \/ client[r] = "closed"
Through(r) == \/ \E s \in SeqsOf(r) : st[s] = "none"
              \/ \A s \in SeqsOf(r) : st[s] = "done"

\* What keeps a request as it is, as far as this is concerned.
LEMMA ThroughKept ==
    ASSUME NEW r \in Requests, ChoicesAreDone(r), Closed(r) => Through(r),
           choices'[r] = choices[r], Closed(r)' => Closed(r),
           \A s \in SeqsOf(r) : st'[s] = st[s] \/ (Runnable(s) /\ Runnable(s)')
    PROVE  ChoicesAreDone(r)' /\ (Closed(r)' => Through(r)')
<1>1. DoneKs(r)' = DoneKs(r)
  BY SeqsFacts DEF DoneKs, Runnable
<1>2. ChoicesAreDone(r)'
  BY <1>1 DEF ChoicesAreDone
<1>3. \A s \in SeqsOf(r) : st[s] \in {"none", "done"} => st'[s] = st[s]
  BY DEF Runnable
<1> QED
  BY <1>2, <1>3 DEF Through

LEMMA NoFailureStep ==
    GTypeOK /\ GTypeOK' /\ BatchInv /\ ClientInv /\ StreamInv /\ NoFailureInv /\ [Next]_vars => NoFailureInv'
<1> SUFFICES ASSUME GTypeOK, GTypeOK', BatchInv, ClientInv, StreamInv, NoFailureInv, [Next]_vars, NoFailure'
             PROVE  /\ phase' \in {"idle", "sample"}
                    /\ \A r \in Requests \ Streaming : ChoicesAreDone(r)' /\ (Closed(r)' => Through(r)')
  BY DEF NoFailureInv, NoFailure, Closed, Through
<1> DEFINE Goal == /\ phase' \in {"idle", "sample"}
                   /\ \A r \in Requests \ Streaming : ChoicesAreDone(r)' /\ (Closed(r)' => Through(r)')
<1>1. NoFailure
  BY Past DEF NoFailure
<1>2. /\ phase \in {"idle", "sample"}
      /\ \A r \in Requests \ Streaming : ChoicesAreDone(r) /\ (Closed(r) => Through(r))
  BY <1>1 DEF NoFailureInv, NoFailure, Closed, Through
<1>3. n_choices = N
  BY <1>1 DEF StreamInv, NoFailure
<1>4. ASSUME phase' \in {"idle", "sample"}, UNCHANGED <<choices, rx, client>>,
             \A s \in Seqs : st'[s] = st[s] \/ (Runnable(s) /\ Runnable(s)')
      PROVE  Goal
  <2>1. ASSUME NEW r \in Requests \ Streaming PROVE ChoicesAreDone(r)' /\ (Closed(r)' => Through(r)')
    BY <1>2, <1>4, SeqsFacts, ThroughKept DEF Closed
  <2> QED
    BY <1>4, <2>1
<1>5. ASSUME NEW r \in Requests, AddRequest(r) PROVE Goal
  <2>1. prompt[r] = 0 /\ rx[r] = <<>> /\ client[r] = "open" /\ (\A s \in SeqsOf(r) : st[s] = "none")
        /\ UNCHANGED <<choices, client>>
    BY <1>1, <1>5 DEF AddRequest, ClientInv, NoFailure, groupVars, clientVars, GTypeOK
  <2>2. phase' = "idle"
    BY <1>5, <2>1 DEF AddRequest, Refuse, MakeSequences
  <2>3. ASSUME NEW q \in Requests \ Streaming, q # r
        PROVE  ChoicesAreDone(q)' /\ (Closed(q)' => Through(q)')
    <3>1. rx'[q] = rx[q]
      <4>1. rx' = rx \/ (\E msg : Send(r, msg))
        BY <1>5 DEF AddRequest, Refuse, MakeSequences
      <4> QED
        BY <2>3, <4>1 DEF Send, GTypeOK
    <3>2. \A s \in SeqsOf(q) : st'[s] = st[s]
      <4>1. \A s \in Seqs : s[1] # r => st'[s] = st[s]
        BY <1>5 DEF AddRequest, Refuse, MakeSequences, GTypeOK
      <4> QED
        BY <2>3, <4>1, SeqsFacts
    <3> QED
      BY <1>2, <2>1, <3>1, <3>2, ThroughKept DEF Closed
  <2>4. ASSUME r \notin Streaming
        PROVE  ChoicesAreDone(r)' /\ (Closed(r)' => Through(r)')
    <3>1. \A s \in SeqsOf(r) : st'[s] \in {"none", "fresh"}
      BY <1>5, <2>1, SeqsFacts DEF AddRequest, Refuse, MakeSequences
    <3>2. DoneKs(r)' = DoneKs(r)
      BY <2>1, <3>1, SeqsFacts DEF DoneKs
    <3>3. ChoicesAreDone(r)'
      BY <1>2, <2>1, <2>4, <3>2 DEF ChoicesAreDone
    <3>4. <<r, N[r]>> \in SeqsOf(r) /\ <<r, N[r]>> \in Seqs
      BY SeqsFacts
    <3>5. CASE Refuse(r)
      <4>1. st'[<<r, N[r]>>] = "none"
        BY <2>1, <3>4, <3>5 DEF Refuse
      <4> QED
        BY <3>3, <3>4, <4>1 DEF Through
    <3>6. ASSUME NEW made \in 0..N[r], MakeSequences(r, made), Closed(r)' PROVE Through(r)'
      <4>1. made # N[r]
        BY <2>1, <3>6 DEF MakeSequences, Closed
      <4>2. made < N[r]
        BY <4>1, SeqsFacts
      <4>3. st'[<<r, N[r]>>] = "none"
        BY <2>1, <3>4, <3>6, <4>2, SeqsFacts DEF MakeSequences
      <4> QED
        BY <3>4, <4>3 DEF Through
    <3> QED
      BY <1>5, <3>3, <3>5, <3>6 DEF AddRequest
  <2> QED
    BY <2>2, <2>3, <2>4
<1>6. CASE PickBatch
  BY <1>4, <1>6 DEF PickBatch, groupVars, clientVars
<1>7. ASSUME NEW s \in Seqs, Withhold(s) PROVE Goal
  BY <1>2, <1>4, <1>7 DEF Withhold, groupVars, clientVars
<1>8. ASSUME NEW s \in Seqs, StreamToken(s) PROVE Goal
  <2>1. UNCHANGED <<choices, client, phase>> /\ s[1] \in Streaming
    BY <1>8 DEF StreamToken, clientVars
  <2>2. ASSUME NEW r \in Requests \ Streaming PROVE ChoicesAreDone(r)' /\ (Closed(r)' => Through(r)')
    <3>1. rx'[r] = rx[r]
      <4>1. rx' = rx \/ (\E msg : Send(s[1], msg))
        BY <1>8 DEF StreamToken, SendChunks
      <4> QED
        BY <2>1, <2>2, <4>1 DEF Send, GTypeOK
    <3>2. \A t \in SeqsOf(r) : st'[t] = st[t]
      <4>1. \A t \in Seqs \ {s} : st'[t] = st[t]
        BY <1>8 DEF StreamToken, GTypeOK
      <4> QED
        BY <2>1, <2>2, <4>1, SeqsFacts
    <3> QED
      BY <1>2, <2>1, <3>1, <3>2, ThroughKept DEF Closed
  <2> QED
    BY <1>2, <2>1, <2>2
<1>9. ASSUME NEW s \in Seqs, JsonToken(s) PROVE Goal
  <2>1. /\ s[1] \in Requests \ Streaming /\ Runnable(s) /\ s \in SeqsOf(s[1]) /\ phase = "sample"
        /\ UNCHANGED client
    BY <1>9, InBatch, SeqsFacts DEF JsonToken, Sampling, clientVars
  <2>2. ChoicesAreDone(s[1]) /\ (Closed(s[1]) => Through(s[1]))
    BY <1>2, <2>1
  <2>3. CASE UNCHANGED <<st, choices, rx, phase>>
    BY <1>2, <1>4, <2>1, <2>3
  <2>4. CASE ~ UNCHANGED <<st, choices, rx, phase>>
    <3> DEFINE r == s[1]
               cs == Append(choices[r], s[2])
    <3>1. /\ st' = [st EXCEPT ![s] = "done"] /\ choices' = [choices EXCEPT ![r] = cs]
          /\ \/ ~DoneReady(r, cs) /\ UNCHANGED <<rx, phase>>
             \/ DoneReady(r, cs) /\ client[r] = "open" /\ Send(r, [type |-> "done", parts |-> cs]) /\ UNCHANGED phase
             \/ DoneReady(r, cs) /\ client[r] # "open"
      BY <1>9, <2>4 DEF JsonToken
    <3>2. /\ ChoicesAreDone(r)' /\ choices'[r] = cs /\ cs \in Seq(Nat)
          /\ Len(cs) = N[r] <=> \A t \in SeqsOf(r) : st'[t] = "done"
      BY <2>1, <2>2, <3>1, DoneChoice
    <3> HIDE DEF cs
    <3>3. DoneReady(r, cs) => \A t \in SeqsOf(r) : st'[t] = "done"
      BY <1>3, <3>2 DEF DoneReady
    <3>4. \A t \in Seqs \ {s} : st'[t] = st[t]
      BY <3>1 DEF GTypeOK
    <3>5. ~(DoneReady(r, cs) /\ client[r] # "open")
      <4> SUFFICES ASSUME DoneReady(r, cs), client[r] # "open" PROVE FALSE
        OBVIOUS
      <4>1. Through(r)
        BY <2>1, <2>2 DEF GTypeOK, Closed
      <4>2. \A t \in SeqsOf(r) : t # s => st[t] = "done"
        BY <3>3, <3>4, SeqsFacts, <2>1
      <4> QED
        BY <2>1, <4>1, <4>2 DEF Through, Runnable
    <3>6. phase' = "sample"
      BY <2>1, <3>1, <3>5
    <3>7. Closed(r)' => Through(r)'
      <4>1. CASE DoneReady(r, cs)
        BY <3>3, <4>1 DEF Through
      <4>2. CASE ~DoneReady(r, cs)
        <5>1. Closed(r)' => Closed(r)
          BY <2>1, <3>1, <4>2 DEF Closed
        <5>2. Closed(r) => \E t \in SeqsOf(r) : st[t] = "none" /\ t # s
          BY <2>1, <2>2 DEF Through, Runnable
        <5> QED
          BY <5>1, <5>2, <3>4, SeqsFacts, <2>1 DEF Through
      <4> QED
        BY <4>1, <4>2
    <3>8. ASSUME NEW q \in Requests \ Streaming, q # r
          PROVE  ChoicesAreDone(q)' /\ (Closed(q)' => Through(q)')
      <4>1. choices'[q] = choices[q]
        BY <3>1, <3>8 DEF GTypeOK
      <4>2. rx'[q] = rx[q]
        BY <3>1, <3>5, <3>8 DEF GTypeOK, Send
      <4>3. \A t \in SeqsOf(q) : st'[t] = st[t]
        BY <3>4, <3>8, SeqsFacts
      <4> QED
        BY <1>2, <2>1, <3>8, <4>1, <4>2, <4>3, ThroughKept DEF Closed
    <3> QED
      BY <3>2, <3>6, <3>7, <3>8
  <2> QED
    BY <2>3, <2>4
<1>10. ASSUME NEW s \in Seqs, SampleError(s) PROVE FALSE
  <2>1. sampleErrors' = sampleErrors + 1 /\ forwardErrors' = forwardErrors
    BY <1>10 DEF SampleError
  <2> QED
    BY <2>1 DEF GTypeOK, NoFailure
<1>11. CASE EndStep
  <2>1. /\ UNCHANGED <<choices, rx, client>> /\ phase' = "idle"
        /\ st' = [s \in Seqs |-> IF isPrompt /\ s \in batch THEN "run" ELSE st[s]]
        /\ isPrompt => \A s \in batch : Runnable(s)
    BY <1>11 DEF EndStep, groupVars, clientVars, GTypeOK, NoFailure
  <2> QED
    BY <1>4, <2>1 DEF Runnable
<1>12. CASE ForwardError
  <2>1. forwardErrors' = forwardErrors + 1 /\ sampleErrors' = sampleErrors
    BY <1>12 DEF ForwardError
  <2> QED
    BY <2>1 DEF GTypeOK, NoFailure
<1>13. ASSUME NEW s \in Seqs, FailAddChoices(s) \/ FailRespond(s) PROVE FALSE
  BY <1>2, <1>13 DEF FailAddChoices, FailRespond
<1>14. ASSUME FailEnd PROVE FALSE
  BY <1>2, <1>14 DEF FailEnd
<1>15. ASSUME NEW q \in Requests, Client(q) \/ Leave(q) PROVE Goal
  <2>1. UNCHANGED <<choices, st, phase>>
    BY <1>15 DEF Client, TakeAnswer, PollChunk, Leave, groupVars
  <2>2. ASSUME NEW r \in Requests \ Streaming PROVE ChoicesAreDone(r)' /\ (Closed(r)' => Through(r)')
    <3>1. Closed(r)' => Closed(r)
      <4>1. early' = {}
        BY DEF NoFailure
      <4>2. ~Leave(q)
        BY <4>1 DEF Leave
      <4>3. CASE TakeAnswer(q)
        BY <4>3 DEF TakeAnswer, Disconnect, Closed, GTypeOK
      <4>4. CASE PollChunk(q)
        BY <4>4 DEF PollChunk, Disconnect, Closed, GTypeOK
      <4> QED
        BY <1>15, <4>2, <4>3, <4>4 DEF Client
    <3> QED
      BY <1>2, <2>1, <3>1, ThroughKept
  <2> QED
    BY <1>2, <2>1, <2>2
<1>16. CASE UNCHANGED vars
  BY <1>2, <1>4, <1>16 DEF vars, groupVars, clientVars
<1> QED
  BY <1>5, <1>6, <1>7, <1>8, <1>9, <1>10, <1>11, <1>12, <1>13, <1>14, <1>15, <1>16
  DEF Next, Engine, SampleNext

-----------------------------------------------------------------------------
(* Requests of one choice.                                                 *)

Single == (\A r \in Requests : N[r] = 1) /\ revived = {} /\ early = {}

\* The only sequence of a request runs: none of the request has failed.
LEMMA OneChoice ==
    ASSUME GTypeOK, CountInv, Single, NEW s \in Seqs, Runnable(s)
    PROVE  n_choices[s[1]] = 1
<1>1. \A t \in SeqsOf(s[1]) : t = s
  BY SeqsFacts DEF Single, SeqsOf
<1>2. {t \in SeqsOf(s[1]) : st[t] = "error"} = {}
  BY <1>1 DEF Runnable
<1> QED
  BY <1>2, SeqsFacts, FS_EmptySet DEF CountInv, NChoicesCountsTheRest, Single

\* A message of a request that has been served makes no difference to others.
LEMMA ServedByMessage ==
    ASSUME GTypeOK, NEW r \in Requests, NEW msg \in Messages, Send(r, msg), UNCHANGED client
    PROVE  /\ Served(r)' => Served(r) \/ Final(r, msg)
           /\ \A q \in Requests \ {r} : Served(q)' <=> Served(q)
<1>1. rx'[r] = Append(rx[r], msg) /\ (\A q \in Requests \ {r} : rx'[q] = rx[q]) /\ rx[r] \in Seq(Messages)
  BY SendType DEF GTypeOK
<1>2. Len(rx[r]) \in Nat /\ DOMAIN rx[r] = 1..Len(rx[r])
      /\ DOMAIN Append(rx[r], msg) = 1..(Len(rx[r]) + 1)
      /\ (\A i \in 1..Len(rx[r]) : Append(rx[r], msg)[i] = rx[r][i])
      /\ Append(rx[r], msg)[Len(rx[r]) + 1] = msg
  BY <1>1, AppendFacts
<1>3. ASSUME NEW i \in DOMAIN rx'[r], Final(r, rx'[r][i])
      PROVE  Served(r) \/ Final(r, msg)
  <2>1. CASE i = Len(rx[r]) + 1
    BY <1>1, <1>2, <1>3, <2>1
  <2>2. CASE i \in 1..Len(rx[r])
    BY <1>1, <1>2, <1>3, <2>2 DEF Served
  <2> QED
    BY <1>1, <1>2, <2>1, <2>2
<1> QED
  BY SMTT(30), <1>1, <1>3 DEF Served, Final, EndsStream

LEMMA SingleStep ==
    GTypeOK /\ GTypeOK' /\ BatchInv /\ ClientInv /\ CountInv /\ SingleInv /\ [Next]_vars => SingleInv'
<1> DEFINE Over == \A t \in Seqs : Served(t[1]) /\ Runnable(t) => phase = "respond" /\ t \in batch \ todo
           Goal == /\ phase' # "dead"
                   /\ phase' \in {"fail", "respond"} => \A s \in batch' : Runnable(s)'
                   /\ \A r \in Streaming : chunks'[r] = <<>>
                   /\ Over'
<1> SUFFICES ASSUME GTypeOK, GTypeOK', BatchInv, ClientInv, CountInv, SingleInv, [Next]_vars, Single'
             PROVE  Goal
  BY DEF SingleInv, Single
<1>1. Single
  BY Past DEF Single
<1>2. /\ phase # "dead"
      /\ phase \in {"fail", "respond"} => \A s \in batch : Runnable(s)
      /\ \A r \in Streaming : chunks[r] = <<>>
      /\ Over
  BY <1>1 DEF SingleInv, Single
<1>3. phase # "respond" => \A t \in Seqs : ~(Served(t[1]) /\ Runnable(t))
  BY <1>2
\* A sequence that is about to run has a client that waits.
<1>4. ASSUME NEW s \in Seqs, Runnable(s), phase # "respond" \/ s \in todo
      PROVE  ~Served(s[1]) /\ client[s[1]] = "open"
  <2>1. ~Served(s[1])
    BY <1>2, <1>4
  <2> QED
    BY <2>1, SeqsFacts DEF Served, GTypeOK
\* A step with which nobody is served, and nobody runs who did not.
<1>5. ASSUME phase # "respond", phase' \in {"idle", "sample"}, UNCHANGED chunks,
             \A t \in Seqs : Served(t[1])' /\ Runnable(t)' => Served(t[1]) /\ Runnable(t)
      PROVE  Goal
  BY <1>2, <1>3, <1>5
<1>6. ASSUME UNCHANGED <<rx, client>>, NEW r \in Requests PROVE Served(r)' <=> Served(r)
  BY <1>6 DEF Served, Final, EndsStream
\* The message for a sequence that is through with it.
<1>7. ASSUME NEW s \in Seqs, NEW msg \in Messages, Send(s[1], msg), UNCHANGED client,
             \A t \in Seqs : Runnable(t)' => Runnable(t),
             Final(s[1], msg) => ~Runnable(s)',
             NEW t \in Seqs, Served(t[1])', Runnable(t)'
      PROVE  Served(t[1]) /\ Runnable(t)
  <2>1. s[1] \in Requests /\ t[1] \in Requests /\ (t[1] = s[1] => t = s)
    BY <1>1, SeqsFacts DEF Single
  <2>2. /\ Served(s[1])' => Served(s[1]) \/ Final(s[1], msg)
        /\ \A q \in Requests \ {s[1]} : Served(q)' <=> Served(q)
    BY <1>7, <2>1, ServedByMessage
  <2> QED
    BY <1>7, <2>1, <2>2
<1>8. ASSUME NEW r \in Requests, AddRequest(r) PROVE Goal
  <2>1. prompt[r] = 0 /\ rx[r] = <<>> /\ client[r] = "open" /\ (\A s \in SeqsOf(r) : st[s] = "none")
        /\ UNCHANGED <<chunks, client>> /\ phase = "idle" /\ N[r] = 1
    BY <1>1, <1>8 DEF AddRequest, ClientInv, Single, groupVars, clientVars, GTypeOK
  <2>2. phase' = "idle"
    BY <1>8, <2>1 DEF AddRequest, Refuse, MakeSequences
  <2>3. ASSUME NEW t \in Seqs, Served(t[1])', Runnable(t)' PROVE Served(t[1]) /\ Runnable(t)
    <3>1. CASE t[1] # r
      <4>1. rx' = rx \/ (\E msg : Send(r, msg))
        BY <1>8 DEF AddRequest, Refuse, MakeSequences
      <4>2. t[1] \in Requests /\ rx'[t[1]] = rx[t[1]]
        BY <3>1, <4>1, SeqsFacts DEF Send, GTypeOK
      <4>3. st'[t] = st[t]
        BY <1>8, <3>1 DEF AddRequest, Refuse, MakeSequences, GTypeOK
      <4> QED
        BY <2>1, <2>3, <4>2, <4>3 DEF Served, Final, EndsStream, Runnable
    <3>2. CASE t[1] = r
      <4>1. st[t] = "none" /\ t[2] = 1
        BY <2>1, <3>2, SeqsFacts
      <4>2. st'[t] # "none"
        BY <2>3 DEF Runnable
      <4>3. ~Refuse(r)
        BY <4>1, <4>2 DEF Refuse
      <4>4. PICK made \in 0..N[r] : MakeSequences(r, made)
        BY <1>8, <4>3 DEF AddRequest
      <4>5. made = N[r]
        BY <2>1, <3>2, <4>1, <4>2, <4>4 DEF MakeSequences
      <4>6. rx'[r] = <<>> /\ client'[r] = "open"
        BY <2>1, <4>4, <4>5 DEF MakeSequences
      <4> QED
        BY <2>3, <3>2, <4>6 DEF Served
    <3> QED
      BY <3>1, <3>2
  <2> QED
    BY <1>5, <2>1, <2>2, <2>3
<1>9. CASE PickBatch
  <2>1. UNCHANGED <<st, chunks, rx, client>> /\ phase = "idle" /\ phase' = "sample"
    BY <1>9 DEF PickBatch, groupVars, clientVars
  <2> QED
    BY <1>5, <1>6, <2>1, SeqsFacts DEF Runnable
<1>10. ASSUME NEW s \in Seqs, Withhold(s) PROVE Goal
  <2>1. UNCHANGED <<st, chunks, rx, client, phase>> /\ phase = "sample"
    BY <1>10 DEF Withhold, Sampling, groupVars, clientVars
  <2> QED
    BY <1>5, <1>6, <2>1, SeqsFacts DEF Runnable
<1>11. ASSUME NEW s \in Seqs, StreamToken(s) PROVE Goal
  <2> DEFINE r == s[1]
  <2>1. r \in Requests /\ r \in Streaming /\ phase = "sample" /\ UNCHANGED <<phase, client>> /\ Runnable(s)
    BY <1>11, InBatch, SeqsFacts DEF StreamToken, Sampling, clientVars
  <2>2. client[r] = "open" /\ n_choices[r] = 1 /\ chunks[r] = <<>>
    BY <1>1, <1>2, <1>4, <2>1, OneChoice
  <2> PICK stop \in BOOLEAN :
         /\ SendChunks(r, Append(chunks[r], [k |-> s[2], fin |-> stop]))
         /\ st' = [st EXCEPT ![s] = IF Len(Append(chunks[r], [k |-> s[2], fin |-> stop])) = n_choices[r]
                                       /\ client[r] = "closed" THEN "canceled"
                                    ELSE IF stop THEN "done" ELSE @]
    BY <1>11 DEF StreamToken
  <2> DEFINE c == [k |-> s[2], fin |-> stop]
             cs == Append(chunks[r], c)
             msg == [type |-> "chunk", parts |-> cs]
  <2>3. c \in Chunks /\ c.fin = stop
    BY SeqsFacts DEF Chunks
  <2>4. st' = [st EXCEPT ![s] = IF stop THEN "done" ELSE @]
    BY <2>2
  <2>5. SendChunks(r, cs)
    OBVIOUS
  <2> HIDE DEF c
  <2>6. cs \in Seq(Chunks) /\ Len(cs) = 1 /\ cs[1] = c /\ DOMAIN cs = 1..1
    BY <2>2, <2>3
  <2> HIDE DEF cs, r
  <2>7. chunks' = [chunks EXCEPT ![r] = <<>>] /\ Send(r, msg)
    BY <2>2, <2>5, <2>6 DEF SendChunks
  <2>8. msg \in Messages /\ (Final(r, msg) => stop)
    <3>1. msg \in Messages
      BY <2>6, MessageFacts
    <3>2. Final(r, msg) => cs[1].fin
      BY <2>1, <2>6 DEF Final, EndsStream
    <3> QED
      BY <2>3, <2>6, <3>1, <3>2
  <2> HIDE DEF msg
  <2>9. (\A t \in Seqs : Runnable(t)' => Runnable(t)) /\ (stop => ~Runnable(s)')
    BY <2>4 DEF Runnable, GTypeOK
  <2>10. UNCHANGED chunks
    BY <2>1, <2>2, <2>7 DEF GTypeOK
  <2>11. ASSUME NEW t \in Seqs, Served(t[1])', Runnable(t)' PROVE Served(t[1]) /\ Runnable(t)
    <3>1. Send(s[1], msg) /\ (Final(s[1], msg) => ~Runnable(s)')
      BY <2>7, <2>8, <2>9 DEF r
    <3> QED
      BY <1>7, <2>1, <2>8, <2>9, <2>11, <3>1
  <2> QED
    BY <1>5, <2>1, <2>10, <2>11
<1>12. ASSUME NEW s \in Seqs, JsonToken(s) PROVE Goal
  <2>1. s[1] \in Requests /\ phase = "sample" /\ UNCHANGED <<chunks, client>> /\ Runnable(s)
    BY <1>12, InBatch, SeqsFacts DEF JsonToken, Sampling, clientVars
  <2>2. client[s[1]] = "open"
    BY <1>4, <2>1
  <2> DEFINE cs == Append(choices[s[1]], s[2])
             msg == [type |-> "done", parts |-> cs]
  <2>3. phase' = phase /\ \/ UNCHANGED <<rx, st>>
                          \/ st' = [st EXCEPT ![s] = "done"] /\ UNCHANGED rx
                          \/ st' = [st EXCEPT ![s] = "done"] /\ Send(s[1], msg)
    BY <1>12, <2>2 DEF JsonToken
  <2>4. msg \in Messages
    <3>1. cs \in Seq(Nat)
      <4>1. s[2] \in 1..N[s[1]] /\ N[s[1]] \in Nat
        BY SeqsFacts
      <4>2. choices[s[1]] \in Seq(Nat)
        BY <2>1 DEF GTypeOK
      <4> QED
        BY <4>1, <4>2, AppendFacts DEF cs
    <3> QED
      BY <3>1, MessageFacts
  <2> HIDE DEF msg, cs
  <2>5. \A t \in Seqs : Runnable(t)' => Runnable(t)
    BY <2>3 DEF Runnable, GTypeOK
  <2>6. CASE UNCHANGED rx
    BY <1>5, <1>6, <2>1, <2>3, <2>5, <2>6, SeqsFacts
  <2>7. CASE st' = [st EXCEPT ![s] = "done"] /\ Send(s[1], msg)
    <3>1. ~Runnable(s)'
      BY <2>7 DEF Runnable, GTypeOK
    <3>2. \A t \in Seqs : Served(t[1])' /\ Runnable(t)' => Served(t[1]) /\ Runnable(t)
      BY <1>7, <2>1, <2>4, <2>5, <2>7, <3>1
    <3> QED
      BY <1>5, <2>1, <2>3, <3>2
  <2> QED
    BY <2>3, <2>6, <2>7
<1>13. ASSUME NEW s \in Seqs, SampleError(s) PROVE Goal
  <2>1. s[1] \in Requests /\ phase = "sample" /\ UNCHANGED <<chunks, client>> /\ Runnable(s)
    BY <1>13, InBatch, SeqsFacts DEF SampleError, Sampling, clientVars
  <2>2. client[s[1]] = "open"
    BY <1>4, <2>1
  <2>3. Send(s[1], [type |-> "internal"]) /\ st' = [st EXCEPT ![s] = "error"] /\ phase' = phase
    BY <1>13, <2>2 DEF SampleError
  <2>4. (\A t \in Seqs : Runnable(t)' => Runnable(t)) /\ ~Runnable(s)'
    BY <2>3 DEF Runnable, GTypeOK
  <2>5. \A t \in Seqs : Served(t[1])' /\ Runnable(t)' => Served(t[1]) /\ Runnable(t)
    BY <1>7, <2>1, <2>3, <2>4, MessageFacts
  <2> QED
    BY <1>5, <2>1, <2>3, <2>5
<1>14. CASE EndStep
  <2>1. /\ UNCHANGED <<chunks, rx, client>> /\ phase = "sample" /\ phase' = "idle"
        /\ st' = [s \in Seqs |-> IF isPrompt /\ s \in batch THEN "run" ELSE st[s]]
        /\ isPrompt => \A s \in batch : Runnable(s)
    BY <1>14 DEF EndStep, groupVars, clientVars, GTypeOK, Single
  <2>2. \A t \in Seqs : Runnable(t)' => Runnable(t)
    BY <2>1 DEF Runnable
  <2> QED
    BY <1>5, <1>6, <2>1, <2>2, SeqsFacts
<1>15. CASE ForwardError
  <2>1. /\ UNCHANGED <<chunks, rx, client, st, batch>> /\ phase = "sample" /\ phase' = "fail" /\ todo = batch
    BY <1>15 DEF ForwardError, groupVars, clientVars
  <2>2. \A s \in batch : Runnable(s)'
    BY <2>1 DEF BatchInv, Runnable
  <2>3. Over'
    BY <1>3, <1>6, <2>1, SeqsFacts DEF Runnable
  <2> QED
    BY <1>2, <2>1, <2>2, <2>3
<1>16. ASSUME NEW s \in Seqs, FailAddChoices(s) PROVE Goal
  <2>1. /\ UNCHANGED <<chunks, rx, client, st, batch>> /\ phase = "fail" /\ phase' \in {"fail", "respond"}
    BY <1>16 DEF FailAddChoices, clientVars
  <2>2. \A t \in Seqs : Runnable(t)' <=> Runnable(t)
    BY <2>1 DEF Runnable
  <2>3. Over'
    BY <1>3, <1>6, <2>1, <2>2, SeqsFacts
  <2> QED
    BY <1>2, <2>1, <2>2, <2>3 DEF GTypeOK
<1>17. ASSUME NEW s \in Seqs, FailRespond(s) PROVE Goal
  <2>1. phase = "respond" /\ s \in todo /\ s \in batch /\ Runnable(s) /\ s[1] \in Requests
        /\ UNCHANGED <<chunks, client, st, batch>>
    BY <1>2, <1>17, SeqsFacts DEF FailRespond, FirstLeft, groupVars, clientVars, GTypeOK
  <2>2. client[s[1]] = "open"
    BY <1>4, <2>1
  <2>3. Send(s[1], [type |-> "model"]) /\ todo' = todo \ {s} /\ phase' = "respond"
    BY <1>17, <2>1, <2>2 DEF FailRespond
  <2>4. \A t \in Seqs : Runnable(t)' <=> Runnable(t)
    BY <2>1 DEF Runnable
  <2>5. \A q \in Requests \ {s[1]} : Served(q)' <=> Served(q)
    BY <2>1, <2>3, ServedByMessage, MessageFacts
  <2>6. \A t \in Seqs : t[1] \in Requests /\ (t # s => t[1] # s[1])
    BY <1>1, SeqsFacts DEF Single
  <2>7. Over'
    BY <1>2, <2>1, <2>3, <2>4, <2>5, <2>6
  <2> QED
    BY <1>2, <2>1, <2>3, <2>4, <2>7 DEF GTypeOK
<1>18. CASE FailEnd
  <2>1. /\ UNCHANGED <<chunks, rx, client>> /\ phase' = "idle" /\ todo = {}
        /\ st' = [s \in Seqs |-> IF s \in batch THEN "error" ELSE st[s]]
    BY <1>18 DEF FailEnd, clientVars
  <2>2. \A t \in Seqs : Runnable(t)' => Runnable(t) /\ t \notin batch
    BY <2>1 DEF Runnable
  <2>3. Over'
    BY <1>2, <1>6, <2>1, <2>2, SeqsFacts
  <2> QED
    BY <1>2, <2>1, <2>3
<1>19. ASSUME NEW q \in Requests, Client(q) \/ Leave(q) PROVE Goal
  <2>1. UNCHANGED <<chunks, st, phase, batch, todo>>
    BY <1>19 DEF Client, TakeAnswer, PollChunk, Leave, groupVars
  <2>2. ~Leave(q)
    BY DEF Leave, Single
  <2>3. ASSUME NEW r \in Requests, Served(r)' PROVE Served(r)
    <3>1. CASE r # q
      <4>1. rx'[r] = rx[r] /\ client'[r] = client[r]
        BY <1>19, <2>2, <3>1 DEF Client, TakeAnswer, PollChunk, Disconnect, GTypeOK
      <4> QED
        BY <2>3, <4>1 DEF Served, Final, EndsStream
    <3>2. rx[q] \in Seq(Messages) /\ (rx[q] # <<>> => 1 \in DOMAIN rx[q] /\ Head(rx[q]) = rx[q][1])
      <4>1. rx[q] \in Seq(Messages)
        BY DEF GTypeOK
      <4> QED
        BY <4>1
    <3>3. CASE r = q /\ TakeAnswer(q)
      BY <3>2, <3>3 DEF TakeAnswer, Served, Final
    <3>4. CASE r = q /\ PollChunk(q) /\ EndsStream(Head(rx[q]))
      BY <3>2, <3>4 DEF PollChunk, Served, Final
    <3>5. CASE r = q /\ PollChunk(q) /\ ~EndsStream(Head(rx[q]))
      <4>1. rx[q] # <<>> /\ rx'[q] = Tail(rx[q]) /\ client'[q] = client[q]
        BY <3>5 DEF PollChunk, GTypeOK
      <4>2. \A i \in DOMAIN Tail(rx[q]) : i + 1 \in DOMAIN rx[q] /\ Tail(rx[q])[i] = rx[q][i + 1]
        BY <3>2, <4>1
      <4>3. CASE client'[q] = "closed"
        BY <3>5, <4>1, <4>3 DEF Served
      <4>4. ASSUME NEW i \in DOMAIN rx'[q], Final(q, rx'[q][i]) PROVE Served(q)
        BY <4>1, <4>2, <4>4 DEF Served
      <4> QED
        BY <2>3, <3>5, <4>3, <4>4 DEF Served, Final, EndsStream
    <3> QED
      BY <1>19, <2>2, <3>1, <3>3, <3>4, <3>5 DEF Client
  <2>4. \A t \in Seqs : Runnable(t)' <=> Runnable(t)
    BY <2>1 DEF Runnable
  <2>5. Over'
    BY <1>2, <2>1, <2>3, <2>4, SeqsFacts
  <2> QED
    BY <1>2, <2>1, <2>4, <2>5 DEF GTypeOK
<1>20. CASE UNCHANGED vars
  <2>1. UNCHANGED <<chunks, st, phase, batch, todo, rx, client>>
    BY <1>20 DEF vars, groupVars, clientVars
  <2>2. \A t \in Seqs : Runnable(t)' <=> Runnable(t)
    BY <2>1 DEF Runnable
  <2>3. Over'
    BY <1>2, <1>6, <2>1, <2>2, SeqsFacts
  <2> QED
    BY <1>2, <2>1, <2>2, <2>3 DEF GTypeOK
<1> QED
  BY <1>8, <1>9, <1>10, <1>11, <1>12, <1>13, <1>14, <1>15, <1>16, <1>17, <1>18, <1>19, <1>20
  DEF Next, Engine, SampleNext

-----------------------------------------------------------------------------
(* GInv is inductive.                                                      *)

LEMMA InitInv == Init => GInv
<1> SUFFICES ASSUME Init PROVE GInv
  OBVIOUS
<1>1. GTypeOK
  BY InitG
<1>2. BatchInv /\ ClientInv
  BY SeqsFacts DEF Init, BatchInv, ClientInv
<1>3. LengthInv
  <2>1. \A s \in Seqs : MaxLen[s[1]] \in Nat
    BY SeqsFacts, GroupsAssumption
  <2> QED
    BY <2>1 DEF Init, LengthInv
<1>4. \A r \in Requests : \A s \in SeqsOf(r) : st[s] = "none"
  BY SeqsFacts DEF Init
<1>5. CountInv
  <2>1. ASSUME NEW r \in Requests
        PROVE  n_choices[r] = N[r] - Cardinality({s \in SeqsOf(r) : st[s] = "error"})
    <3>1. {s \in SeqsOf(r) : st[s] = "error"} = {} /\ n_choices[r] = N[r] /\ N[r] \in Nat
      BY <1>4, <2>1, SeqsFacts DEF Init
    <3> QED
      BY <3>1, FS_EmptySet
  <2> QED
    BY <2>1 DEF Init, CountInv, NChoicesCountsTheRest
<1>6. \A r \in Requests : ChoicesAreDone(r)
  <2> SUFFICES ASSUME NEW r \in Requests PROVE ChoicesAreDone(r)
    OBVIOUS
  <2>1. DoneKs(r) = {} /\ choices[r] = <<>>
    BY <1>4, SeqsFacts DEF DoneKs, Init
  <2> QED
    BY <2>1 DEF ChoicesAreDone, IsInjective, Range
<1>7. UnansweredInv
  BY <1>6 DEF Init, UnansweredInv
<1>8. DoneMeansOver
  BY DEF Init, DoneMeansOver
<1>9. StreamInv
  BY GroupsAssumption, SeqsFacts DEF Init, StreamInv
<1>10. NoFailureInv
  BY <1>6 DEF Init, NoFailureInv
<1>11. SingleInv
  BY GroupsAssumption, SeqsFacts DEF Init, SingleInv, Runnable
<1> QED
  BY <1>1, <1>2, <1>3, <1>5, <1>7, <1>8, <1>9, <1>10, <1>11 DEF GInv

LEMMA StepInv == GInv /\ [Next]_vars => GInv'
<1> SUFFICES ASSUME GInv, [Next]_vars PROVE GInv'
  OBVIOUS
<1>1. GTypeOK /\ BatchInv /\ ClientInv /\ LengthInv /\ CountInv /\ UnansweredInv
      /\ DoneMeansOver /\ StreamInv /\ NoFailureInv /\ SingleInv
  BY DEF GInv
<1>2. GTypeOK'
  BY <1>1, TypeStep
<1>3. BatchInv' /\ ClientInv' /\ LengthInv' /\ CountInv'
  BY <1>1, <1>2, BatchStep, ClientStep, LengthStep, CountStep
<1>4. UnansweredInv' /\ DoneMeansOver'
  BY <1>1, <1>2, UnansweredStep, OverStep
<1>5. StreamInv' /\ NoFailureInv' /\ SingleInv'
  BY <1>1, <1>2, StreamStep, NoFailureStep, SingleStep
<1> QED
  BY <1>2, <1>3, <1>4, <1>5 DEF GInv

\* The inductive invariant, with the types of the variables.
THEOREM GroupsInvariant == Spec => []GInv
<1> QED
  BY InitInv, StepInv, PTL DEF Spec

-----------------------------------------------------------------------------
(* What it says of the system.                                             *)

\* The prompt of a request and what is generated from it fit the model, when the
\* prompt was cut (prompt truncation in add_request and the limits of is_done).
THEOREM TruncatedFitsAlways == Spec => []TruncatedFits
<1>1. GInv => TruncatedFits
  BY LengthFits DEF GInv
<1> QED
  BY <1>1, GroupsInvariant, PTL

\* n_choices, from which set_state(Error) takes one each time, is the number of
\* sequences that have not failed, and so never goes below zero.
THEOREM NChoicesAlwaysCount == Spec => []NChoicesCountsTheRest
<1>1. GInv => NChoicesCountsTheRest
  BY DEF GInv, CountInv
<1> QED
  BY <1>1, GroupsInvariant, PTL

\* What set_state(Error) takes one from is above zero: n_choices, an unsigned
\* number, never wraps, until a sequence that had ended runs on.
THEOREM NChoicesNeverNegative ==
    Spec => [](revived = {} => \A r \in Requests : n_choices[r] \in 0..N[r])
<1>1. ASSUME GInv, revived = {}, NEW r \in Requests PROVE n_choices[r] \in 0..N[r]
  <2>1. /\ IsFiniteSet(SeqsOf(r)) /\ Cardinality(SeqsOf(r)) = N[r] /\ N[r] \in Nat
    BY SeqsOfFinite, SeqsFacts
  <2>2. Cardinality(Errors(r)) \in Nat /\ Cardinality(Errors(r)) <= N[r]
    BY <2>1, FS_Subset, FS_CardinalityType DEF Errors
  <2>3. n_choices[r] = N[r] - Cardinality(Errors(r))
    BY <1>1 DEF GInv, CountInv, NChoicesCountsTheRest, Errors
  <2> QED
    BY <2>1, <2>2, <2>3
<1>2. GInv => (revived = {} => \A r \in Requests : n_choices[r] \in 0..N[r])
  BY <1>1
<1> QED
  BY <1>2, GroupsInvariant, PTL

\* The answer with all choices is that of a request of which nothing runs any
\* more (maybe_send_chat_done_response is called by each sequence that ends).
THEOREM DoneAlwaysMeansOver == Spec => []DoneMeansOver
<1>1. GInv => DoneMeansOver
  BY DEF GInv
<1> QED
  BY <1>1, GroupsInvariant, PTL

\* A request of which nothing runs any more has an answer, whatever mixture of
\* choices, sampling errors and forward errors it had.
THEOREM AlwaysAnsweredWhenOver == Spec => []AnsweredWhenOver
<1>1. GInv => AnsweredWhenOver
  <2> SUFFICES ASSUME GInv, revived = {}, phase = "idle", NEW r \in Requests \ Streaming,
                      prompt[r] # 0, \A s \in SeqsOf(r) : ~Runnable(s), Unanswered(r)
               PROVE  FALSE
    BY DEF AnsweredWhenOver, Unanswered
  <2>1. ~Failing(r)
    BY DEF Failing
  <2>2. /\ \A s \in SeqsOf(r) : st[s] \in {"fresh", "run", "done"}
        /\ \E s \in SeqsOf(r) : st[s] # "done"
    BY <2>1 DEF GInv, UnansweredInv
  <2> QED
    BY <2>2 DEF Runnable
<1> QED
  BY <1>1, GroupsInvariant, PTL

\* Without a failure the chunks of a stream stay below the number of its choices
\* (maybe_send_streaming_response compares the two for equality).
THEOREM StreamAlwaysFlows == Spec => []StreamFlows
<1>1. GInv => StreamFlows
  <2> SUFFICES ASSUME GInv, sampleErrors + forwardErrors = 0, NEW r \in Streaming
               PROVE  Len(chunks[r]) < n_choices[r]
    BY DEF StreamFlows
  <2>1. n_choices = N /\ Len(chunks[r]) < N[r]
    BY DEF GInv, StreamInv
  <2> QED
    BY <2>1
<1> QED
  BY <1>1, GroupsInvariant, PTL

\* The engine's thread (whose sends are unwrapped) ends only when a client left
\* early or, after a failure, when a request had several choices.
THEOREM DeathAlwaysHasACause == Spec => []DeathNeedsACause
<1>1. GInv => DeathNeedsACause
  <2> SUFFICES ASSUME GInv, revived = {}, phase = "dead", early = {}
               PROVE  sampleErrors + forwardErrors > 0 /\ \E r \in Requests : N[r] > 1
    BY DEF DeathNeedsACause
  <2>1. sampleErrors + forwardErrors # 0
    BY DEF GInv, NoFailureInv
  <2>2. \E r \in Requests : N[r] # 1
    BY DEF GInv, SingleInv
  <2>3. sampleErrors \in Nat /\ forwardErrors \in Nat /\ (\A r \in Requests : N[r] \in Nat \ {0})
    BY GroupsAssumption DEF GInv, GTypeOK
  <2>4. sampleErrors + forwardErrors > 0
    BY <2>1, <2>3
  <2>5. \E r \in Requests : N[r] > 1
    BY <2>2, <2>3
  <2> QED
    BY <2>4, <2>5
<1> QED
  BY <1>1, GroupsInvariant, PTL
=============================================================================
