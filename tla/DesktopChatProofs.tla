-------------------------- MODULE DesktopChatProofs --------------------------
(* Proofs about DesktopChat, for every set of projects, every LIMIT and number *)
(* of looks, and any number of sessions, messages, chunks and user steps.      *)
EXTENDS DesktopChat, SequenceTheorems, FiniteSetTheorems, TLAPS

(* Sessions with an identity that has been given; the next one is fresh.       *)
GivenIds == Projects \cup 1..born
Given == [id : GivenIds, pinned : BOOLEAN, messages : Seq(Message)]
GivenStream == [st : {"open", "done", "failed", "stopped"}, here : BOOLEAN, sess : GivenIds,
                at : Projects \cup {NoProject}, len : 0..MaxChunks, raf : BOOLEAN,
                seen : BOOLEAN, meta : Projects \cup {NoProject}]

ChatTyped ==
  /\ projects \subseteq Projects /\ active \in Projects \cup {NoProject}
  /\ stored \in [Projects -> Seq(Given)] /\ kept \in [Projects -> Seq(Given)]
  /\ mounted \in BOOLEAN /\ streaming \in BOOLEAN /\ loaded \in BOOLEAN
  /\ sessions \in Seq(Given) /\ activeId \in GivenIds \cup {NoProject}
  /\ error \in 0..MaxSends
  /\ load \in [pending : BOOLEAN, data : Seq(Given)]
  /\ stream \in Seq(GivenStream)
  /\ Len(stream) <= MaxSends
  /\ poll \in [Sends -> 0..Polls]
  /\ artifact \in [Sends -> BOOLEAN] /\ sidecar \in [Sends -> Seq(Projects \cup {NoProject})]
  /\ born \in 0..MaxSessions /\ ops \in 0..MaxOps
  /\ hasty \subseteq Projects
  /\ load.pending => active \in Projects

(* While the chat is open the active project's sessions are on their way or    *)
(* have landed, and then they are what was last shown and, trimmed, what is    *)
(* stored; what is stored of every other project is what was last shown of it. *)
HistoryInv ==
  /\ ~mounted => ~loaded /\ ~load.pending /\ sessions = <<>>
  /\ active # NoProject /\ ~loaded => sessions = <<>>
  /\ mounted /\ active # NoProject => (loaded <=> ~load.pending)
  /\ load.pending /\ active \notin hasty => load.data \in {kept[active], Newest(kept[active])}
  /\ loaded /\ active # NoProject =>
       kept[active] = sessions /\ stored[active] = Trim(sessions)
  /\ \A p \in Projects \ hasty :
       ~(mounted /\ active = p) => stored[p] \in {kept[p], Newest(kept[p])}

(* The stream that runs in this window is the last one sent from it.           *)
StreamInv ==
  /\ ~mounted => ~streaming /\ \A i \in DOMAIN stream : ~stream[i].here
  /\ \A i, j \in DOMAIN stream :
       stream[i].here /\ stream[i].st = "open" /\ stream[j].here => j <= i
  /\ streaming <=> \E i \in DOMAIN stream : stream[i].here /\ stream[i].st = "open"
  /\ \A i \in DOMAIN stream : error # 0 /\ stream[i].here => i <= error

(* The message of an answer is in its session wherever that is kept, and holds *)
(* the whole of an answer that was seen whole.                                 *)
Asks(s, i) == \E j \in DOMAIN s.messages : s.messages[j].send = i
Holds(s, i, n) ==
  \E j \in DOMAIN s.messages : s.messages[j].send = i /\ s.messages[j].len = n

AnswerOf(i) ==
  /\ stream[i].seen => stream[i].st = "done" /\ stream[i].at # NoProject
  /\ stream[i].at \in Projects \ hasty =>
       \A k \in DOMAIN kept[stream[i].at] :
         LET s == kept[stream[i].at][k]
         IN s.id = stream[i].sess => /\ Asks(s, i)
                                     /\ stream[i].seen => Holds(s, i, stream[i].len)

AnswerInv == \A i \in DOMAIN stream : AnswerOf(i)

ChatIInv == ChatTyped /\ HistoryInv /\ StreamInv /\ AnswerInv

(* Sequences                                                                   *)
LEMMA MapFacts ==
  ASSUME NEW S, NEW T, NEW s \in Seq(S), NEW f \in [DOMAIN s -> T]
  PROVE  f \in Seq(T) /\ Len(f) = Len(s) /\ DOMAIN f = DOMAIN s
<1>1. Len(s) \in Nat /\ DOMAIN s = 1..Len(s)
  BY LenProperties
<1>2. f \in [1..Len(s) -> T]
  BY <1>1
<1>3. f \in Seq(T)
  BY <1>1, <1>2, SeqDef
<1>4. Len(f) = Len(s)
  BY <1>1, <1>2
<1> QED BY <1>1, <1>3, <1>4

LEMMA EmptyDomain ==
  ASSUME NEW S, NEW s \in Seq(S)
  PROVE  DOMAIN s = {} <=> s = <<>>
<1>1. DOMAIN s = 1..Len(s) /\ Len(s) \in Nat /\ (s # <<>> => Len(s) \in Nat \ {0})
  BY LenProperties, EmptySeq
<1>2. s # <<>> => 1 \in DOMAIN s
  BY <1>1
<1> QED BY <1>2

LEMMA TrimFacts ==
  ASSUME NEW S, NEW list \in Seq(S)
  PROVE  /\ Trim(list) \in Seq(S) /\ Trim(list) = Newest(list)
         /\ \A k \in DOMAIN Trim(list) : k \in DOMAIN list /\ Trim(list)[k] = list[k]
<1> DEFINE n == IF Len(list) < LIMIT THEN Len(list) ELSE LIMIT
<1>1. Len(list) \in Nat /\ LIMIT \in Nat /\ DOMAIN list = 1..Len(list)
  BY BoundsAssumption, LenProperties
<1>2. n \in Nat /\ 1..n \subseteq DOMAIN list /\ (1 <= n \/ n = 0)
  BY <1>1
<1>3. \A i \in 1..n : list[i] \in S
  BY <1>2, ElementOfSeq, <1>1
<1> HIDE DEF n
<1>4. /\ SubSeq(list, 1, n) \in Seq(S)
      /\ Len(SubSeq(list, 1, n)) = n
      /\ \A i \in 1..n : SubSeq(list, 1, n)[i] = list[i]
  <2>1. /\ SubSeq(list, 1, n) \in Seq(S)
        /\ Len(SubSeq(list, 1, n)) = IF 1 <= n THEN n - 1 + 1 ELSE 0
        /\ \A i \in 1..n - 1 + 1 : SubSeq(list, 1, n)[i] = list[1 + i - 1]
    BY <1>2, <1>3, SubSeqProperties
  <2> QED BY <1>2, <2>1
<1>5. Trim(list) = SubSeq(list, 1, n)
  BY DEF Trim, n
<1>6. DOMAIN SubSeq(list, 1, n) = 1..n
  BY <1>4, LenProperties
<1>7. SubSeq(list, 1, n) = [k \in 1..n |-> list[k]]
  <2>1. SubSeq(list, 1, n) \in [1..n -> S]
    BY <1>4, LenProperties
  <2> QED BY <1>4, <2>1
<1>8. Newest(list) = [k \in 1..n |-> list[k]]
  BY DEF Newest, n
<1> QED BY <1>2, <1>4, <1>5, <1>6, <1>7, <1>8

LEMMA RemoveFacts ==
  ASSUME NEW S, NEW list \in Seq(S), NEW k \in DOMAIN list
  PROVE  /\ RemoveAt(list, k) \in Seq(S)
         /\ \A j \in DOMAIN RemoveAt(list, k) :
              \E i \in DOMAIN list : RemoveAt(list, k)[j] = list[i]
<1> DEFINE front == SubSeq(list, 1, k - 1)
           back == SubSeq(list, k + 1, Len(list))
           all == {list[i] : i \in DOMAIN list}
<1>1. Len(list) \in Nat /\ DOMAIN list = 1..Len(list) /\ k \in Int
  BY LenProperties
<1>2. front \in Seq(all)
  <2>1. \A i \in 1..k - 1 : i \in DOMAIN list
    BY <1>1
  <2>2. \A i \in 1..k - 1 : list[i] \in all
    BY <2>1
  <2> HIDE DEF all
  <2> QED BY <1>1, <2>2, SubSeqProperties
<1>3. back \in Seq(all)
  <2>1. \A i \in k + 1..Len(list) : i \in DOMAIN list
    BY <1>1
  <2>2. \A i \in k + 1..Len(list) : list[i] \in all
    BY <2>1
  <2>3. k + 1 \in Int /\ Len(list) \in Int
    BY <1>1
  <2> HIDE DEF all
  <2> QED BY <2>2, <2>3, SubSeqProperties
<1>4. RemoveAt(list, k) \in Seq(all)
  <2> HIDE DEF front, back, all
  <2>1. front \o back \in Seq(all)
    BY <1>2, <1>3, ConcatProperties
  <2> QED BY <2>1 DEF RemoveAt, front, back
<1>5. all \subseteq S
  BY <1>1, ElementOfSeq
<1>6. RemoveAt(list, k) \in Seq(S)
  <2> HIDE DEF all
  <2> QED BY <1>4, <1>5, SeqMonotonic
<1>7. \A j \in DOMAIN RemoveAt(list, k) : RemoveAt(list, k)[j] \in all
  <2> HIDE DEF all
  <2> QED BY <1>4, LenProperties, ElementOfSeq
<1> QED BY <1>6, <1>7

(* The lists of sessions that the operations make.                             *)
Pinned == OnSession(activeId, LAMBDA s : [s EXCEPT !.pinned = TRUE])
Question == [send |-> Len(stream) + 1, len |-> 0, has_artifact |-> FALSE]
Asked == OnSession(activeId, LAMBDA s : [s EXCEPT !.messages = Append(@, Question)])
Committed(i) == OnMessage(i, LAMBDA m : [m EXCEPT !.len = stream[i].len])
Marked(i) == OnMessage(i, LAMBDA m : [m EXCEPT !.has_artifact = TRUE])

(* The messages of session s after one of the last two.                        *)
Answered(s, i) == [j \in DOMAIN s.messages |->
                     IF s.messages[j].send = i THEN [s.messages[j] EXCEPT !.len = stream[i].len]
                                               ELSE s.messages[j]]
Flagged(s, i) == [j \in DOMAIN s.messages |->
                    IF s.messages[j].send = i THEN [s.messages[j] EXCEPT !.has_artifact = TRUE]
                                              ELSE s.messages[j]]

LEMMA PinnedFacts ==
  ASSUME ChatTyped
  PROVE  /\ Pinned \in Seq(Given) /\ DOMAIN Pinned = DOMAIN sessions
         /\ \A k \in DOMAIN sessions : /\ Pinned[k].id = sessions[k].id
                                        /\ Pinned[k].messages = sessions[k].messages
<1>1. sessions \in Seq(Given) /\ \A k \in DOMAIN sessions : sessions[k] \in Given
  BY LenProperties, ElementOfSeq DEF ChatTyped
<1>2. Pinned = [k \in DOMAIN sessions |->
                  IF sessions[k].id = activeId THEN [sessions[k] EXCEPT !.pinned = TRUE]
                                               ELSE sessions[k]]
  BY DEF Pinned, OnSession
<1>3. \A s \in Given : /\ [s EXCEPT !.pinned = TRUE] \in Given
                       /\ [s EXCEPT !.pinned = TRUE].id = s.id
                       /\ [s EXCEPT !.pinned = TRUE].messages = s.messages
  BY DEF Given
<1>4. Pinned \in [DOMAIN sessions -> Given]
  BY <1>1, <1>2, <1>3
<1> QED BY <1>1, <1>2, <1>3, <1>4, MapFacts

LEMMA AskedFacts ==
  ASSUME ChatTyped, Len(stream) < MaxSends
  PROVE  /\ Asked \in Seq(Given) /\ DOMAIN Asked = DOMAIN sessions
         /\ \A k \in DOMAIN sessions :
               /\ Asked[k].id = sessions[k].id
               /\ Asked[k].messages = IF sessions[k].id = activeId
                                        THEN Append(sessions[k].messages, Question)
                                        ELSE sessions[k].messages
<1>1. sessions \in Seq(Given) /\ \A k \in DOMAIN sessions : sessions[k] \in Given
  BY LenProperties, ElementOfSeq DEF ChatTyped
<1>2. Asked = [k \in DOMAIN sessions |->
                 IF sessions[k].id = activeId
                   THEN [sessions[k] EXCEPT !.messages = Append(@, Question)] ELSE sessions[k]]
  BY DEF Asked, OnSession
<1>3. Question \in Message
  <2>1. Len(stream) \in Nat
    BY LenProperties DEF ChatTyped
  <2> QED BY <2>1, BoundsAssumption DEF Question, Message, Sends
<1>4. ASSUME NEW s \in Given
      PROVE  LET t == [s EXCEPT !.messages = Append(@, Question)]
             IN t \in Given /\ t.id = s.id /\ t.messages = Append(s.messages, Question)
  <2>1. Append(s.messages, Question) \in Seq(Message)
    BY <1>3 DEF Given
  <2> QED BY <2>1 DEF Given
<1>5. Asked \in [DOMAIN sessions -> Given]
  BY <1>1, <1>2, <1>4
<1> QED BY <1>1, <1>2, <1>4, <1>5, MapFacts

LEMMA AnsweredFacts ==
  ASSUME ChatTyped, NEW i \in DOMAIN stream, NEW s \in Given
  PROVE  /\ Answered(s, i) \in Seq(Message) /\ DOMAIN Answered(s, i) = DOMAIN s.messages
         /\ Flagged(s, i) \in Seq(Message) /\ DOMAIN Flagged(s, i) = DOMAIN s.messages
         /\ \A j \in DOMAIN s.messages :
               /\ Answered(s, i)[j].send = s.messages[j].send
               /\ Answered(s, i)[j].len = IF s.messages[j].send = i THEN stream[i].len
                                                                   ELSE s.messages[j].len
               /\ Flagged(s, i)[j].send = s.messages[j].send
               /\ Flagged(s, i)[j].len = s.messages[j].len
<1>1. s.messages \in Seq(Message) /\ \A j \in DOMAIN s.messages : s.messages[j] \in Message
  BY LenProperties, ElementOfSeq DEF Given
<1>2. stream[i].len \in 0..MaxChunks
  <2>1. stream[i] \in GivenStream
    BY LenProperties, ElementOfSeq DEF ChatTyped
  <2> QED BY <2>1 DEF GivenStream
<1>3. \A m \in Message : /\ [m EXCEPT !.len = stream[i].len] \in Message
                         /\ [m EXCEPT !.len = stream[i].len].send = m.send
                         /\ [m EXCEPT !.len = stream[i].len].len = stream[i].len
                         /\ [m EXCEPT !.has_artifact = TRUE] \in Message
                         /\ [m EXCEPT !.has_artifact = TRUE].send = m.send
                         /\ [m EXCEPT !.has_artifact = TRUE].len = m.len
  BY <1>2 DEF Message
<1>4. Answered(s, i) \in [DOMAIN s.messages -> Message]
  BY <1>1, <1>3 DEF Answered
<1>5. Flagged(s, i) \in [DOMAIN s.messages -> Message]
  BY <1>1, <1>3 DEF Flagged
<1>6. Answered(s, i) \in Seq(Message) /\ Flagged(s, i) \in Seq(Message)
  BY <1>1, <1>4, <1>5, MapFacts
<1> QED BY <1>1, <1>3, <1>4, <1>5, <1>6 DEF Answered, Flagged

LEMMA CommittedFacts ==
  ASSUME ChatTyped, NEW i \in DOMAIN stream
  PROVE  /\ Committed(i) \in Seq(Given) /\ DOMAIN Committed(i) = DOMAIN sessions
         /\ \A k \in DOMAIN sessions :
               /\ Committed(i)[k].id = sessions[k].id
               /\ Committed(i)[k].messages = IF sessions[k].id = stream[i].sess
                                               THEN Answered(sessions[k], i)
                                               ELSE sessions[k].messages
         /\ Marked(i) \in Seq(Given) /\ DOMAIN Marked(i) = DOMAIN sessions
         /\ \A k \in DOMAIN sessions :
               /\ Marked(i)[k].id = sessions[k].id
               /\ Marked(i)[k].messages = IF sessions[k].id = stream[i].sess
                                            THEN Flagged(sessions[k], i)
                                            ELSE sessions[k].messages
<1>1. sessions \in Seq(Given) /\ \A k \in DOMAIN sessions : sessions[k] \in Given
  BY LenProperties, ElementOfSeq DEF ChatTyped
<1>2. /\ Committed(i) = [k \in DOMAIN sessions |->
                           IF sessions[k].id = stream[i].sess
                             THEN [sessions[k] EXCEPT !.messages = Answered(sessions[k], i)]
                             ELSE sessions[k]]
      /\ Marked(i) = [k \in DOMAIN sessions |->
                        IF sessions[k].id = stream[i].sess
                          THEN [sessions[k] EXCEPT !.messages = Flagged(sessions[k], i)]
                          ELSE sessions[k]]
  BY DEF Committed, Marked, OnMessage, OnSession, Answered, Flagged
<1>3. ASSUME NEW s \in Given, NEW ms \in Seq(Message)
      PROVE  LET t == [s EXCEPT !.messages = ms] IN t \in Given /\ t.id = s.id /\ t.messages = ms
  BY DEF Given
<1>4. \A s \in Given : Answered(s, i) \in Seq(Message) /\ Flagged(s, i) \in Seq(Message)
  BY AnsweredFacts
<1>5. Committed(i) \in [DOMAIN sessions -> Given] /\ Marked(i) \in [DOMAIN sessions -> Given]
  BY <1>1, <1>2, <1>3, <1>4
<1>6. Committed(i) \in Seq(Given) /\ Marked(i) \in Seq(Given)
  BY <1>1, <1>5, MapFacts
<1> QED BY <1>1, <1>2, <1>3, <1>4, <1>5, <1>6

(* Types                                                                       *)
LEMMA GivenGrows ==
  ASSUME born \in 0..MaxSessions, born' \in {born, born + 1}
  PROVE  /\ GivenIds \subseteq GivenIds' /\ Given \subseteq Given'
         /\ \A s \in Seq(Given) : s \in Seq(Given')
         /\ GivenStream \subseteq GivenStream'
         /\ \A s \in Seq(GivenStream) : s \in Seq(GivenStream')
<1>1. GivenIds \subseteq GivenIds'
  BY DEF GivenIds
<1>2. Given \subseteq Given' /\ GivenStream \subseteq GivenStream'
  BY <1>1 DEF Given, GivenStream
<1> QED BY <1>1, <1>2, SeqMonotonic

LEMMA FreshSession ==
  ASSUME ChatTyped, born < MaxSessions, born' = born + 1
  PROVE  /\ born' \in 0..MaxSessions /\ born + 1 \in GivenIds'
         /\ newSession \in Given' /\ <<newSession>> \in Seq(Given')
         /\ <<newSession>>[1] = newSession /\ DOMAIN <<newSession>> = {1}
         /\ newSession.id = born + 1
<1>1. born' \in 0..MaxSessions /\ born + 1 \in GivenIds'
  BY BoundsAssumption DEF ChatTyped, GivenIds
<1>2. newSession \in Given' /\ newSession.id = born + 1
  BY <1>1 DEF newSession, Given
<1> QED BY <1>1, <1>2

LEMMA ShowTyped ==
  ASSUME ChatTyped, born' \in {born, born + 1}, NEW list \in Seq(Given'), Show(list)
  PROVE  /\ sessions' \in Seq(Given')
         /\ stored' \in [Projects -> Seq(Given')] /\ kept' \in [Projects -> Seq(Given')]
<1>1. Trim(list) \in Seq(Given')
  BY TrimFacts
<1>2. stored \in [Projects -> Seq(Given')] /\ kept \in [Projects -> Seq(Given')]
  BY GivenGrows DEF ChatTyped
<1> QED BY <1>1, <1>2 DEF Show

LEMMA ActivateTyped ==
  ASSUME ChatTyped, born' = born, NEW p \in Projects \cup {NoProject},
         NEW disk \in [Projects -> Seq(Given)], Activate(p, disk)
  PROVE  /\ active' \in Projects \cup {NoProject}
         /\ stored' \in [Projects -> Seq(Given)]
         /\ load' \in [pending : BOOLEAN, data : Seq(Given)]
         /\ sessions' \in Seq(Given) /\ activeId' \in GivenIds \cup {NoProject}
         /\ loaded' \in BOOLEAN
         /\ load'.pending => load.pending \/ active' \in Projects
<1>1. Trim(sessions) \in Seq(Given)
  BY TrimFacts DEF ChatTyped
<1>2. CASE ~mounted \/ p = NoProject
  BY <1>2 DEF Activate, ChatTyped
<1>3. CASE mounted /\ p # NoProject
  <2>1. stored' \in [Projects -> Seq(Given)]
    BY <1>1, <1>3 DEF Activate
  <2>2. p \in Projects /\ disk[p] \in Seq(Given)
    BY <1>3
  <2>3. \A d \in Seq(Given) :
          [pending |-> TRUE, data |-> d] \in [pending : BOOLEAN, data : Seq(Given)]
    OBVIOUS
  <2>4. load' = [pending |-> TRUE, data |-> disk[p]]
    BY <1>3 DEF Activate
  <2>5. load' \in [pending : BOOLEAN, data : Seq(Given)]
    BY <2>2, <2>3, <2>4
  <2>6. sessions' = <<>> /\ activeId' = NoProject /\ loaded' = FALSE /\ active' = p
    BY <1>3 DEF Activate
  <2>7. <<>> \in Seq(Given) /\ FALSE \in BOOLEAN
    OBVIOUS
  <2> QED BY <2>1, <2>2, <2>5, <2>6, <2>7
<1> QED BY <1>2, <1>3

LEMMA StreamFacts ==
  ASSUME ChatTyped, NEW i \in DOMAIN stream
  PROVE  i \in Sends /\ stream[i] \in GivenStream
<1>1. Len(stream) \in Nat /\ DOMAIN stream = 1..Len(stream) /\ Len(stream) <= MaxSends
  BY LenProperties DEF ChatTyped
<1>2. i \in Sends
  BY <1>1, BoundsAssumption DEF Sends
<1> QED BY <1>1, <1>2, ElementOfSeq DEF ChatTyped

LEMMA StreamUpdate ==
  ASSUME ChatTyped, NEW s \in [DOMAIN stream -> GivenStream], stream' = s
  PROVE  stream' \in Seq(GivenStream) /\ Len(stream') = Len(stream)
         /\ DOMAIN stream' = DOMAIN stream
BY MapFacts DEF ChatTyped

LEMMA TypedInit == Init => ChatTyped
<1> SUFFICES ASSUME Init PROVE ChatTyped
  OBVIOUS
<1>1. \A p \in Projects : <<[id |-> p, pinned |-> TRUE, messages |-> <<>>]>> \in Seq(Given)
  BY DEF Given, GivenIds
<1>2. stored \in [Projects -> Seq(Given)] /\ kept \in [Projects -> Seq(Given)]
  BY <1>1 DEF Init
<1>3. load \in [pending : BOOLEAN, data : Seq(Given)]
  BY DEF Init, NoLoad
<1>4. sessions \in Seq(Given) /\ stream \in Seq(GivenStream) /\ Len(stream) <= MaxSends
  BY BoundsAssumption DEF Init
<1>5. /\ error \in 0..MaxSends /\ poll \in [Sends -> 0..Polls]
      /\ born \in 0..MaxSessions /\ ops \in 0..MaxOps
  BY BoundsAssumption DEF Init
<1>6. artifact \in [Sends -> BOOLEAN] /\ sidecar \in [Sends -> Seq(Projects \cup {NoProject})]
  BY DEF Init
<1>7. projects \subseteq Projects /\ active \in Projects \cup {NoProject}
  BY DEF Init
<1> QED BY <1>2, <1>3, <1>4, <1>5, <1>6, <1>7 DEF Init, ChatTyped

LEMMA LeaveTyped ==
  ASSUME ChatTyped, NEW s \in [DOMAIN stream -> GivenStream], NEW looks \in [Sends -> 0..Polls],
         ops < MaxOps, Leave(s, looks)
  PROVE  ChatTyped'
<1>1. GivenIds' = GivenIds /\ Given' = Given /\ GivenStream' = GivenStream
  BY DEF Leave, GivenIds, Given, GivenStream
<1>2. stream' \in Seq(GivenStream) /\ Len(stream') = Len(stream)
  BY StreamUpdate DEF Leave
<1>3. load' \in [pending : BOOLEAN, data : Seq(Given)] /\ sessions' \in Seq(Given)
  BY DEF Leave, NoLoad
<1>4. hasty' \subseteq Projects /\ ~load'.pending
  BY DEF Leave, ChatTyped, NoLoad
<1>5. /\ mounted' \in BOOLEAN /\ streaming' \in BOOLEAN /\ loaded' \in BOOLEAN
  BY DEF Leave
<1>6. /\ ops' \in 0..MaxOps /\ error' \in 0..MaxSends
      /\ activeId' \in GivenIds \cup {NoProject}
  BY BoundsAssumption DEF Leave, ChatTyped
<1>7. poll' \in [Sends -> 0..Polls]
  BY DEF Leave
<1>8. UNCHANGED <<projects, active, stored, artifact, sidecar, born, kept>>
  BY DEF Leave
<1> QED BY <1>1, <1>2, <1>3, <1>4, <1>5, <1>6, <1>7, <1>8 DEF ChatTyped

LEMMA TypedStep == ChatTyped /\ [Next]_vars => ChatTyped'
<1> SUFFICES ASSUME ChatTyped, [Next]_vars PROVE ChatTyped'
  OBVIOUS
<1> USE ProjectsAssumption, BoundsAssumption
<1>a. born' = born =>
        GivenIds' = GivenIds /\ Given' = Given /\ GivenStream' = GivenStream
  BY DEF GivenIds, Given, GivenStream
<1>b. ops < MaxOps /\ ops' = ops + 1 => ops' \in 0..MaxOps
  BY DEF ChatTyped
<1>1. CASE OpenChat
  <2>1. active # NoProject => active \in Projects /\ stored[active] \in Seq(Given)
    BY DEF ChatTyped
  <2>2. load' \in [pending : BOOLEAN, data : Seq(Given)]
    BY <1>1, <2>1 DEF OpenChat, NoLoad
  <2>3. sessions' \in Seq(Given) /\ ops' \in 0..MaxOps
    BY <1>1, <1>b DEF OpenChat
  <2>4. load'.pending => active' \in Projects
    BY <1>1, <2>1 DEF OpenChat, NoLoad
  <2>5. mounted' \in BOOLEAN /\ streaming' \in BOOLEAN /\ loaded' \in BOOLEAN
    BY <1>1 DEF OpenChat
  <2>6. error' \in 0..MaxSends /\ activeId' \in GivenIds \cup {NoProject}
    BY <1>1 DEF OpenChat
  <2>7. UNCHANGED <<projects, active, stored, tasks, born, kept, hasty>>
    BY <1>1 DEF OpenChat
  <2> QED BY <1>a, <2>2, <2>3, <2>4, <2>5, <2>6, <2>7 DEF ChatTyped, tasks
<1>2. CASE CloseChat
  <2>1. [i \in DOMAIN stream |-> [stream[i] EXCEPT !.here = FALSE]]
          \in [DOMAIN stream -> GivenStream]
    <3>1. \A s \in GivenStream : [s EXCEPT !.here = FALSE] \in GivenStream
      BY DEF GivenStream
    <3> QED BY <3>1, StreamFacts
  <2>2. poll \in [Sends -> 0..Polls]
    BY DEF ChatTyped
  <2> QED BY <1>2, <2>1, <2>2, LeaveTyped DEF CloseChat
<1>3. CASE Quit
  <2> DEFINE closed == [i \in DOMAIN stream |->
                         [stream[i] EXCEPT !.here = FALSE, !.raf = FALSE,
                                           !.st = IF @ = "open" THEN "failed" ELSE @]]
  <2>1. closed \in [DOMAIN stream -> GivenStream]
    <3>1. \A s \in GivenStream :
             [s EXCEPT !.here = FALSE, !.raf = FALSE,
                       !.st = IF @ = "open" THEN "failed" ELSE @] \in GivenStream
      BY DEF GivenStream
    <3> QED BY <3>1, StreamFacts
  <2>2. [i \in Sends |-> 0] \in [Sends -> 0..Polls]
    OBVIOUS
  <2> QED BY <1>3, <2>1, <2>2, LeaveTyped DEF Quit
<1>4. ASSUME NEW p \in Projects, switchProject(p) PROVE ChatTyped'
  <2>1. /\ active' \in Projects \cup {NoProject} /\ stored' \in [Projects -> Seq(Given)]
        /\ load' \in [pending : BOOLEAN, data : Seq(Given)]
        /\ sessions' \in Seq(Given) /\ activeId' \in GivenIds \cup {NoProject}
        /\ loaded' \in BOOLEAN
        /\ load'.pending => load.pending \/ active' \in Projects
    <3>1. Activate(p, stored) /\ born' = born /\ stored \in [Projects -> Seq(Given)]
      BY <1>4 DEF switchProject, ChatTyped
    <3> QED BY <3>1, ActivateTyped
  <2>2. /\ ops' \in 0..MaxOps /\ born' = born /\ ~load.pending
        /\ projects' \subseteq Projects
    BY <1>4, <1>b DEF switchProject, ChatTyped
  <2> QED BY <1>4, <1>a, <2>1, <2>2 DEF switchProject, ChatTyped, tasks
<1>5. ASSUME NEW p \in Projects, deleteProject(p) PROVE ChatTyped'
  <2> DEFINE disk == [stored EXCEPT ![p] = <<>>]
  <2>1. disk \in [Projects -> Seq(Given)] /\ kept' \in [Projects -> Seq(Given)]
    <3>1. <<>> \in Seq(Given) /\ kept' = [kept EXCEPT ![p] = <<>>]
      BY <1>5 DEF deleteProject
    <3>2. stored \in [Projects -> Seq(Given)] /\ kept \in [Projects -> Seq(Given)]
      BY DEF ChatTyped
    <3> QED BY <3>1, <3>2
  <2>2. born' = born /\ ~load.pending /\ projects' \subseteq Projects /\ ops' \in 0..MaxOps
    BY <1>5, <1>b DEF deleteProject, ChatTyped
  <2>3. /\ active' \in Projects \cup {NoProject} /\ stored' \in [Projects -> Seq(Given)]
        /\ load' \in [pending : BOOLEAN, data : Seq(Given)]
        /\ sessions' \in Seq(Given) /\ activeId' \in GivenIds \cup {NoProject}
        /\ loaded' \in BOOLEAN
        /\ load'.pending => load.pending \/ active' \in Projects
    <3>1. CASE active # p
      BY <1>5, <2>1, <2>2, <3>1 DEF deleteProject, ChatTyped
    <3>2. CASE active = p
      <4>1. \E q \in Projects \cup {NoProject} : Activate(q, disk)
        BY <1>5, <2>2, <3>2 DEF deleteProject
      <4> HIDE DEF disk
      <4> QED BY <2>1, <2>2, <4>1, ActivateTyped
    <3> QED BY <3>1, <3>2
  <2> QED BY <1>5, <1>a, <2>1, <2>2, <2>3 DEF deleteProject, ChatTyped, tasks
<1>6. CASE LoadLands
  <2>1. born' \in {born, born + 1} /\ born' \in 0..MaxSessions
    BY <1>6 DEF LoadLands, ChatTyped
  <2>2. sessions' \in Seq(Given') /\ activeId' \in GivenIds' \cup {NoProject}
    <3>1. CASE load.data = <<>>
      BY <1>6, <3>1, FreshSession DEF LoadLands
    <3>2. CASE load.data # <<>>
      <4>1. load.data \in Seq(Given) /\ load.data[1] \in Given
        <5>1. load.data \in Seq(Given) /\ Len(load.data) \in Nat \ {0}
          BY <3>2, EmptySeq DEF ChatTyped
        <5> QED BY <5>1, ElementOfSeq
      <4>2. load.data[1].id \in GivenIds
        BY <4>1 DEF Given
      <4> QED BY <1>6, <1>a, <3>2, <4>1, <4>2 DEF LoadLands
    <3> QED BY <3>1, <3>2
  <2>3. stored' \in [Projects -> Seq(Given')] /\ kept' \in [Projects -> Seq(Given')]
    <3>1. stored \in [Projects -> Seq(Given')] /\ kept \in [Projects -> Seq(Given')]
      BY <2>1, GivenGrows DEF ChatTyped
    <3>2. Trim(sessions') \in Seq(Given')
      BY <2>2, TrimFacts
    <3> QED BY <1>6, <2>2, <3>1, <3>2 DEF LoadLands
  <2>4. stream \in Seq(GivenStream')
    BY <2>1, GivenGrows DEF ChatTyped
  <2>5. load' \in [pending : BOOLEAN, data : Seq(Given')] /\ ~load'.pending
    BY <1>6 DEF LoadLands, NoLoad
  <2> QED BY <1>6, <2>1, <2>2, <2>3, <2>4, <2>5 DEF LoadLands, ChatTyped, tasks
<1>c. load \in [pending : BOOLEAN, data : Seq(Given)] /\ (load.pending => active \in Projects)
  BY DEF ChatTyped
<1>7. CASE createSession
  <2>1. born < MaxSessions /\ born' = born + 1 /\ ops' \in 0..MaxOps
    BY <1>7, <1>b DEF createSession, Click
  <2>2. <<newSession>> \o sessions \in Seq(Given')
    BY <2>1, FreshSession, GivenGrows, ConcatProperties DEF ChatTyped
  <2>3. /\ sessions' \in Seq(Given')
        /\ stored' \in [Projects -> Seq(Given')] /\ kept' \in [Projects -> Seq(Given')]
    BY <1>7, <2>1, <2>2, ShowTyped DEF createSession
  <2>4. activeId' \in GivenIds' \cup {NoProject} /\ born' \in 0..MaxSessions
    BY <1>7, <2>1, FreshSession DEF createSession
  <2>5. stream \in Seq(GivenStream') /\ load \in [pending : BOOLEAN, data : Seq(Given')]
    BY <1>c, <2>1, GivenGrows DEF ChatTyped
  <2> QED BY <1>7, <2>1, <2>3, <2>4, <2>5 DEF createSession, Click, ChatTyped, tasks
<1>8. CASE updateActive
  <2>1. born' = born /\ ops' \in 0..MaxOps /\ Show(Pinned)
    BY <1>8, <1>b DEF updateActive, Click, Pinned
  <2>2. /\ sessions' \in Seq(Given)
        /\ stored' \in [Projects -> Seq(Given)] /\ kept' \in [Projects -> Seq(Given)]
    BY <1>a, <2>1, PinnedFacts, ShowTyped
  <2> QED BY <1>8, <1>a, <2>1, <2>2 DEF updateActive, Click, ChatTyped, tasks
<1>9. ASSUME NEW k \in DOMAIN sessions, selectSession(k) PROVE ChatTyped'
  <2>1. sessions[k].id \in GivenIds
    <3>1. sessions[k] \in Given
      BY LenProperties, ElementOfSeq DEF ChatTyped
    <3> QED BY <3>1 DEF Given
  <2>2. born' = born /\ ops' \in 0..MaxOps /\ error' \in 0..MaxSends
    BY <1>9, <1>b DEF selectSession, Click
  <2> QED BY <1>9, <1>a, <2>1, <2>2 DEF selectSession, Click, ChatTyped, tasks
<1>10. ASSUME NEW k \in DOMAIN sessions, deleteSession(k) PROVE ChatTyped'
  <2> DEFINE remaining == RemoveAt(sessions, k)
  <2>1. remaining \in Seq(Given)
    BY RemoveFacts DEF ChatTyped
  <2>2. ops' \in 0..MaxOps
    BY <1>10, <1>b DEF deleteSession, Click
  <2>3. /\ born' \in {born, born + 1} /\ born' \in 0..MaxSessions
        /\ activeId' \in GivenIds' \cup {NoProject}
        /\ \E list \in Seq(Given') : Show(list)
    <3>1. CASE remaining = <<>>
      BY <1>10, <3>1, FreshSession DEF deleteSession
    <3>2. CASE remaining # <<>>
      <4>1. born' = born /\ Show(remaining)
            /\ activeId' \in {activeId, remaining[1].id}
        BY <1>10, <3>2 DEF deleteSession
      <4> HIDE DEF remaining
      <4>2. remaining[1].id \in GivenIds
        <5>1. remaining[1] \in Given
          BY <2>1, <3>2, EmptySeq, ElementOfSeq
        <5> QED BY <5>1 DEF Given
      <4> QED BY <1>a, <2>1, <4>1, <4>2 DEF ChatTyped
    <3> QED BY <3>1, <3>2
  <2>4. /\ sessions' \in Seq(Given')
        /\ stored' \in [Projects -> Seq(Given')] /\ kept' \in [Projects -> Seq(Given')]
    BY <2>3, ShowTyped
  <2>5. stream \in Seq(GivenStream') /\ load \in [pending : BOOLEAN, data : Seq(Given')]
    BY <1>c, <2>3, GivenGrows DEF ChatTyped
  <2> QED BY <1>10, <2>2, <2>3, <2>4, <2>5 DEF deleteSession, Click, ChatTyped, tasks
<1>11. CASE send
  <2> DEFINE new == [st |-> "open", here |-> TRUE, sess |-> activeId, at |-> active,
                     len |-> 0, raf |-> FALSE, seen |-> FALSE, meta |-> NoProject]
  <2>1. Len(stream) < MaxSends /\ born' = born /\ Show(Asked) /\ stream' = Append(stream, new)
    BY <1>11 DEF send, Rest, Asked, Question
  <2>2. activeId \in GivenIds
    <3>1. PICK k \in DOMAIN sessions : sessions[k].id = activeId
      BY <1>11 DEF send, Shown
    <3>2. sessions[k] \in Given
      BY LenProperties, ElementOfSeq DEF ChatTyped
    <3> QED BY <3>1, <3>2 DEF Given
  <2>3. new \in GivenStream
    BY <2>2 DEF GivenStream, ChatTyped
  <2>4. stream' \in Seq(GivenStream) /\ Len(stream') <= MaxSends
    <3> HIDE DEF new
    <3>1. Len(stream) \in Nat
      BY LenProperties DEF ChatTyped
    <3>2. Len(stream') = Len(stream) + 1 /\ stream' \in Seq(GivenStream)
      BY <2>1, <2>3 DEF ChatTyped
    <3> QED BY <2>1, <3>1, <3>2
  <2>5. /\ sessions' \in Seq(Given)
        /\ stored' \in [Projects -> Seq(Given)] /\ kept' \in [Projects -> Seq(Given)]
    BY <1>a, <2>1, AskedFacts, ShowTyped
  <2>6. streaming' \in BOOLEAN /\ error' \in 0..MaxSends /\ UNCHANGED <<Rest, poll>>
    BY <1>11 DEF send
  <2> HIDE DEF new
  <2> QED BY <1>a, <2>1, <2>4, <2>5, <2>6 DEF Rest, ChatTyped
<1>12. ASSUME NEW i \in DOMAIN stream, Chunk(i) PROVE ChatTyped'
  <2>1. [stream[i] EXCEPT !.len = @ + 1, !.raf = TRUE] \in GivenStream
    <3>1. stream[i] \in GivenStream /\ stream[i].len < MaxChunks
      BY <1>12, StreamFacts DEF Chunk
    <3>2. stream[i].len + 1 \in 0..MaxChunks
      BY <3>1 DEF GivenStream
    <3> QED BY <3>1, <3>2 DEF GivenStream
  <2>2. stream' = [stream EXCEPT ![i] = [stream[i] EXCEPT !.len = @ + 1, !.raf = TRUE]]
    <3>1. stream[i] \in GivenStream
      BY StreamFacts
    <3> QED BY <1>12, <3>1 DEF Chunk, GivenStream
  <2>3. stream' \in Seq(GivenStream) /\ Len(stream') = Len(stream)
    BY <2>1, <2>2 DEF ChatTyped
  <2>4. born' = born
    BY <1>12 DEF Chunk, Rest
  <2> QED BY <1>12, <1>a, <2>3, <2>4 DEF Chunk, Rest, ChatTyped
<1>d. ASSUME NEW i \in DOMAIN stream, commit(i), born' = born
      PROVE  /\ sessions' \in Seq(Given)
             /\ stored' \in [Projects -> Seq(Given)] /\ kept' \in [Projects -> Seq(Given)]
  <2>1. CASE stream[i].here
    <3>1. Show(Committed(i))
      BY <1>d, <2>1 DEF commit, Committed
    <3> QED BY <1>a, <1>d, <3>1, CommittedFacts, ShowTyped
  <2>2. CASE ~stream[i].here
    BY <1>d, <2>2 DEF commit, ChatTyped
  <2> QED BY <2>1, <2>2
<1>13. ASSUME NEW i \in DOMAIN stream, Frame(i) PROVE ChatTyped'
  <2>1. [stream[i] EXCEPT !.raf = FALSE] \in GivenStream
    BY StreamFacts DEF GivenStream
  <2>2. stream' = [stream EXCEPT ![i] = [stream[i] EXCEPT !.raf = FALSE]]
    BY <1>13 DEF Frame
  <2>3. stream' \in Seq(GivenStream) /\ Len(stream') = Len(stream)
    BY <2>1, <2>2 DEF ChatTyped
  <2>4. born' = born /\ commit(i)
    BY <1>13 DEF Frame, Rest
  <2> QED BY <1>13, <1>a, <1>d, <2>3, <2>4 DEF Frame, Rest, ChatTyped
<1>14. ASSUME NEW i \in DOMAIN stream, Done(i) PROVE ChatTyped'
  <2> DEFINE whole == stream[i].seen \/ (stream[i].here /\ loaded /\ active = stream[i].at
                                         /\ active # NoProject)
             s == [stream[i] EXCEPT !.st = "done", !.meta = active, !.seen = whole]
  <2>1. s \in GivenStream
    <3>1. whole \in BOOLEAN
      BY StreamFacts DEF GivenStream
    <3> HIDE DEF whole
    <3>2. stream[i] \in GivenStream /\ active \in Projects \cup {NoProject}
      BY StreamFacts DEF ChatTyped
    <3> QED BY <3>1, <3>2 DEF GivenStream
  <2>2. stream' = [stream EXCEPT ![i] = s]
    BY <1>14, StreamFacts DEF Done, GivenStream
  <2>3. stream' \in Seq(GivenStream) /\ Len(stream') = Len(stream)
    <3> HIDE DEF s
    <3> QED BY <2>1, <2>2 DEF ChatTyped
  <2>4. born' = born /\ commit(i) /\ streaming' \in BOOLEAN
    BY <1>14 DEF Done, Rest, ChatTyped
  <2>5. poll' \in [Sends -> 0..Polls]
    <3>1. i \in Sends /\ poll \in [Sends -> 0..Polls]
      BY StreamFacts DEF ChatTyped
    <3>2. Polls \in Nat
      OBVIOUS
    <3>3. Polls \in 0..Polls
      BY <3>2
    <3> QED BY <1>14, <3>1, <3>3 DEF Done
  <2> HIDE DEF s
  <2> QED BY <1>14, <1>a, <1>d, <2>3, <2>4, <2>5 DEF Done, Rest, ChatTyped
<1>15. ASSUME NEW i \in DOMAIN stream, Fail(i) PROVE ChatTyped'
  <2>1. [stream[i] EXCEPT !.st = "failed"] \in GivenStream
    BY StreamFacts DEF GivenStream
  <2>2. stream' = [stream EXCEPT ![i] = [stream[i] EXCEPT !.st = "failed"]]
    BY <1>15 DEF Fail
  <2>3. stream' \in Seq(GivenStream) /\ Len(stream') = Len(stream)
    BY <2>1, <2>2 DEF ChatTyped
  <2>4. born' = born /\ error' \in 0..MaxSends /\ streaming' \in BOOLEAN
    <3>1. i \in 0..MaxSends
      BY StreamFacts DEF Sends
    <3> QED BY <1>15, <3>1 DEF Fail, Rest, ChatTyped
  <2> QED BY <1>15, <1>a, <2>3, <2>4 DEF Fail, Rest, ChatTyped
<1>16. CASE stop
  <2>1. \A s \in GivenStream : [s EXCEPT !.st = "stopped"] \in GivenStream
    BY DEF GivenStream
  <2>2. stream' \in [DOMAIN stream -> GivenStream]
    BY <1>16, <2>1, StreamFacts DEF stop
  <2>3. stream' \in Seq(GivenStream) /\ Len(stream') = Len(stream)
    BY <2>2, StreamUpdate
  <2>4. born' = born
    BY <1>16 DEF stop, Rest
  <2> QED BY <1>16, <1>a, <2>3, <2>4 DEF stop, Rest, ChatTyped
<1>17. ASSUME NEW i \in DOMAIN stream, Poll(i) PROVE ChatTyped'
  <2>1. poll' \in [Sends -> 0..Polls]
    <3>1. i \in Sends /\ poll \in [Sends -> 0..Polls]
      BY StreamFacts DEF ChatTyped
    <3>2. poll[i] > 0 /\ poll[i] \in 0..Polls
      BY <1>17, <3>1 DEF Poll
    <3>3. poll[i] - 1 \in 0..Polls /\ 0 \in 0..Polls
      BY <3>2
    <3> QED BY <1>17, <3>1, <3>3 DEF Poll
  <2>2. born' = born
    BY <1>17 DEF Poll
  <2>3. /\ sessions' \in Seq(Given) /\ sidecar' \in [Sends -> Seq(Projects \cup {NoProject})]
        /\ stored' \in [Projects -> Seq(Given)] /\ kept' \in [Projects -> Seq(Given)]
    <3>1. CASE artifact[i] /\ stream[i].here
      <4>1. Show(Marked(i)) /\ sidecar' = [sidecar EXCEPT ![i] = <<stream[i].meta>>]
        BY <1>17, <3>1 DEF Poll, Marked
      <4>2. <<stream[i].meta>> \in Seq(Projects \cup {NoProject})
        BY StreamFacts DEF GivenStream
      <4>3. sidecar' \in [Sends -> Seq(Projects \cup {NoProject})]
        BY <4>1, <4>2 DEF ChatTyped
      <4> QED BY <1>a, <2>2, <4>1, <4>3, CommittedFacts, ShowTyped
    <3>2. CASE ~(artifact[i] /\ stream[i].here)
      BY <1>17, <3>2 DEF Poll, ChatTyped
    <3> QED BY <3>1, <3>2
  <2> QED BY <1>17, <1>a, <2>1, <2>2, <2>3 DEF Poll, ChatTyped
<1>18. ASSUME NEW i \in DOMAIN stream, ArtifactArrives(i) PROVE ChatTyped'
  <2>1. artifact' \in [Sends -> BOOLEAN] /\ born' = born
    BY <1>18, StreamFacts DEF ArtifactArrives, ChatTyped
  <2> QED BY <1>18, <1>a, <2>1 DEF ArtifactArrives, ChatTyped, chat
<1>19. CASE UNCHANGED vars
  <2>1. born' = born
    BY <1>19 DEF vars
  <2> QED BY <1>19, <1>a, <2>1 DEF ChatTyped, vars, chat, tasks
<1> QED BY <1>1, <1>2, <1>3, <1>4, <1>5, <1>6, <1>7, <1>8, <1>9, <1>10, <1>11, <1>12, <1>13,
           <1>14, <1>15, <1>16, <1>17, <1>18, <1>19 DEF Next

(* History                                                                     *)
LEMMA HistoryInit == Init => HistoryInv
<1> SUFFICES ASSUME Init PROVE HistoryInv
  OBVIOUS
<1>1. \A p \in Projects : stored[p] = kept[p]
  BY DEF Init
<1> QED BY <1>1 DEF Init, HistoryInv, NoLoad

(* A new list of sessions.                                                     *)
LEMMA HistoryShow ==
  ASSUME ChatTyped, HistoryInv, mounted, UNCHANGED <<active, mounted, loaded, load, hasty>>,
         NEW list, Show(list), active # NoProject /\ ~loaded => list = <<>>
  PROVE  HistoryInv'
<1>1. CASE loaded /\ active # NoProject
  <2>1. /\ stored' = [stored EXCEPT ![active] = Trim(list)]
        /\ kept' = [kept EXCEPT ![active] = list] /\ sessions' = list
    BY <1>1 DEF Show
  <2>2. active \in Projects
    BY <1>1 DEF ChatTyped
  <2>3. kept'[active'] = sessions' /\ stored'[active'] = Trim(sessions')
    BY <2>1, <2>2 DEF ChatTyped
  <2>4. ~load.pending
    BY <1>1 DEF HistoryInv
  <2>5. \A p \in Projects : p # active => stored'[p] = stored[p] /\ kept'[p] = kept[p]
    BY <2>1 DEF ChatTyped
  <2> QED BY <1>1, <2>3, <2>4, <2>5 DEF HistoryInv
<1>2. CASE ~(loaded /\ active # NoProject)
  BY <1>2 DEF Show, HistoryInv
<1> QED BY <1>1, <1>2

(* A change of the active project, to one whose stored sessions are right.     *)
LEMMA HistoryActivate ==
  ASSUME ChatTyped, HistoryInv, ~load.pending, UNCHANGED mounted,
         NEW p \in Projects \cup {NoProject}, p # active,
         NEW disk \in [Projects -> Seq(Given)], Activate(p, disk),
         kept' \in [Projects -> Seq(Given)],
         \A q \in Projects \ hasty' : disk[q] \in {kept'[q], Newest(kept'[q])}
  PROVE  HistoryInv'
<1>1. CASE ~mounted
  <2>1. /\ stored' = disk /\ load' = load /\ sessions' = <<>> /\ ~loaded' /\ ~mounted'
    BY <1>1 DEF Activate, HistoryInv
  <2> QED BY <2>1 DEF HistoryInv
<1>2. CASE mounted /\ p = NoProject
  <2>1. stored' = disk /\ load' = load /\ active' = NoProject /\ mounted'
    BY <1>2 DEF Activate
  <2>2. \A q \in Projects : q # NoProject
    BY ProjectsAssumption
  <2> QED BY <2>1, <2>2 DEF HistoryInv
<1>3. CASE mounted /\ p # NoProject
  <2>1. /\ load' = [pending |-> TRUE, data |-> disk[p]] /\ active' = p /\ mounted'
        /\ sessions' = <<>> /\ loaded' = FALSE
        /\ stored' = IF loaded THEN [disk EXCEPT ![p] = Trim(sessions)] ELSE disk
    BY <1>3 DEF Activate
  <2>2. p \in Projects
    BY <1>3
  <2>3. load'.pending /\ load'.data = disk[p]
    BY <2>1
  <2>4. \A q \in Projects : q # p => stored'[q] = disk[q]
    BY <2>1
  <2> QED BY <2>1, <2>2, <2>3, <2>4 DEF HistoryInv
<1> QED BY <1>1, <1>2, <1>3

LEMMA HistoryLeave ==
  ASSUME ChatTyped, HistoryInv, NEW s, NEW looks, Leave(s, looks)
  PROVE  HistoryInv'
<1>1. /\ ~mounted' /\ ~loaded' /\ ~load'.pending /\ sessions' = <<>>
      /\ UNCHANGED <<active, stored, kept>>
      /\ hasty \subseteq hasty' /\ (load.pending => active \in hasty')
  BY DEF Leave, NoLoad
<1>2. ASSUME NEW p \in Projects \ hasty' PROVE stored[p] \in {kept[p], Newest(kept[p])}
  <2>1. p \notin hasty /\ p # NoProject
    BY <1>1, <1>2, ProjectsAssumption
  <2>2. CASE mounted /\ active = p
    <3>1. ~load.pending
      BY <1>1, <1>2, <2>2
    <3>2. kept[p] = sessions /\ stored[p] = Trim(sessions)
      BY <2>1, <2>2, <3>1 DEF HistoryInv
    <3> QED BY <3>2, TrimFacts DEF ChatTyped
  <2>3. CASE ~(mounted /\ active = p)
    BY <1>2, <2>1, <2>3 DEF HistoryInv
  <2> QED BY <2>2, <2>3
<1> QED BY <1>1, <1>2 DEF HistoryInv

(* What is stored is right of every project, as the chat shows its own.        *)
LEMMA StoredIsKept ==
  ASSUME ChatTyped, HistoryInv, ~load.pending, NEW p \in Projects \ hasty
  PROVE  stored[p] \in {kept[p], Newest(kept[p])}
<1>1. CASE mounted /\ active = p
  <2>1. kept[p] = sessions /\ stored[p] = Trim(sessions)
    BY <1>1, ProjectsAssumption DEF HistoryInv
  <2> QED BY <2>1, TrimFacts DEF ChatTyped
<1>2. CASE ~(mounted /\ active = p)
  BY <1>2 DEF HistoryInv
<1> QED BY <1>1, <1>2

LEMMA HistoryStep == ChatTyped /\ HistoryInv /\ StreamInv /\ [Next]_vars => HistoryInv'
<1> SUFFICES ASSUME ChatTyped, HistoryInv, StreamInv, [Next]_vars PROVE HistoryInv'
  OBVIOUS
<1> USE ProjectsAssumption
<1>a. ~mounted => \A i \in DOMAIN stream : ~stream[i].here
  BY DEF StreamInv
<1>b. ASSUME UNCHANGED <<active, mounted, stored, kept, sessions, loaded, load, hasty>>
      PROVE  HistoryInv'
  BY <1>b DEF HistoryInv
<1>c. DOMAIN sessions = {} <=> sessions = <<>>
  BY EmptyDomain DEF ChatTyped
<1>d. ASSUME UNCHANGED <<active, mounted, loaded, load, hasty>>, mounted,
             NEW list, DOMAIN list = DOMAIN sessions, list \in Seq(Given), Show(list)
      PROVE  HistoryInv'
  <2>1. active # NoProject /\ ~loaded => list = <<>>
    <3>1. DOMAIN list = {} <=> list = <<>>
      BY <1>d, EmptyDomain
    <3> QED BY <1>c, <1>d, <3>1 DEF HistoryInv
  <2> QED BY <1>d, <2>1, HistoryShow
<1>1. CASE OpenChat
  <2>1. CASE active = NoProject
    BY <1>1, <2>1 DEF OpenChat, HistoryInv, NoLoad
  <2>2. CASE active # NoProject
    <3>1. /\ mounted' /\ ~loaded' /\ sessions' = <<>> /\ load'.pending
          /\ load'.data = stored[active] /\ UNCHANGED <<active, stored, kept, hasty>> /\ ~mounted
      BY <1>1, <2>2 DEF OpenChat
    <3>2. active \in Projects
      BY <2>2 DEF ChatTyped
    <3> QED BY <2>2, <3>1, <3>2 DEF HistoryInv
  <2> QED BY <2>1, <2>2
<1>2. CASE CloseChat \/ Quit
  BY <1>2, HistoryLeave DEF CloseChat, Quit
<1>3. ASSUME NEW p \in Projects, switchProject(p) PROVE HistoryInv'
  <2>1. /\ p # active /\ ~load.pending /\ Activate(p, stored)
        /\ UNCHANGED <<mounted, kept, hasty>>
    BY <1>3 DEF switchProject
  <2>2. stored \in [Projects -> Seq(Given)] /\ kept \in [Projects -> Seq(Given)]
    BY DEF ChatTyped
  <2>3. \A q \in Projects \ hasty : stored[q] \in {kept[q], Newest(kept[q])}
    BY <2>1, StoredIsKept
  <2> QED BY <2>1, <2>2, <2>3, HistoryActivate
<1>4. ASSUME NEW p \in Projects, deleteProject(p) PROVE HistoryInv'
  <2> DEFINE disk == [stored EXCEPT ![p] = <<>>]
  <2>1. /\ ~load.pending /\ mounted' = mounted
        /\ kept' = [kept EXCEPT ![p] = <<>>] /\ hasty' = hasty \ {p}
    BY <1>4 DEF deleteProject
  <2>2. /\ disk \in [Projects -> Seq(Given)] /\ kept' \in [Projects -> Seq(Given)]
        /\ disk[p] = <<>> /\ kept'[p] = <<>>
        /\ \A q \in Projects : q # p => disk[q] = stored[q] /\ kept'[q] = kept[q]
    <3>1. <<>> \in Seq(Given)
      OBVIOUS
    <3>2. stored \in [Projects -> Seq(Given)] /\ kept \in [Projects -> Seq(Given)]
      BY DEF ChatTyped
    <3> QED BY <2>1, <3>1, <3>2
  <2>3. \A q \in Projects \ hasty' : disk[q] \in {kept'[q], Newest(kept'[q])}
    <3> HIDE DEF disk
    <3>1. SUFFICES ASSUME NEW q \in Projects \ hasty', q # p
                   PROVE  disk[q] \in {kept'[q], Newest(kept'[q])}
      BY <2>2
    <3>2. q \in Projects \ hasty
      BY <2>1, <3>1
    <3> QED BY <2>1, <2>2, <3>1, <3>2, StoredIsKept
  <2>4. CASE active # p
    <3>1. stored' = disk /\ UNCHANGED <<active, load, sessions, loaded>>
      BY <1>4, <2>4 DEF deleteProject
    <3> HIDE DEF disk
    <3>2. loaded /\ active # NoProject =>
            kept'[active] = sessions /\ stored'[active] = Trim(sessions)
      BY <2>2, <2>4, <3>1 DEF HistoryInv, ChatTyped
    <3> QED BY <2>1, <2>2, <2>3, <3>1, <3>2 DEF HistoryInv
  <2>5. CASE active = p
    <3>1. PICK q \in Projects \cup {NoProject} : q # p /\ Activate(q, disk)
      <4>1. projects' = projects \ {p} /\ projects \subseteq Projects
        BY <1>4 DEF deleteProject, ChatTyped
      <4>2. \E q \in IF projects' = {} THEN {NoProject} ELSE projects' : Activate(q, disk)
        BY <1>4, <2>5 DEF deleteProject
      <4> HIDE DEF disk
      <4> QED BY <4>1, <4>2
    <3> HIDE DEF disk
    <3> QED BY <2>1, <2>2, <2>3, <2>5, <3>1, HistoryActivate
  <2> QED BY <2>4, <2>5
<1>5. CASE LoadLands
  <2>1. /\ load.pending /\ ~load'.pending /\ loaded' /\ UNCHANGED <<active, mounted, hasty>>
        /\ stored' = [stored EXCEPT ![active] = Trim(sessions')]
        /\ kept' = [kept EXCEPT ![active] = sessions']
    BY <1>5 DEF LoadLands, NoLoad
  <2>2. active \in Projects /\ mounted
    BY <2>1 DEF ChatTyped, HistoryInv
  <2>3. /\ kept'[active] = sessions' /\ stored'[active] = Trim(sessions')
        /\ \A q \in Projects : q # active => stored'[q] = stored[q] /\ kept'[q] = kept[q]
    BY <2>1, <2>2 DEF ChatTyped
  <2> QED BY <2>1, <2>2, <2>3 DEF HistoryInv
<1>6. CASE createSession \/ \E k \in DOMAIN sessions : deleteSession(k)
  <2>1. /\ mounted /\ UNCHANGED <<active, mounted, loaded, load, hasty>> /\ sessions # <<>>
        /\ \E list : Show(list)
    BY <1>6, <1>c DEF createSession, deleteSession, Click, Shown
  <2>2. ~(active # NoProject /\ ~loaded)
    BY <2>1 DEF HistoryInv
  <2> QED BY <2>1, <2>2, HistoryShow
<1>7. CASE updateActive
  <2>1. mounted /\ UNCHANGED <<active, mounted, loaded, load, hasty>> /\ Show(Pinned)
    BY <1>7 DEF updateActive, Click, Shown, Pinned
  <2> QED BY <1>d, <2>1, PinnedFacts
<1>8. CASE send
  <2>1. mounted /\ UNCHANGED <<active, mounted, loaded, load, hasty>> /\ Show(Asked)
        /\ Len(stream) < MaxSends
    BY <1>8 DEF send, Rest, Shown, Asked, Question
  <2> QED BY <1>d, <2>1, AskedFacts
<1>9. ASSUME NEW i \in DOMAIN stream, Frame(i) \/ Done(i) PROVE HistoryInv'
  <2>1. UNCHANGED <<active, mounted, loaded, load, hasty>> /\ commit(i)
    BY <1>9 DEF Frame, Done, Rest
  <2>2. CASE stream[i].here
    <3>1. Show(Committed(i)) /\ mounted
      BY <1>a, <2>1, <2>2 DEF commit, Committed
    <3> QED BY <1>d, <2>1, <3>1, CommittedFacts
  <2>3. CASE ~stream[i].here
    BY <1>b, <2>1, <2>3 DEF commit
  <2> QED BY <2>2, <2>3
<1>10. ASSUME NEW i \in DOMAIN stream, Poll(i) PROVE HistoryInv'
  <2>1. UNCHANGED <<active, mounted, loaded, load, hasty>>
    BY <1>10 DEF Poll
  <2>2. CASE artifact[i] /\ stream[i].here
    <3>1. Show(Marked(i)) /\ mounted
      BY <1>a, <1>10, <2>2 DEF Poll, Marked
    <3> QED BY <1>d, <2>1, <3>1, CommittedFacts
  <2>3. CASE ~(artifact[i] /\ stream[i].here)
    BY <1>b, <1>10, <2>1, <2>3 DEF Poll
  <2> QED BY <2>2, <2>3
<1>11. CASE \/ stop \/ UNCHANGED vars
            \/ \E k \in DOMAIN sessions : selectSession(k)
            \/ \E i \in DOMAIN stream : Chunk(i) \/ Fail(i) \/ ArtifactArrives(i)
  BY <1>b, <1>11
  DEF stop, selectSession, Click, Chunk, Fail, ArtifactArrives, Rest, vars, chat, tasks
<1> QED BY <1>1, <1>2, <1>3, <1>4, <1>5, <1>6, <1>7, <1>8, <1>9, <1>10, <1>11 DEF Next

(* Streams                                                                     *)
Runs(i) == stream[i].here /\ stream[i].st = "open"

LEMMA StreamStep == ChatTyped /\ StreamInv /\ [Next]_vars => StreamInv'
<1> SUFFICES ASSUME ChatTyped, StreamInv, [Next]_vars PROVE StreamInv'
  OBVIOUS
<1>a. ASSUME UNCHANGED <<mounted, streaming, stream>>, error' \in {error, 0}
      PROVE  StreamInv'
  BY <1>a DEF StreamInv
<1>b. Len(stream) \in Nat /\ DOMAIN stream = 1..Len(stream)
  BY LenProperties DEF ChatTyped
<1>1. CASE OpenChat
  BY <1>1 DEF OpenChat, StreamInv, tasks
<1>2. CASE CloseChat \/ Quit
  <2>1. /\ ~mounted' /\ ~streaming' /\ error' = 0 /\ DOMAIN stream' = DOMAIN stream
        /\ \A i \in DOMAIN stream : ~stream'[i].here
    <3>1. \A i \in DOMAIN stream : stream[i] \in GivenStream
      BY StreamFacts
    <3>2. CASE CloseChat
      BY <3>1, <3>2 DEF CloseChat, Leave, GivenStream
    <3>3. CASE Quit
      BY <3>1, <3>3 DEF Quit, Leave, GivenStream
    <3> QED BY <1>2, <3>2, <3>3
  <2> QED BY <2>1 DEF StreamInv
<1>3. CASE send
  <2>1. /\ Len(stream') = Len(stream) + 1 /\ DOMAIN stream' = 1..Len(stream) + 1
        /\ \A j \in DOMAIN stream : stream'[j] = stream[j]
        /\ stream'[Len(stream) + 1].here /\ stream'[Len(stream) + 1].st = "open"
        /\ mounted /\ ~streaming /\ mounted' /\ streaming' /\ error' = 0
    <3> DEFINE new == [st |-> "open", here |-> TRUE, sess |-> activeId, at |-> active,
                       len |-> 0, raf |-> FALSE, seen |-> FALSE, meta |-> NoProject]
    <3>1. stream' = Append(stream, new) /\ new.here /\ new.st = "open"
      BY <1>3 DEF send
    <3>2. mounted /\ ~streaming /\ mounted' /\ streaming' /\ error' = 0
      BY <1>3 DEF send, Shown, Rest
    <3> HIDE DEF new
    <3> QED BY <1>b, <3>1, <3>2 DEF ChatTyped
  <2>2. \A j \in DOMAIN stream : ~Runs(j)
    BY <2>1 DEF StreamInv, Runs
  <2>3. \A i, j \in DOMAIN stream' :
          stream'[i].here /\ stream'[i].st = "open" /\ stream'[j].here => j <= i
    <3>1. SUFFICES ASSUME NEW i \in DOMAIN stream', NEW j \in DOMAIN stream',
                          stream'[i].here, stream'[i].st = "open"
                   PROVE  j <= i
      OBVIOUS
    <3>2. i \notin DOMAIN stream
      BY <2>1, <2>2, <3>1 DEF Runs
    <3> QED BY <1>b, <2>1, <3>1, <3>2
  <2>4. Len(stream) + 1 \in DOMAIN stream'
    BY <1>b, <2>1
  <2> QED BY <2>1, <2>3, <2>4 DEF StreamInv
<1>4. ASSUME NEW i \in DOMAIN stream, Chunk(i) \/ Frame(i) PROVE StreamInv'
  <2>1. /\ mounted' = mounted /\ streaming' = streaming /\ error' = error
        /\ DOMAIN stream' = DOMAIN stream
        /\ \A j \in DOMAIN stream : /\ stream'[j].here = stream[j].here
                                    /\ stream'[j].st = stream[j].st
    <3>1. \A j \in DOMAIN stream : stream[j] \in GivenStream
      BY StreamFacts
    <3>2. CASE Chunk(i)
      BY <3>1, <3>2 DEF Chunk, Rest, GivenStream
    <3>3. CASE Frame(i)
      BY <3>1, <3>3 DEF Frame, Rest, GivenStream
    <3> QED BY <1>4, <3>2, <3>3
  <2> QED BY <2>1 DEF StreamInv
<1>5. ASSUME NEW i \in DOMAIN stream, Done(i) \/ Fail(i) PROVE StreamInv'
  <2>1. /\ mounted' = mounted /\ stream[i].st = "open" /\ DOMAIN stream' = DOMAIN stream
        /\ \A j \in DOMAIN stream : /\ stream'[j].here = stream[j].here
                                    /\ j # i => stream'[j].st = stream[j].st
        /\ stream'[i].st # "open"
        /\ streaming' = (streaming /\ ~stream[i].here)
        /\ \/ error' = error
           \/ error' = i /\ stream[i].here
    <3>1. \A j \in DOMAIN stream : stream[j] \in GivenStream
      BY StreamFacts
    <3>2. CASE Done(i)
      BY <3>1, <3>2 DEF Done, Rest, GivenStream
    <3>3. CASE Fail(i)
      <4>1. streaming' = (streaming /\ ~stream[i].here)
        BY <3>3 DEF Fail, ChatTyped
      <4> QED BY <3>1, <3>3, <4>1 DEF Fail, Rest, GivenStream
    <3> QED BY <1>5, <3>2, <3>3
  <2>2. \A j \in DOMAIN stream : /\ Runs(j)' => Runs(j) /\ j # i
                                 /\ Runs(j) /\ j # i => Runs(j)'
    BY <2>1 DEF Runs
  <2>3. \A j, k \in DOMAIN stream : Runs(j) /\ Runs(k) => j = k
    BY <1>b DEF StreamInv, Runs
  <2>4. streaming' <=> \E j \in DOMAIN stream : Runs(j)'
    <3>1. CASE stream[i].here
      BY <2>1, <2>2, <2>3, <3>1 DEF Runs
    <3>2. CASE ~stream[i].here
      BY <2>1, <2>2, <3>2 DEF StreamInv, Runs
    <3> QED BY <3>1, <3>2
  <2>5. \A j \in DOMAIN stream : error' # 0 /\ stream[j].here => j <= error'
    BY <2>1 DEF StreamInv
  <2>6. ~mounted' => ~streaming' /\ \A j \in DOMAIN stream : ~stream'[j].here
    BY <2>1 DEF StreamInv
  <2>7. \A j, k \in DOMAIN stream : Runs(j)' /\ stream'[k].here => k <= j
    BY <2>1, <2>2 DEF StreamInv, Runs
  <2> QED BY <2>1, <2>4, <2>5, <2>6, <2>7 DEF StreamInv, Runs
<1>6. CASE stop
  <2>1. /\ mounted' = mounted /\ ~streaming' /\ error' = error /\ DOMAIN stream' = DOMAIN stream
        /\ \A j \in DOMAIN stream : /\ stream'[j].here = stream[j].here
                                    /\ ~(stream'[j].here /\ stream'[j].st = "open")
    <3>1. \A j \in DOMAIN stream : stream[j] \in GivenStream
      BY StreamFacts
    <3> QED BY <1>6, <3>1 DEF stop, Rest, GivenStream
  <2> QED BY <2>1 DEF StreamInv
<1>7. ASSUME NEW i \in DOMAIN stream, Poll(i) \/ ArtifactArrives(i) PROVE StreamInv'
  BY <1>7, <1>a DEF Poll, ArtifactArrives, chat
<1>8. CASE \/ LoadLands \/ createSession \/ updateActive \/ UNCHANGED vars
           \/ \E p \in Projects : switchProject(p) \/ deleteProject(p)
           \/ \E k \in DOMAIN sessions : selectSession(k) \/ deleteSession(k)
  BY <1>a, <1>8
  DEF LoadLands, createSession, updateActive, switchProject, deleteProject, selectSession,
      deleteSession, Click, vars, chat, tasks
<1> QED BY <1>1, <1>2, <1>3, <1>4, <1>5, <1>6, <1>7, <1>8 DEF Next

LEMMA StreamOne ==
  ASSUME ChatTyped, StreamInv
  PROVE  OneStream
<1> DEFINE running == {i \in DOMAIN stream : stream[i].here /\ stream[i].st = "open"}
<1>1. DOMAIN stream = 1..Len(stream) /\ Len(stream) \in Nat
  BY LenProperties DEF ChatTyped
<1>2. \A i, j \in running : i = j
  BY <1>1 DEF StreamInv
<1>3. Cardinality(running) <= 1
  <2> HIDE DEF running
  <2>1. running = {} \/ \E i : running = {i}
    BY <1>2
  <2>2. CASE running = {}
    <3>1. Cardinality(running) = 0
      BY <2>2, FS_EmptySet
    <3> QED BY <3>1
  <2>3. ASSUME NEW i, running = {i} PROVE Cardinality(running) <= 1
    <3>1. Cardinality(running) = 1
      BY <2>3, FS_Singleton
    <3> QED BY <3>1
  <2> QED BY <2>1, <2>2, <2>3
<1>4. streaming <=> running # {}
  BY DEF StreamInv
<1>5. \A i \in DOMAIN stream : error # 0 /\ stream[i].here => i <= error
  BY DEF StreamInv
<1> QED BY <1>3, <1>4, <1>5 DEF OneStream

(* Answers.  Session t holds of answer i what s held.                          *)
Follows(s, t, i) ==
  /\ t.id = s.id
  /\ Asks(s, i) => Asks(t, i)
  /\ Holds(s, i, stream[i].len) => Holds(t, i, stream[i].len)

KeptFollows(i) ==
  \A p \in Projects \ hasty' : \A k \in DOMAIN kept'[p] :
    kept'[p][k].id = stream[i].sess =>
      p \notin hasty /\ \E l \in DOMAIN kept[p] : Follows(kept[p][l], kept'[p][k], i)

Steady(i) ==
  /\ stream'[i].at = stream[i].at /\ stream'[i].sess = stream[i].sess
  /\ stream'[i].seen = stream[i].seen
  /\ stream[i].seen => stream'[i].st = stream[i].st /\ stream'[i].len = stream[i].len

LEMMA AnswerStays ==
  ASSUME NEW i \in DOMAIN stream, AnswerOf(i), Steady(i), KeptFollows(i)
  PROVE  AnswerOf(i)'
<1>1. stream'[i].seen => stream'[i].st = "done" /\ stream'[i].at # NoProject
  BY DEF AnswerOf, Steady
<1>2. ASSUME stream'[i].at \in Projects \ hasty', NEW k \in DOMAIN kept'[stream'[i].at],
             kept'[stream'[i].at][k].id = stream'[i].sess
      PROVE  LET t == kept'[stream'[i].at][k]
             IN Asks(t, i) /\ (stream'[i].seen => Holds(t, i, stream'[i].len))
  <2> DEFINE p == stream[i].at
             t == kept'[p][k]
  <2>1. /\ stream'[i].at = p /\ p \in Projects \ hasty' /\ k \in DOMAIN kept'[p]
        /\ t.id = stream[i].sess
    BY <1>2 DEF Steady
  <2>2. p \notin hasty /\ \E l \in DOMAIN kept[p] : Follows(kept[p][l], t, i)
    BY <2>1 DEF KeptFollows
  <2>3. PICK l \in DOMAIN kept[p] : Follows(kept[p][l], t, i)
    BY <2>2
  <2>4. kept[p][l].id = stream[i].sess
    BY <2>1, <2>3 DEF Follows
  <2>5. Asks(kept[p][l], i) /\ (stream[i].seen => Holds(kept[p][l], i, stream[i].len))
    BY <2>1, <2>2, <2>4 DEF AnswerOf
  <2>6. Asks(t, i) /\ (stream[i].seen => Holds(t, i, stream[i].len))
    BY <2>3, <2>5 DEF Follows
  <2> QED BY <2>1, <2>6 DEF Steady
<1> QED BY <1>1, <1>2 DEF AnswerOf, Asks, Holds

LEMMA KeptSame ==
  ASSUME NEW i, kept' = kept, hasty \subseteq hasty'
  PROVE  KeptFollows(i)
BY DEF KeptFollows, Follows

LEMMA KeptShown ==
  ASSUME ChatTyped, HistoryInv, NEW i, hasty' = hasty, NEW list, Show(list),
         \A k \in DOMAIN list : list[k].id = stream[i].sess =>
           \E l \in DOMAIN sessions : Follows(sessions[l], list[k], i)
  PROVE  KeptFollows(i)
<1>1. CASE loaded /\ active # NoProject
  <2>1. active \in Projects /\ kept[active] = sessions
    BY <1>1 DEF ChatTyped, HistoryInv
  <2>2. kept'[active] = list /\ \A p \in Projects : p # active => kept'[p] = kept[p]
    BY <1>1, <2>1 DEF Show, ChatTyped
  <2> QED BY <2>1, <2>2 DEF KeptFollows, Follows
<1>2. CASE ~(loaded /\ active # NoProject)
  BY <1>2, KeptSame DEF Show
<1> QED BY <1>1, <1>2

(* What the operations on the list leave of the answers.                       *)
LEMMA ListsFollow ==
  ASSUME ChatTyped, NEW i \in DOMAIN stream, NEW k \in DOMAIN sessions
  PROVE  /\ Follows(sessions[k], Pinned[k], i)
         /\ Len(stream) < MaxSends => Follows(sessions[k], Asked[k], i)
         /\ \A n \in DOMAIN stream : /\ Follows(sessions[k], Committed(n)[k], i)
                                     /\ Follows(sessions[k], Marked(n)[k], i)
<1>1. sessions[k] \in Given /\ sessions[k].messages \in Seq(Message)
  <2>1. sessions[k] \in Given
    BY LenProperties, ElementOfSeq DEF ChatTyped
  <2> QED BY <2>1 DEF Given
<1>2. Follows(sessions[k], Pinned[k], i)
  BY PinnedFacts DEF Follows, Asks, Holds
<1>3. ASSUME Len(stream) < MaxSends PROVE Follows(sessions[k], Asked[k], i)
  <2>1. /\ Asked[k].id = sessions[k].id
        /\ \/ Asked[k].messages = sessions[k].messages
           \/ Asked[k].messages = Append(sessions[k].messages, Question)
    BY <1>3, AskedFacts
  <2>2. \A j \in DOMAIN sessions[k].messages : /\ j \in DOMAIN Asked[k].messages
                                               /\ Asked[k].messages[j] = sessions[k].messages[j]
    BY <1>1, <2>1
  <2> QED BY <2>1, <2>2 DEF Follows, Asks, Holds
<1>4. ASSUME NEW n \in DOMAIN stream
      PROVE  Follows(sessions[k], Committed(n)[k], i) /\ Follows(sessions[k], Marked(n)[k], i)
  <2>1. /\ Committed(n)[k].id = sessions[k].id
        /\ Committed(n)[k].messages \in {Answered(sessions[k], n), sessions[k].messages}
        /\ Marked(n)[k].id = sessions[k].id
        /\ Marked(n)[k].messages \in {Flagged(sessions[k], n), sessions[k].messages}
    BY CommittedFacts
  <2>2. \A j \in DOMAIN sessions[k].messages :
          /\ j \in DOMAIN Committed(n)[k].messages /\ j \in DOMAIN Marked(n)[k].messages
          /\ Committed(n)[k].messages[j].send = sessions[k].messages[j].send
          /\ Marked(n)[k].messages[j].send = sessions[k].messages[j].send
          /\ Marked(n)[k].messages[j].len = sessions[k].messages[j].len
          /\ \/ Committed(n)[k].messages[j].len = sessions[k].messages[j].len
             \/ /\ sessions[k].messages[j].send = n
                /\ Committed(n)[k].messages[j].len = stream[n].len
    BY <1>1, <2>1, AnsweredFacts
  <2> QED BY <2>1, <2>2 DEF Follows, Asks, Holds
<1> QED BY <1>2, <1>3, <1>4

LEMMA FreshId ==
  ASSUME ChatTyped, NEW i \in DOMAIN stream
  PROVE  stream[i].sess # born + 1
<1>1. stream[i].sess \in Projects \cup 1..born /\ born \in Nat
  BY StreamFacts DEF GivenStream, GivenIds, ChatTyped
<1>2. born + 1 \notin Projects
  BY <1>1, ProjectsAssumption
<1> QED BY <1>1, <1>2

LEMMA SteadyStream ==
  ASSUME ChatTyped, AnswerInv, NEW i \in DOMAIN stream,
         \/ stream'[i] = stream[i]
         \/ stream'[i] = [stream[i] EXCEPT !.here = FALSE]
         \/ stream'[i] = [stream[i] EXCEPT !.raf = FALSE]
         \/ stream'[i] = [stream[i] EXCEPT !.here = FALSE, !.raf = FALSE,
                                          !.st = IF @ = "open" THEN "failed" ELSE @]
         \/ /\ stream[i].st = "open"
            /\ \/ stream'[i] = [stream[i] EXCEPT !.len = @ + 1, !.raf = TRUE]
               \/ stream'[i] = [stream[i] EXCEPT !.st = "failed"]
               \/ stream'[i] = [stream[i] EXCEPT !.st = "stopped"]
  PROVE  Steady(i)
<1>1. stream[i] \in GivenStream
  BY StreamFacts
<1>2. stream[i].seen => stream[i].st = "done"
  BY DEF AnswerInv, AnswerOf
<1>3. /\ stream'[i].at = stream[i].at /\ stream'[i].sess = stream[i].sess
      /\ stream'[i].seen = stream[i].seen
      /\ stream[i].st = "done" => stream'[i].st = "done" /\ stream'[i].len = stream[i].len
  BY <1>1 DEF GivenStream
<1> QED BY <1>2, <1>3 DEF Steady

LEMMA AnswersStay ==
  ASSUME AnswerInv, DOMAIN stream' = DOMAIN stream,
         \A i \in DOMAIN stream : Steady(i) /\ KeptFollows(i)
  PROVE  AnswerInv'
BY AnswerStays DEF AnswerInv

(* Steps after which every project shows what it showed.                       *)
LEMMA AnswerQuiet ==
  ASSUME ChatTyped, AnswerInv, DOMAIN stream' = DOMAIN stream,
         \A i \in DOMAIN stream : Steady(i), kept' = kept, hasty \subseteq hasty'
  PROVE  AnswerInv'
BY KeptSame, AnswersStay

(* Steps that show a new list.                                                 *)
LEMMA AnswerShow ==
  ASSUME ChatTyped, HistoryInv, AnswerInv, DOMAIN stream' = DOMAIN stream, hasty' = hasty,
         \A i \in DOMAIN stream : Steady(i),
         NEW list, Show(list),
         \A i \in DOMAIN stream : \A k \in DOMAIN list : list[k].id = stream[i].sess =>
           \E l \in DOMAIN sessions : Follows(sessions[l], list[k], i)
  PROVE  AnswerInv'
BY KeptShown, AnswersStay

LEMMA DoneAnswers ==
  ASSUME ChatTyped, HistoryInv, AnswerInv, NEW n \in DOMAIN stream, Done(n)
  PROVE  AnswerInv'
<1>1. /\ stream[n].st = "open" /\ commit(n) /\ hasty' = hasty /\ UNCHANGED Rest
      /\ DOMAIN stream' = DOMAIN stream
      /\ \A i \in DOMAIN stream : i # n => stream'[i] = stream[i]
      /\ stream'[n].at = stream[n].at /\ stream'[n].sess = stream[n].sess
      /\ stream'[n].st = "done" /\ stream'[n].len = stream[n].len
      /\ stream'[n].seen => stream[n].seen \/ (stream[n].here /\ loaded /\ active = stream[n].at
                                               /\ active # NoProject)
  <2>1. \A j \in DOMAIN stream : stream[j] \in GivenStream
    BY StreamFacts
  <2> QED BY <2>1 DEF Done, Rest, GivenStream
<1>2. ~stream[n].seen
  BY <1>1 DEF AnswerInv, AnswerOf
<1>3. ASSUME NEW i \in DOMAIN stream PROVE KeptFollows(i)
  <2>1. CASE stream[n].here
    <3>1. Show(Committed(n))
      BY <1>1, <2>1 DEF commit, Committed
    <3>2. \A k \in DOMAIN Committed(n) : \E l \in DOMAIN sessions :
            Follows(sessions[l], Committed(n)[k], i)
      BY CommittedFacts, ListsFollow
    <3> QED BY <1>1, <3>1, <3>2, KeptShown
  <2>2. CASE ~stream[n].here
    BY <1>1, <2>2, KeptSame DEF commit
  <2> QED BY <2>1, <2>2
<1>4. ASSUME NEW i \in DOMAIN stream, i # n PROVE AnswerOf(i)'
  <2>1. Steady(i) /\ AnswerOf(i)
    BY <1>1, <1>4 DEF Steady, AnswerInv
  <2> QED BY <1>3, <2>1, AnswerStays
<1>5. AnswerOf(n)'
  <2>1. CASE ~stream'[n].seen
    <3>1. Steady(n) /\ AnswerOf(n)
      <4>1. stream'[n].seen = stream[n].seen
        <5>1. stream'[n].seen \in BOOLEAN /\ stream[n].seen \in BOOLEAN
          BY StreamFacts DEF Done, GivenStream
        <5> QED BY <1>2, <2>1, <5>1
      <4> QED BY <1>1, <1>2, <4>1 DEF Steady, AnswerInv
    <3> QED BY <1>3, <3>1, AnswerStays
  <2>2. CASE stream'[n].seen
    <3>1. stream[n].here /\ loaded /\ active = stream[n].at /\ active # NoProject
      BY <1>1, <1>2, <2>2
    <3>2. active \in Projects /\ kept[active] = sessions /\ Show(Committed(n))
      BY <1>1, <3>1 DEF ChatTyped, HistoryInv, commit, Committed
    <3>3. kept'[active] = Committed(n)
      BY <3>1, <3>2 DEF Show, ChatTyped
    <3>4. ASSUME stream[n].at \in Projects \ hasty, NEW k \in DOMAIN Committed(n),
                 Committed(n)[k].id = stream[n].sess
          PROVE  Asks(Committed(n)[k], n) /\ Holds(Committed(n)[k], n, stream[n].len)
      <4>1. k \in DOMAIN sessions /\ sessions[k].id = stream[n].sess
        BY <3>4, CommittedFacts
      <4>2. Asks(sessions[k], n)
        BY <3>1, <3>2, <3>4, <4>1 DEF AnswerInv, AnswerOf
      <4>3. sessions[k] \in Given
        BY <4>1, LenProperties, ElementOfSeq DEF ChatTyped
      <4>4. Committed(n)[k].messages = Answered(sessions[k], n)
        BY <4>1, CommittedFacts
      <4>5. PICK j \in DOMAIN sessions[k].messages : sessions[k].messages[j].send = n
        BY <4>2 DEF Asks
      <4>6. /\ j \in DOMAIN Answered(sessions[k], n)
            /\ Answered(sessions[k], n)[j].send = n
            /\ Answered(sessions[k], n)[j].len = stream[n].len
        BY <4>3, <4>5, AnsweredFacts
      <4> QED BY <4>4, <4>6 DEF Asks, Holds
    <3> QED BY <1>1, <3>1, <3>3, <3>4 DEF AnswerOf, Asks, Holds
  <2> QED BY <2>1, <2>2
<1> QED BY <1>1, <1>4, <1>5 DEF AnswerInv

LEMMA SendAnswers ==
  ASSUME ChatTyped, HistoryInv, AnswerInv, send
  PROVE  AnswerInv'
<1>0. PICK n : n = Len(stream) + 1
  OBVIOUS
<1> DEFINE new == [st |-> "open", here |-> TRUE, sess |-> activeId, at |-> active,
                   len |-> 0, raf |-> FALSE, seen |-> FALSE, meta |-> NoProject]
<1>1. /\ Len(stream) \in Nat /\ DOMAIN stream = 1..Len(stream) /\ stream \in Seq(GivenStream)
      /\ Len(stream) < MaxSends
  BY LenProperties DEF ChatTyped, send
<1>2. /\ stream' = Append(stream, new) /\ Show(Asked)
      /\ new.sess = activeId /\ new.at = active /\ new.seen = FALSE
      /\ UNCHANGED <<active, loaded, hasty>>
  BY DEF send, Rest, Asked, Question
<1> HIDE DEF new
<1>3. /\ DOMAIN stream' = 1..n /\ stream'[n] = new
      /\ \A i \in DOMAIN stream : stream'[i] = stream[i]
  BY <1>0, <1>1, <1>2
<1>4. ASSUME NEW i \in DOMAIN stream PROVE AnswerOf(i)'
  <2>1. \A k \in DOMAIN Asked : \E l \in DOMAIN sessions : Follows(sessions[l], Asked[k], i)
    BY <1>1, AskedFacts, ListsFollow
  <2>2. KeptFollows(i)
    BY <1>2, <2>1, KeptShown
  <2>3. Steady(i) /\ AnswerOf(i)
    BY <1>3 DEF Steady, AnswerInv
  <2> QED BY <2>2, <2>3, AnswerStays
<1>5. AnswerOf(n)'
  <2>1. ASSUME active \in Projects
        PROVE  kept'[active] = Asked
    <3>1. sessions # <<>> /\ active # NoProject
      BY <2>1, ProjectsAssumption DEF send, Shown
    <3>2. loaded
      BY <3>1 DEF HistoryInv
    <3> QED BY <1>2, <2>1, <3>1, <3>2 DEF Show, ChatTyped
  <2>2. ASSUME NEW k \in DOMAIN Asked, Asked[k].id = activeId PROVE Asks(Asked[k], n)
    <3>1. k \in DOMAIN sessions /\ Asked[k].messages = Append(sessions[k].messages, Question)
      BY <1>1, <2>2, AskedFacts
    <3>2. sessions[k].messages \in Seq(Message)
      <4>1. sessions[k] \in Given
        BY <3>1, LenProperties, ElementOfSeq DEF ChatTyped
      <4> QED BY <4>1 DEF Given
    <3>3. /\ Len(sessions[k].messages) + 1 \in DOMAIN Asked[k].messages
          /\ Asked[k].messages[Len(sessions[k].messages) + 1] = Question
      BY <3>1, <3>2
    <3>4. Question.send = n
      BY <1>0 DEF Question
    <3> QED BY <3>3, <3>4 DEF Asks
  <2>3. stream'[n].at = active /\ stream'[n].sess = activeId /\ ~stream'[n].seen
    BY <1>2, <1>3
  <2>4. active \in Projects => \A k \in DOMAIN kept'[active] :
          kept'[active][k].id = activeId => Asks(kept'[active][k], n)
    BY <2>1, <2>2
  <2> QED BY <2>3, <2>4 DEF AnswerOf, Asks
<1>6. DOMAIN stream' = DOMAIN stream \cup {n}
  BY <1>0, <1>1, <1>3
<1> QED BY <1>4, <1>5, <1>6 DEF AnswerInv

LEMMA AnswerStep ==
  ChatTyped /\ HistoryInv /\ AnswerInv /\ [Next]_vars => AnswerInv'
<1> SUFFICES ASSUME ChatTyped, HistoryInv, AnswerInv, [Next]_vars PROVE AnswerInv'
  OBVIOUS
<1>a. \A i \in DOMAIN stream : stream[i].sess # newSession.id
  BY FreshId DEF newSession
<1>b. stream' = stream => \A i \in DOMAIN stream : Steady(i)
  BY DEF Steady
<1>c. \A k \in DOMAIN sessions : sessions[k] \in Given
  BY LenProperties, ElementOfSeq DEF ChatTyped
<1>d. \A k \in DOMAIN sessions : \A i \in DOMAIN stream : Follows(sessions[k], sessions[k], i)
  BY DEF Follows
<1>1. CASE \/ OpenChat \/ UNCHANGED vars
           \/ \E p \in Projects : switchProject(p)
           \/ \E k \in DOMAIN sessions : selectSession(k)
           \/ \E i \in DOMAIN stream : ArtifactArrives(i)
  <2>1. UNCHANGED <<stream, kept, hasty>>
    BY <1>1 DEF OpenChat, switchProject, selectSession, Click, ArtifactArrives, vars, tasks
  <2> QED BY <1>b, <2>1, AnswerQuiet
<1>2. CASE CloseChat \/ Quit
  <2>1. kept' = kept /\ hasty \subseteq hasty'
    BY <1>2 DEF CloseChat, Quit, Leave
  <2>2. DOMAIN stream' = DOMAIN stream /\ \A i \in DOMAIN stream : Steady(i)
    <3>1. CASE CloseChat
      <4>1. /\ DOMAIN stream' = DOMAIN stream
            /\ \A i \in DOMAIN stream : stream'[i] = [stream[i] EXCEPT !.here = FALSE]
        BY <3>1 DEF CloseChat, Leave
      <4> QED BY <4>1, SteadyStream
    <3>2. CASE Quit
      <4>1. /\ DOMAIN stream' = DOMAIN stream
            /\ \A i \in DOMAIN stream :
                 stream'[i] = [stream[i] EXCEPT !.here = FALSE, !.raf = FALSE,
                                                !.st = IF @ = "open" THEN "failed" ELSE @]
        BY <3>2 DEF Quit, Leave
      <4> QED BY <4>1, SteadyStream
    <3> QED BY <1>2, <3>1, <3>2
  <2> QED BY <2>1, <2>2, AnswerQuiet
<1>3. ASSUME NEW i \in DOMAIN stream, Chunk(i) \/ Fail(i) PROVE AnswerInv'
  <2>1. UNCHANGED <<kept, hasty>> /\ stream[i].st = "open"
    BY <1>3 DEF Chunk, Fail, Rest
  <2>2. DOMAIN stream' = DOMAIN stream /\ \A j \in DOMAIN stream : Steady(j)
    <3>1. CASE Chunk(i)
      <4>1. stream' = [stream EXCEPT ![i] = [stream[i] EXCEPT !.len = @ + 1, !.raf = TRUE]]
        BY <1>a, <3>1 DEF Chunk, GivenStream
      <4>2. /\ DOMAIN stream' = DOMAIN stream
            /\ \A j \in DOMAIN stream :
                 \/ stream'[j] = stream[j]
                 \/ /\ stream[j].st = "open"
                    /\ stream'[j] = [stream[j] EXCEPT !.len = @ + 1, !.raf = TRUE]
        BY <2>1, <4>1
      <4> QED BY <4>2, SteadyStream
    <3>2. CASE Fail(i)
      <4>1. /\ DOMAIN stream' = DOMAIN stream
            /\ \A j \in DOMAIN stream :
                 \/ stream'[j] = stream[j]
                 \/ stream[j].st = "open" /\ stream'[j] = [stream[j] EXCEPT !.st = "failed"]
        BY <2>1, <3>2 DEF Fail
      <4> QED BY <4>1, SteadyStream
    <3> QED BY <1>3, <3>1, <3>2
  <2> QED BY <2>1, <2>2, AnswerQuiet
<1>4. CASE stop
  <2>1. UNCHANGED <<kept, hasty>>
    BY <1>4 DEF stop, Rest
  <2>2. DOMAIN stream' = DOMAIN stream /\ \A j \in DOMAIN stream : Steady(j)
    <3>1. /\ DOMAIN stream' = DOMAIN stream
          /\ \A j \in DOMAIN stream :
               \/ stream'[j] = stream[j]
               \/ stream[j].st = "open" /\ stream'[j] = [stream[j] EXCEPT !.st = "stopped"]
      BY <1>4 DEF stop
    <3> QED BY <3>1, SteadyStream
  <2> QED BY <2>1, <2>2, AnswerQuiet
<1>5. ASSUME NEW p \in Projects, deleteProject(p) PROVE AnswerInv'
  <2>1. stream' = stream /\ kept' = [kept EXCEPT ![p] = <<>>] /\ hasty' = hasty \ {p}
    BY <1>5 DEF deleteProject, tasks
  <2>2. kept'[p] = <<>> /\ \A q \in Projects : q # p => kept'[q] = kept[q]
    BY <2>1 DEF ChatTyped
  <2>3. \A i \in DOMAIN stream : KeptFollows(i)
    BY <2>1, <2>2 DEF KeptFollows, Follows
  <2> QED BY <1>b, <2>1, <2>3, AnswersStay
<1>6. CASE LoadLands
  <2>1. /\ stream' = stream /\ hasty' = hasty /\ load.pending
        /\ kept' = [kept EXCEPT ![active] = sessions']
        /\ \/ load.data = <<>> /\ sessions' = <<newSession>>
           \/ sessions' = load.data
    BY <1>6 DEF LoadLands, tasks
  <2>2. active \in Projects
    BY <2>1 DEF ChatTyped
  <2>3. kept'[active] = sessions' /\ \A q \in Projects : q # active => kept'[q] = kept[q]
    BY <2>1, <2>2 DEF ChatTyped
  <2>4. ASSUME NEW i \in DOMAIN stream, active \notin hasty, NEW k \in DOMAIN sessions',
               sessions'[k].id = stream[i].sess
        PROVE  \E l \in DOMAIN kept[active] : Follows(kept[active][l], sessions'[k], i)
    <3>1. sessions' # <<newSession>>
      <4>1. <<newSession>>[1] = newSession /\ DOMAIN <<newSession>> = {1}
        OBVIOUS
      <4>2. SUFFICES ASSUME sessions' = <<newSession>> PROVE FALSE
        OBVIOUS
      <4>3. sessions'[k] = newSession
        BY <2>4, <4>1, <4>2
      <4> QED BY <1>a, <2>4, <4>3
    <3>2. sessions' \in {kept[active], Newest(kept[active])}
      BY <2>1, <2>4, <3>1 DEF HistoryInv
    <3>3. kept[active] \in Seq(Given)
      BY <2>2 DEF ChatTyped
    <3>4. k \in DOMAIN kept[active] /\ sessions'[k] = kept[active][k]
      <4>1. CASE sessions' = kept[active]
        BY <2>4, <4>1
      <4>2. CASE sessions' = Newest(kept[active])
        <5>1. sessions' = Trim(kept[active])
          BY <3>3, <4>2, TrimFacts
        <5>2. k \in DOMAIN Trim(kept[active])
          BY <2>4, <5>1
        <5> QED BY <3>3, <5>1, <5>2, TrimFacts
      <4> QED BY <3>2, <4>1, <4>2
    <3> QED BY <3>4 DEF Follows
  <2>5. \A i \in DOMAIN stream : KeptFollows(i)
    <3>1. SUFFICES ASSUME NEW i \in DOMAIN stream, NEW p \in Projects \ hasty,
                          NEW k \in DOMAIN kept'[p], kept'[p][k].id = stream[i].sess
                   PROVE  \E l \in DOMAIN kept[p] : Follows(kept[p][l], kept'[p][k], i)
      BY <2>1 DEF KeptFollows
    <3>2. CASE p = active
      BY <2>3, <2>4, <3>1, <3>2
    <3>3. CASE p # active
      BY <2>3, <3>1, <3>3 DEF Follows
    <3> QED BY <3>2, <3>3
  <2> QED BY <1>b, <2>1, <2>5, AnswersStay
<1>7. CASE createSession
  <2> DEFINE list == <<newSession>> \o sessions
  <2>1. Show(list) /\ stream' = stream /\ hasty' = hasty
    BY <1>7 DEF createSession, Click, tasks
  <2>2. ASSUME NEW k \in DOMAIN list 
        PROVE  list[k] = newSession \/ \E l \in DOMAIN sessions : list[k] = sessions[l]
    <3>1. sessions \in Seq(Given) /\ Len(sessions) \in Nat /\ DOMAIN sessions = 1..Len(sessions)
      BY LenProperties DEF ChatTyped
    <3>2. /\ k \in 1..Len(sessions) + 1
          /\ list[k] = IF k <= 1 THEN newSession ELSE sessions[k - 1]
      BY <3>1
    <3>3. k = 1 \/ k - 1 \in DOMAIN sessions
      BY <3>1, <3>2
    <3> QED BY <3>2, <3>3
  <2>3. \A i \in DOMAIN stream : \A k \in DOMAIN list : list[k].id = stream[i].sess =>
          \E l \in DOMAIN sessions : Follows(sessions[l], list[k], i)
    <3> HIDE DEF list
    <3>1. SUFFICES ASSUME NEW i \in DOMAIN stream, NEW k \in DOMAIN list,
                          list[k].id = stream[i].sess
                   PROVE  \E l \in DOMAIN sessions : Follows(sessions[l], list[k], i)
      OBVIOUS
    <3>2. PICK l \in DOMAIN sessions : list[k] = sessions[l]
      BY <1>a, <2>2, <3>1
    <3> QED BY <1>d, <3>2
  <2> HIDE DEF list
  <2> QED BY <1>b, <2>1, <2>3, AnswerShow
<1>8. ASSUME NEW k \in DOMAIN sessions, deleteSession(k) PROVE AnswerInv'
  <2> DEFINE remaining == RemoveAt(sessions, k)
  <2>1. stream' = stream /\ hasty' = hasty
    BY <1>8 DEF deleteSession, Click, tasks
  <2>2. CASE remaining = <<>>
    <3>1. Show(<<newSession>>)
      BY <1>8, <2>2 DEF deleteSession
    <3>2. \A j \in DOMAIN <<newSession>> : <<newSession>>[j] = newSession
      OBVIOUS
    <3>3. \A i \in DOMAIN stream : \A j \in DOMAIN <<newSession>> :
            <<newSession>>[j].id # stream[i].sess
      <4> HIDE DEF newSession
      <4> QED BY <1>a, <3>2
    <3> QED BY <1>b, <2>1, <3>1, <3>3, AnswerShow
  <2>3. CASE remaining # <<>>
    <3>1. Show(remaining)
      BY <1>8, <2>3 DEF deleteSession
    <3>2. \A j \in DOMAIN remaining : \E l \in DOMAIN sessions : remaining[j] = sessions[l]
      BY RemoveFacts DEF ChatTyped
    <3> HIDE DEF remaining
    <3>3. \A i \in DOMAIN stream : \A j \in DOMAIN remaining :
            \E l \in DOMAIN sessions : Follows(sessions[l], remaining[j], i)
      BY <1>d, <3>2
    <3> QED BY <1>b, <2>1, <3>1, <3>3, AnswerShow
  <2> QED BY <2>2, <2>3
<1>9. CASE updateActive
  <2>1. Show(Pinned) /\ stream' = stream /\ hasty' = hasty
    BY <1>9 DEF updateActive, Click, tasks, Pinned
  <2>2. \A i \in DOMAIN stream : \A k \in DOMAIN Pinned :
          \E l \in DOMAIN sessions : Follows(sessions[l], Pinned[k], i)
    BY PinnedFacts, ListsFollow
  <2> QED BY <1>b, <2>1, <2>2, AnswerShow
<1>10. CASE send
  BY <1>10, SendAnswers
<1>11. ASSUME NEW n \in DOMAIN stream, Frame(n) PROVE AnswerInv'
  <2>1. hasty' = hasty /\ commit(n)
    BY <1>11 DEF Frame, Rest
  <2>2. DOMAIN stream' = DOMAIN stream /\ \A j \in DOMAIN stream : Steady(j)
    <3>1. /\ DOMAIN stream' = DOMAIN stream
          /\ \A j \in DOMAIN stream :
               stream'[j] = stream[j] \/ stream'[j] = [stream[j] EXCEPT !.raf = FALSE]
      BY <1>11 DEF Frame
    <3> QED BY <3>1, SteadyStream
  <2>3. CASE stream[n].here
    <3>1. Show(Committed(n))
      BY <2>1, <2>3 DEF commit, Committed
    <3>2. \A i \in DOMAIN stream : \A k \in DOMAIN Committed(n) :
            \E l \in DOMAIN sessions : Follows(sessions[l], Committed(n)[k], i)
      BY CommittedFacts, ListsFollow
    <3> QED BY <2>1, <2>2, <3>1, <3>2, AnswerShow
  <2>4. CASE ~stream[n].here
    BY <2>1, <2>2, <2>4, AnswerQuiet DEF commit
  <2> QED BY <2>3, <2>4
<1>12. ASSUME NEW n \in DOMAIN stream, Done(n) PROVE AnswerInv'
  BY <1>12, DoneAnswers
<1>13. ASSUME NEW n \in DOMAIN stream, Poll(n) PROVE AnswerInv'
  <2>1. hasty' = hasty /\ stream' = stream
    BY <1>13 DEF Poll
  <2>2. CASE artifact[n] /\ stream[n].here
    <3>1. Show(Marked(n))
      BY <1>13, <2>2 DEF Poll, Marked
    <3>2. \A i \in DOMAIN stream : \A k \in DOMAIN Marked(n) :
            \E l \in DOMAIN sessions : Follows(sessions[l], Marked(n)[k], i)
      BY CommittedFacts, ListsFollow
    <3> QED BY <1>b, <2>1, <3>1, <3>2, AnswerShow
  <2>3. CASE ~(artifact[n] /\ stream[n].here)
    BY <1>b, <1>13, <2>1, <2>3, AnswerQuiet DEF Poll
  <2> QED BY <2>2, <2>3
<1> QED BY <1>1, <1>2, <1>3, <1>4, <1>5, <1>6, <1>7, <1>8, <1>9, <1>10, <1>11, <1>12, <1>13
    DEF Next

(* The invariant, and what follows from it.                                    *)
LEMMA ChatInvariant == Spec => []ChatIInv
<1>1. Init => ChatIInv
  <2>1. SUFFICES ASSUME Init PROVE ChatIInv
    OBVIOUS
  <2>2. DOMAIN stream = {} /\ ~mounted /\ ~streaming /\ error = 0
    BY <2>1 DEF Init
  <2>3. StreamInv /\ AnswerInv
    BY <2>2 DEF StreamInv, AnswerInv
  <2> QED BY <2>1, <2>3, TypedInit, HistoryInit DEF ChatIInv
<1>2. ChatIInv /\ [Next]_vars => ChatIInv'
  BY TypedStep, HistoryStep, StreamStep, AnswerStep DEF ChatIInv
<1> QED BY <1>1, <1>2, PTL DEF Spec

LEMMA HistoryView ==
  ASSUME ChatTyped, HistoryInv
  PROVE  HistoryKept
<1>1. SUFFICES ASSUME NEW p \in Projects \ hasty PROVE View(p) \in {kept[p], Newest(kept[p])}
  BY DEF HistoryKept
<1>2. p # NoProject
  BY ProjectsAssumption
<1>3. CASE ~(mounted /\ active = p)
  BY <1>3 DEF View, HistoryInv
<1>4. CASE mounted /\ active = p /\ load.pending
  BY <1>4 DEF View, HistoryInv
<1>5. CASE mounted /\ active = p /\ ~load.pending
  <2>1. loaded /\ active # NoProject
    BY <1>2, <1>5 DEF HistoryInv
  <2>2. kept[p] = sessions
    BY <1>5, <2>1 DEF HistoryInv
  <2> QED BY <1>5, <2>2 DEF View
<1> QED BY <1>3, <1>4, <1>5

LEMMA AnswerView ==
  ASSUME ChatTyped, HistoryInv, AnswerInv
  PROVE  AnswerKept
<1>1. SUFFICES ASSUME NEW i \in DOMAIN stream, stream[i].seen, stream[i].at \notin hasty,
                      NEW s \in Range(View(stream[i].at)), s.id = stream[i].sess
               PROVE  \E m \in Range(s.messages) : m.send = i /\ m.len = stream[i].len
  BY DEF AnswerKept
<1> DEFINE p == stream[i].at
<1>2. p \in Projects \ hasty
  <2>1. p \in Projects \cup {NoProject}
    BY StreamFacts DEF GivenStream
  <2> QED BY <1>1, <2>1 DEF AnswerInv, AnswerOf
<1>3. View(p) \in {kept[p], Newest(kept[p])}
  BY <1>2, HistoryView DEF HistoryKept
<1>4. kept[p] \in Seq(Given)
  BY <1>2 DEF ChatTyped
<1>5. \A k \in DOMAIN View(p) : k \in DOMAIN kept[p] /\ View(p)[k] = kept[p][k]
  <2>1. /\ Trim(kept[p]) = Newest(kept[p])
        /\ \A k \in DOMAIN Trim(kept[p]) : /\ k \in DOMAIN kept[p]
                                           /\ Trim(kept[p])[k] = kept[p][k]
    BY <1>4, TrimFacts
  <2> QED BY <1>3, <2>1
<1>6. PICK k \in DOMAIN View(p) : s = View(p)[k]
  BY <1>1 DEF Range
<1>7. k \in DOMAIN kept[p] /\ kept[p][k] = s
  BY <1>5, <1>6
<1>8. Holds(s, i, stream[i].len)
  BY <1>1, <1>2, <1>7 DEF AnswerInv, AnswerOf
<1> QED BY <1>8 DEF Holds, Range

LEMMA GivenTyped ==
  ASSUME ChatTyped
  PROVE  TypeOK
<1>1. GivenIds \subseteq Ids
  BY BoundsAssumption DEF ChatTyped, GivenIds, Ids
<1>2. Given \subseteq Session /\ GivenStream \subseteq Stream
  BY <1>1 DEF Given, Session, GivenStream, Stream
<1>3. /\ \A s \in Seq(Given) : s \in Seq(Session)
      /\ \A s \in Seq(GivenStream) : s \in Seq(Stream)
  BY <1>2, SeqMonotonic
<1>4. stored \in [Projects -> Seq(Session)] /\ kept \in [Projects -> Seq(Session)]
  BY <1>3 DEF ChatTyped
<1>5. load \in [pending : BOOLEAN, data : Seq(Session)]
  BY <1>3 DEF ChatTyped
<1>6. sessions \in Seq(Session) /\ stream \in Seq(Stream)
  BY <1>3 DEF ChatTyped
<1>7. activeId \in Ids \cup {NoProject}
  BY <1>1 DEF ChatTyped
<1> QED BY <1>4, <1>5, <1>6, <1>7 DEF ChatTyped, TypeOK

(* Whatever is loaded, switched, created, deleted and streamed, each project   *)
(* keeps its own sessions, but for those left before they had landed.          *)
THEOREM ChatKeepsHistory == Spec => []HistoryKept
<1>1. ChatIInv => HistoryKept
  BY HistoryView DEF ChatIInv
<1> QED BY <1>1, ChatInvariant, PTL

(* In every order of callbacks the chat's state holds together: types, whole   *)
(* answers that stay with their messages, and one stream of the open window.   *)
THEOREM ChatHoldsTogether == Spec => []ChatInv
<1>1. ChatIInv => ChatInv
  <2>1. SUFFICES ASSUME ChatIInv PROVE ChatInv
    OBVIOUS
  <2> QED BY <2>1, GivenTyped, AnswerView, StreamOne DEF ChatIInv, ChatInv
<1> QED BY <1>1, ChatInvariant, PTL
=============================================================================
