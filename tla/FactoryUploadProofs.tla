------------------------ MODULE FactoryUploadProofs -------------------------
(***************************************************************************)
(* Proofs about FactoryUpload, for any number of uploads, lines and        *)
(* faults: what the service promises of its requests and verdicts (Inv,    *)
(* VerdictsHold).                                                          *)
(***************************************************************************)
EXTENDS FactoryUpload, TLAPS

(* Where the worker is and what it then knows of the session: a port is    *)
(* open from the heartbeat to the last publish of a round, a payload is    *)
(* only held with an open port, and RESULT is only written for a payload   *)
(* that waits for no answer.                                               *)
WorkerPlaced ==
  /\ publishing \in {"SEARCHING", "WAITING_HANDSHAKE", "READY"}
  /\ pc \in {"heartbeat", "take", "read", "lines", "send", "sent"} => link # "none"
  /\ pc \in {"unless_terminal", "publish"} /\ publishing # "SEARCHING" => link # "none"
  /\ pc = "discover" => link = "none"
  /\ link = "none" => active = None
  /\ pc = "send" => active # None /\ ~waiting

(* Whatever the worker publishes next, it does not write over a verdict:   *)
(* has_terminal_upload_snapshot still holds when publish runs.             *)
PublishesOverNoVerdict == pc = "publish" => ~Terminal(snapshot)

(* An upload is in the queue, unsent in the worker's hands, or among those *)
(* the device was sent: RESULT is written once per upload.                 *)
Queued == IF pending # None THEN 1 ELSE 0
Unsent == IF active # None /\ ~waiting THEN 1 ELSE 0
SentOnce == inbox + Queued + Unsent <= uploads

(* A page that has asked waits for a snapshot of its request.              *)
PageHasSnapshot == upload_requested => snapshot # "UNAVAILABLE"

(* With good handshakes the payload that is queued or held is the newest   *)
(* upload, an answer is awaited only for one that was written, and a       *)
(* verdict is only there when nothing is requested.                        *)
RequestHeld ==
  HandshakesGood =>
    /\ pending # None => pending = uploads
    /\ active # None => active = uploads
    /\ waiting => active # None /\ written = active
    /\ pc = "sent" => active # None
    /\ Terminal(snapshot) => ~request_active

(* What an operation leaves of the whole: the inductive invariant.         *)
UInv ==
  /\ TypeOK /\ WorkerPlaced /\ PublishesOverNoVerdict /\ SentOnce /\ PageHasSnapshot
  /\ OneRequest /\ RequestHeld /\ PageTellsTheVerdict

-----------------------------------------------------------------------------
(* Type correctness, in four parts.                                        *)

ServiceTyped ==
  /\ snapshot \in States /\ unseen \in BOOLEAN
  /\ pending \in Uploads \cup {None}
  /\ request_active \in BOOLEAN /\ stop_requested \in BOOLEAN

WorkerTyped ==
  /\ publishing \in Publishable /\ link \in {"none", "live", "dead"}
  /\ pc \in {"top", "wait", "discover", "unless_terminal", "publish",
             "heartbeat", "take", "read", "lines", "send", "sent", "done"}
  /\ lines \in Seq(Lines)
  /\ handshaked \in BOOLEAN /\ active \in Uploads \cup {None} /\ waiting \in BOOLEAN

PageTyped ==
  /\ upload_requested \in BOOLEAN /\ uploads \in Uploads \cup {None}
  /\ told \in {"nothing", "uploading", "uploaded", "failed"}
  /\ timer \in [Timers -> {"off", "running", "due"}]

DeviceTyped ==
  /\ plugged \in BOOLEAN /\ bad_handshakes \in BOOLEAN
  /\ written \in Uploads \cup {None}
  /\ wire \in Seq(Lines) /\ inbox \in 0..MaxUploads

(* Together they are the type invariant.                                   *)
LEMMA TypeParts ==
  TypeOK <=> ServiceTyped /\ WorkerTyped /\ PageTyped /\ DeviceTyped
BY DEF TypeOK, ServiceTyped, WorkerTyped, PageTyped, DeviceTyped

(* The bounds as numbers.                                                  *)
LEMMA Bounds ==
  /\ MaxUploads \in Nat /\ UploadBound \in Nat /\ UploadBound <= MaxUploads
  /\ Uploads \cup {None} = 0..MaxUploads
  /\ <<>> \in Seq(Lines)
BY UploadBounds DEF UploadBound, Uploads, None

(* What the mutex protects.                                                *)
LEMMA ServiceKeepsType ==
  ASSUME UInv, Next
  PROVE  ServiceTyped'
<1> USE Bounds, TypeParts DEF UInv, ServiceTyped, PageTyped, SetSnapshot,
   FinishRequest, shared, local, page, device, None
<1>1. CASE StartUpload
  BY <1>1 DEF StartUpload, States, Publishable
<1>2. CASE RefreshUpload
  BY <1>2 DEF RefreshUpload
<1>3. CASE ReopenPage
  BY <1>3 DEF ReopenPage
<1>4. CASE Stop
  BY <1>4 DEF Stop
<1>5. CASE DiscoverNothing
  <2>1. CASE pending # None /\ Due("pending")
    BY <1>5, <2>1 DEF DiscoverNothing, States, Publishable
  <2>2. CASE ~(pending # None /\ Due("pending"))
    BY <1>5, <2>2 DEF DiscoverNothing, States, Publishable
  <2> QED
    BY <2>1, <2>2
<1>6. CASE OpenFails
  <2>1. CASE pending # None
    BY <1>6, <2>1 DEF OpenFails, States, Publishable
  <2>2. CASE ~(pending # None)
    BY <1>6, <2>2 DEF OpenFails, States, Publishable
  <2> QED
    BY <2>1, <2>2
<1>7. CASE Publish
  BY <1>7 DEF Publish, WorkerPlaced, States, Publishable
<1>8. CASE HeartbeatLost
  <2>1. CASE active # None \/ waiting
    BY <1>8, <2>1 DEF HeartbeatLost, States, Publishable
  <2>2. CASE ~(active # None \/ waiting)
    BY <1>8, <2>2 DEF HeartbeatLost, States, Publishable
  <2> QED
    BY <2>1, <2>2
<1>9. CASE TakePending
  BY <1>9 DEF TakePending
<1>10. CASE ReadFails
  BY <1>10 DEF ReadFails, States, Publishable
<1>11. CASE HandshakeFails
  BY <1>11 DEF HandshakeFails, States, Publishable
<1>12. ASSUME NEW l \in Lines, ResultAck(l) PROVE ServiceTyped'
  BY <1>12 DEF ResultAck, States, Publishable
<1>13. CASE StartSending
  BY <1>13 DEF StartSending, States, Publishable
<1>14. CASE Sent
  BY <1>14 DEF Sent, States, Publishable
<1>15. CASE SendFails
  BY <1>15 DEF SendFails, States, Publishable
<1>16. CASE Deadlines
  BY <1>16 DEF Deadlines, States, Publishable
<1>17. CASE \/ Top \/ Wait \/ OpenPort \/ UnlessTerminal \/ HeartbeatPasses
          \/ Read \/ Handshake \/ Send \/ Plug \/ Unplug
          \/ (\E t \in Timers : Elapse(t))
          \/ (\E l \in Lines : DeviceHandshake(l))
          \/ (\E l \in Lines : DeviceAnswer(l))
  BY <1>17 DEF Top, Wait, OpenPort, UnlessTerminal, HeartbeatPasses, Read,
     Handshake, Send, Plug, Unplug, Elapse, DeviceHandshake, DeviceAnswer
<1> QED
  BY <1>1, <1>2, <1>3, <1>4, <1>5, <1>6, <1>7, <1>8, <1>9, <1>10, <1>11, <1>12,
     <1>13, <1>14, <1>15, <1>16, <1>17 DEF Next, Worker, Environment

(* What only the worker has.                                               *)
LEMMA WorkerKeepsType ==
  ASSUME UInv, Next
  PROVE  WorkerTyped'
<1> USE Bounds, TypeParts DEF UInv, ServiceTyped, WorkerTyped, Goto,
   CloseSession, NextLine, AfterPublishing, shared, local, page, device, None
<1>1. CASE Top
  BY <1>1 DEF Top
<1>2. CASE Wait
  BY <1>2 DEF Wait
<1>3. CASE DiscoverNothing
  BY <1>3 DEF DiscoverNothing, Publishable
<1>4. CASE OpenFails
  BY <1>4 DEF OpenFails, Publishable
<1>5. CASE OpenPort
  BY <1>5 DEF OpenPort, Publishable
<1>6. CASE UnlessTerminal
  BY <1>6 DEF UnlessTerminal, WorkerPlaced
<1>7. CASE Publish
  BY <1>7 DEF Publish, WorkerPlaced
<1>8. CASE HeartbeatLost
  <2>1. CASE active # None \/ waiting
    BY <1>8, <2>1 DEF HeartbeatLost, Publishable
  <2>2. CASE ~(active # None \/ waiting)
    BY <1>8, <2>2 DEF HeartbeatLost, Publishable
  <2> QED
    BY <2>1, <2>2
<1>9. CASE HeartbeatPasses
  BY <1>9 DEF HeartbeatPasses
<1>10. CASE TakePending
  BY <1>10 DEF TakePending
<1>11. CASE Read
  BY <1>11 DEF Read, DeviceTyped
<1>12. CASE ReadFails
  <2>1. CASE active # None \/ waiting
    BY <1>12, <2>1 DEF ReadFails
  <2>2. CASE ~(active # None \/ waiting)
    BY <1>12, <2>2 DEF ReadFails
  <2> QED
    BY <2>1, <2>2
<1>13. CASE Handshake
  BY <1>13 DEF Handshake, Publishable
<1>14. CASE HandshakeFails
  BY <1>14 DEF HandshakeFails
<1>15. ASSUME NEW l \in Lines, ResultAck(l) PROVE WorkerTyped'
  <2>1. lines' \in Seq(Lines)
    BY <1>15 DEF ResultAck
  <2>2. waiting' \in BOOLEAN /\ active' \in Uploads \cup {None}
    BY <1>15 DEF ResultAck
  <2> QED
    BY <1>15, <2>1, <2>2 DEF ResultAck
<1>16. CASE StartSending
  BY <1>16 DEF StartSending
<1>17. CASE Send
  BY <1>17 DEF Send
<1>18. CASE Sent
  BY <1>18 DEF Sent
<1>19. CASE SendFails
  BY <1>19 DEF SendFails
<1>20. CASE Deadlines
  <2>1. CASE (active # None /\ ~waiting /\ Due("request")) \/ (waiting /\ Due("result"))
    BY <1>20, <2>1 DEF Deadlines
  <2>2. CASE ~((active # None /\ ~waiting /\ Due("request")) \/ (waiting /\ Due("result")))
    BY <1>20, <2>2 DEF Deadlines
  <2> QED
    BY <2>1, <2>2
<1>21. CASE Unplug
  BY <1>21 DEF Unplug
<1>22. CASE \/ StartUpload \/ RefreshUpload \/ ReopenPage \/ Stop \/ Plug
          \/ (\E t \in Timers : Elapse(t))
          \/ (\E l \in Lines : DeviceHandshake(l))
          \/ (\E l \in Lines : DeviceAnswer(l))
  BY <1>22 DEF StartUpload, RefreshUpload, ReopenPage, Stop, Plug, Elapse,
     DeviceHandshake, DeviceAnswer
<1> QED
  BY <1>1, <1>2, <1>3, <1>4, <1>5, <1>6, <1>7, <1>8, <1>9, <1>10, <1>11, <1>12,
     <1>13, <1>14, <1>15, <1>16, <1>17, <1>18, <1>19, <1>20, <1>21, <1>22 DEF Next, Worker, Environment

(* The page and the deadlines.                                             *)
LEMMA PageKeepsType ==
  ASSUME UInv, Next
  PROVE  PageTyped'
<1> USE Bounds, TypeParts DEF UInv, PageTyped, Arm, shared, local, page, device
<1>1. CASE StartUpload
  BY <1>1 DEF StartUpload, Timers
<1>2. CASE RefreshUpload
  BY <1>2 DEF RefreshUpload
<1>3. CASE ReopenPage
  BY <1>3 DEF ReopenPage
<1>4. CASE TakePending
  BY <1>4 DEF TakePending, Timers
<1>5. CASE Send
  BY <1>5 DEF Send, Timers
<1>6. ASSUME NEW t \in Timers, Elapse(t) PROVE PageTyped'
  BY <1>6 DEF Elapse
<1>7. CASE \/ Stop \/ Top \/ Wait \/ DiscoverNothing \/ OpenFails \/ OpenPort
          \/ UnlessTerminal \/ Publish \/ HeartbeatLost \/ HeartbeatPasses
          \/ Read \/ ReadFails \/ Handshake \/ HandshakeFails \/ StartSending
          \/ Sent \/ SendFails \/ Deadlines \/ Plug \/ Unplug
          \/ (\E l \in Lines : ResultAck(l))
          \/ (\E l \in Lines : DeviceHandshake(l))
          \/ (\E l \in Lines : DeviceAnswer(l))
  BY <1>7 DEF Stop, Top, Wait, DiscoverNothing, OpenFails, OpenPort,
     UnlessTerminal, Publish, HeartbeatLost, HeartbeatPasses, Read, ReadFails,
     Handshake, HandshakeFails, StartSending, Sent, SendFails, Deadlines, Plug,
     Unplug, ResultAck, DeviceHandshake, DeviceAnswer
<1> QED
  BY <1>1, <1>2, <1>3, <1>4, <1>5, <1>6, <1>7 DEF Next, Worker, Environment

(* The device and the link: RESULT is sent once per upload.                *)
LEMMA DeviceKeepsType ==
  ASSUME UInv, Next
  PROVE  DeviceTyped'
<1> USE Bounds, TypeParts DEF UInv, PageTyped, DeviceTyped, shared, local,
   page, device
<1>1. CASE Read
  BY <1>1 DEF Read
<1>2. CASE ReadFails
  BY <1>2 DEF ReadFails
<1>3. CASE Send
  BY <1>3 DEF Send, WorkerTyped, Received, WorkerPlaced, SentOnce, Queued,
     Unsent, None
<1>4. CASE SendFails
  BY <1>4 DEF SendFails, WorkerTyped, Received, WorkerPlaced, SentOnce, Queued,
     Unsent, None
<1>5. CASE Plug
  BY <1>5 DEF Plug
<1>6. CASE Unplug
  BY <1>6 DEF Unplug
<1>7. ASSUME NEW l \in Lines, DeviceHandshake(l) PROVE DeviceTyped'
  BY <1>7 DEF DeviceHandshake, DeviceSends
<1>8. ASSUME NEW l \in Lines, DeviceAnswer(l) PROVE DeviceTyped'
  BY <1>8 DEF DeviceAnswer, DeviceSends
<1>9. CASE \/ StartUpload \/ RefreshUpload \/ ReopenPage \/ Stop \/ Top
          \/ Wait \/ DiscoverNothing \/ OpenFails \/ OpenPort
          \/ UnlessTerminal \/ Publish \/ HeartbeatLost \/ HeartbeatPasses
          \/ TakePending \/ Handshake \/ HandshakeFails \/ StartSending
          \/ Sent \/ Deadlines
          \/ (\E l \in Lines : ResultAck(l))
          \/ (\E t \in Timers : Elapse(t))
  BY <1>9 DEF StartUpload, RefreshUpload, ReopenPage, Stop, Top, Wait,
     DiscoverNothing, OpenFails, OpenPort, UnlessTerminal, Publish,
     HeartbeatLost, HeartbeatPasses, TakePending, Handshake, HandshakeFails,
     StartSending, Sent, Deadlines, ResultAck, Elapse
<1> QED
  BY <1>1, <1>2, <1>3, <1>4, <1>5, <1>6, <1>7, <1>8, <1>9 DEF Next, Worker, Environment

-----------------------------------------------------------------------------
(* What the service knows of itself.                                       *)

(* Where the worker is, and that a verdict is not published over: only the *)
(* worker gives one, and it has looked in the step before.                 *)
LEMMA WorkerKeepsPlace ==
  ASSUME UInv, Next
  PROVE  WorkerPlaced' /\ PublishesOverNoVerdict'
<1> USE Bounds DEF UInv, WorkerPlaced, PublishesOverNoVerdict, None, Terminal,
   Goto, CloseSession, NextLine, AfterPublishing, SetSnapshot, FinishRequest,
   shared, local, page, device
<1>1. CASE StartUpload
  BY <1>1 DEF StartUpload
<1>2. CASE Top
  BY <1>2 DEF Top
<1>3. CASE Wait
  BY <1>3 DEF Wait
<1>4. CASE DiscoverNothing
  BY <1>4 DEF DiscoverNothing
<1>5. CASE OpenFails
  BY <1>5 DEF OpenFails
<1>6. CASE OpenPort
  BY <1>6 DEF OpenPort
<1>7. CASE UnlessTerminal
  BY <1>7 DEF UnlessTerminal
<1>8. CASE Publish
  BY <1>8 DEF Publish
<1>9. CASE HeartbeatLost
  BY <1>9 DEF HeartbeatLost
<1>10. CASE HeartbeatPasses
  BY <1>10 DEF HeartbeatPasses
<1>11. CASE TakePending
  BY <1>11 DEF TakePending
<1>12. CASE Read
  BY <1>12 DEF Read
<1>13. CASE ReadFails
  BY <1>13 DEF ReadFails
<1>14. CASE Handshake
  BY <1>14 DEF Handshake
<1>15. CASE HandshakeFails
  BY <1>15 DEF HandshakeFails
<1>16. ASSUME NEW l \in Lines, ResultAck(l) PROVE WorkerPlaced' /\ PublishesOverNoVerdict'
  BY <1>16 DEF ResultAck
<1>17. CASE StartSending
  BY <1>17 DEF StartSending
<1>18. CASE Send
  BY <1>18 DEF Send
<1>19. CASE Sent
  BY <1>19 DEF Sent
<1>20. CASE SendFails
  BY <1>20 DEF SendFails
<1>21. CASE Deadlines
  BY <1>21 DEF Deadlines
<1>22. CASE Unplug
  BY <1>22 DEF Unplug
<1>23. CASE \/ RefreshUpload \/ ReopenPage \/ Stop \/ Plug
          \/ (\E t \in Timers : Elapse(t))
          \/ (\E l \in Lines : DeviceHandshake(l))
          \/ (\E l \in Lines : DeviceAnswer(l))
  BY <1>23 DEF RefreshUpload, ReopenPage, Stop, Plug, Elapse, DeviceHandshake,
     DeviceAnswer
<1> QED
  BY <1>1, <1>2, <1>3, <1>4, <1>5, <1>6, <1>7, <1>8, <1>9, <1>10, <1>11, <1>12,
     <1>13, <1>14, <1>15, <1>16, <1>17, <1>18, <1>19, <1>20, <1>21, <1>22,
     <1>23 DEF Next, Worker, Environment

(* RESULT leaves once per upload.                                          *)
LEMMA UploadSentOnce ==
  ASSUME UInv, ServiceTyped, WorkerTyped, PageTyped, DeviceTyped, Next
  PROVE  SentOnce'
<1> USE Bounds DEF UInv, SentOnce, Queued, Unsent, WorkerPlaced, WorkerTyped,
   ServiceTyped, PageTyped, DeviceTyped, None, CloseSession, shared, local,
   page, device
<1>1. CASE StartUpload
  BY <1>1 DEF StartUpload
<1>2. CASE DiscoverNothing
  BY <1>2 DEF DiscoverNothing
<1>3. CASE OpenFails
  BY <1>3 DEF OpenFails
<1>4. CASE OpenPort
  BY <1>4 DEF OpenPort
<1>5. CASE HeartbeatLost
  BY <1>5 DEF HeartbeatLost
<1>6. CASE TakePending
  BY <1>6 DEF TakePending
<1>7. CASE ReadFails
  BY <1>7 DEF ReadFails
<1>8. CASE HandshakeFails
  BY <1>8 DEF HandshakeFails
<1>9. ASSUME NEW l \in Lines, ResultAck(l) PROVE SentOnce'
  BY <1>9 DEF ResultAck
<1>10. CASE Deadlines
  BY <1>10 DEF Deadlines
<1>11. ASSUME NEW l \in Lines, DeviceAnswer(l) PROVE SentOnce'
  BY <1>11 DEF DeviceAnswer
<1>12. CASE Send
  BY <1>12 DEF Send, Received
<1>13. CASE SendFails
  BY <1>13 DEF SendFails, Received
<1>14. CASE \/ RefreshUpload \/ ReopenPage \/ Stop \/ Top \/ Wait
          \/ UnlessTerminal \/ Publish \/ HeartbeatPasses \/ Read
          \/ Handshake \/ StartSending \/ Sent \/ Plug \/ Unplug
          \/ (\E t \in Timers : Elapse(t))
          \/ (\E l \in Lines : DeviceHandshake(l))
  BY <1>14 DEF RefreshUpload, ReopenPage, Stop, Top, Wait, UnlessTerminal,
     Publish, HeartbeatPasses, Read, Handshake, StartSending, Sent, Plug,
     Unplug, Elapse, DeviceHandshake
<1> QED
  BY <1>1, <1>2, <1>3, <1>4, <1>5, <1>6, <1>7, <1>8, <1>9, <1>10, <1>11, <1>12,
     <1>13, <1>14 DEF Next, Worker, Environment

(* One request at a time, and what is known of it.                         *)
LEMMA RequestStaysHeld ==
  ASSUME UInv, ServiceTyped, WorkerTyped, PageTyped, Next
  PROVE  PageHasSnapshot' /\ OneRequest' /\ RequestHeld'
<1> USE Bounds DEF UInv, WorkerPlaced, WorkerTyped, ServiceTyped, OneRequest,
   RequestHeld, PageHasSnapshot, PublishesOverNoVerdict, HandshakesGood,
   Terminal, None, CloseSession, SetSnapshot, FinishRequest, Goto, NextLine,
   AfterPublishing, shared, local, page, device, PageTyped
<1>1. CASE StartUpload
  BY <1>1 DEF StartUpload
<1>2. CASE RefreshUpload
  BY <1>2 DEF RefreshUpload
<1>3. CASE ReopenPage
  BY <1>3 DEF ReopenPage
<1>4. CASE DiscoverNothing
  BY <1>4 DEF DiscoverNothing
<1>5. CASE OpenFails
  BY <1>5 DEF OpenFails
<1>6. CASE OpenPort
  BY <1>6 DEF OpenPort
<1>7. CASE Publish
  BY <1>7 DEF Publish
<1>8. CASE HeartbeatLost
  BY <1>8 DEF HeartbeatLost
<1>9. CASE TakePending
  BY <1>9 DEF TakePending
<1>10. CASE ReadFails
  BY <1>10 DEF ReadFails
<1>11. CASE HandshakeFails
  BY <1>11 DEF HandshakeFails
<1>12. ASSUME NEW l \in Lines, ResultAck(l) PROVE PageHasSnapshot' /\ OneRequest' /\ RequestHeld'
  BY <1>12 DEF ResultAck
<1>13. CASE StartSending
  BY <1>13 DEF StartSending
<1>14. CASE Send
  BY <1>14 DEF Send
<1>15. CASE Sent
  BY <1>15 DEF Sent
<1>16. CASE SendFails
  BY <1>16 DEF SendFails
<1>17. CASE Deadlines
  BY <1>17 DEF Deadlines
<1>18. CASE \/ Stop \/ Top \/ Wait \/ UnlessTerminal \/ HeartbeatPasses \/ Read
          \/ Handshake \/ Plug \/ Unplug
          \/ (\E t \in Timers : Elapse(t))
          \/ (\E l \in Lines : DeviceHandshake(l))
          \/ (\E l \in Lines : DeviceAnswer(l))
  BY <1>18 DEF Stop, Top, Wait, UnlessTerminal, HeartbeatPasses, Read,
     Handshake, Plug, Unplug, Elapse, DeviceHandshake, DeviceAnswer
<1> QED
  BY <1>1, <1>2, <1>3, <1>4, <1>5, <1>6, <1>7, <1>8, <1>9, <1>10, <1>11, <1>12,
     <1>13, <1>14, <1>15, <1>16, <1>17, <1>18 DEF Next, Worker, Environment

(* What the page tells stays true.                                         *)
LEMMA PageStaysTold ==
  ASSUME UInv, ServiceTyped, WorkerTyped, PageTyped, Next
  PROVE  PageTellsTheVerdict'
<1> USE Bounds DEF UInv, WorkerPlaced, WorkerTyped, ServiceTyped, OneRequest,
   RequestHeld, PageHasSnapshot, PublishesOverNoVerdict, HandshakesGood,
   Terminal, None, CloseSession, SetSnapshot, FinishRequest, Goto, NextLine,
   AfterPublishing, shared, local, page, device, PageTellsTheVerdict
<1>1. CASE StartUpload
  BY <1>1 DEF StartUpload
<1>2. CASE RefreshUpload
  BY <1>2 DEF RefreshUpload
<1>3. CASE ReopenPage
  BY <1>3 DEF ReopenPage
<1>4. CASE DiscoverNothing
  BY <1>4 DEF DiscoverNothing
<1>5. CASE OpenFails
  BY <1>5 DEF OpenFails
<1>6. CASE Publish
  BY <1>6 DEF Publish
<1>7. CASE HeartbeatLost
  BY <1>7 DEF HeartbeatLost
<1>8. CASE ReadFails
  BY <1>8 DEF ReadFails
<1>9. CASE HandshakeFails
  BY <1>9 DEF HandshakeFails
<1>10. ASSUME NEW l \in Lines, ResultAck(l) PROVE PageTellsTheVerdict'
  BY <1>10 DEF ResultAck
<1>11. CASE StartSending
  BY <1>11 DEF StartSending
<1>12. CASE Sent
  BY <1>12 DEF Sent
<1>13. CASE SendFails
  BY <1>13 DEF SendFails
<1>14. CASE Deadlines
  BY <1>14 DEF Deadlines
<1>15. CASE \/ Stop \/ Top \/ Wait \/ OpenPort \/ UnlessTerminal
          \/ HeartbeatPasses \/ TakePending \/ Read \/ Handshake \/ Send
          \/ Plug \/ Unplug
          \/ (\E t \in Timers : Elapse(t))
          \/ (\E l \in Lines : DeviceHandshake(l))
          \/ (\E l \in Lines : DeviceAnswer(l))
  BY <1>15 DEF Stop, Top, Wait, OpenPort, UnlessTerminal, HeartbeatPasses,
     TakePending, Read, Handshake, Send, Plug, Unplug, Elapse, DeviceHandshake,
     DeviceAnswer
<1> QED
  BY <1>1, <1>2, <1>3, <1>4, <1>5, <1>6, <1>7, <1>8, <1>9, <1>10, <1>11, <1>12,
     <1>13, <1>14, <1>15 DEF Next, Worker, Environment

-----------------------------------------------------------------------------
(* The theorems.                                                           *)

(* The service starts with nothing to send.                                *)
LEMMA InitEstablishes ==
  Init => UInv
<1> SUFFICES ASSUME Init PROVE UInv
  OBVIOUS
<1>1. ServiceTyped /\ PageTyped
  BY Bounds DEF Init, ServiceTyped, PageTyped, States, None
<1>2. WorkerTyped /\ DeviceTyped
  BY Bounds DEF Init, WorkerTyped, DeviceTyped, Publishable, None
<1>3. TypeOK
  BY <1>1, <1>2, TypeParts
<1>4. WorkerPlaced /\ PublishesOverNoVerdict /\ SentOnce /\ PageHasSnapshot
  BY DEF Init, WorkerPlaced, PublishesOverNoVerdict, SentOnce, Queued, Unsent,
     PageHasSnapshot, None
<1>5. OneRequest /\ RequestHeld /\ PageTellsTheVerdict
  BY DEF Init, OneRequest, RequestHeld, PageTellsTheVerdict, Terminal, None
<1> QED
  BY <1>3, <1>4, <1>5 DEF UInv

(* Every step keeps it.                                                    *)
LEMMA NextPreserves ==
  UInv /\ [Next]_vars => UInv'
<1> SUFFICES ASSUME UInv, [Next]_vars PROVE UInv'
  OBVIOUS
<1>1. ServiceTyped /\ WorkerTyped /\ PageTyped /\ DeviceTyped
  BY TypeParts DEF UInv
<1>2. CASE Next
  <2>1. ServiceTyped' /\ WorkerTyped' /\ PageTyped' /\ DeviceTyped'
    BY <1>2, ServiceKeepsType, WorkerKeepsType, PageKeepsType, DeviceKeepsType
  <2>2. TypeOK'
    BY <2>1 DEF TypeOK, ServiceTyped, WorkerTyped, PageTyped, DeviceTyped
  <2> QED
    BY <1>1, <1>2, <2>2, WorkerKeepsPlace, UploadSentOnce, RequestStaysHeld,
       PageStaysTold DEF UInv
<1>3. CASE UNCHANGED vars
  BY <1>3 DEF vars, shared, local, page, device, UInv, TypeOK, WorkerPlaced,
     PublishesOverNoVerdict, SentOnce, Queued, Unsent, PageHasSnapshot, OneRequest,
     RequestHeld, PageTellsTheVerdict, HandshakesGood
<1> QED
  BY <1>2, <1>3

(* The service never holds two requests, and the page never tells a        *)
(* verdict of another upload or one that was taken back: Inv.              *)
THEOREM UploadThm == Spec => []Inv
<1>1. UInv => Inv
  BY DEF UInv, Inv
<1> QED
  BY <1>1, InitEstablishes, NextPreserves, PTL DEF Spec

(* A snapshot with a verdict is only replaced by that of the next upload.  *)
LEMMA VerdictIsFinal ==
  ASSUME UInv, Next
  PROVE  HandshakesGood /\ Terminal(snapshot) => snapshot' \in {snapshot, "QUEUED"}
<1> USE DEF UInv, WorkerPlaced, OneRequest, RequestHeld,
   PublishesOverNoVerdict, HandshakesGood, Terminal, None, CloseSession,
   SetSnapshot, FinishRequest, shared, local, page, device
<1>1. CASE StartUpload
  BY <1>1 DEF StartUpload
<1>2. CASE DiscoverNothing
  BY <1>2 DEF DiscoverNothing
<1>3. CASE OpenFails
  BY <1>3 DEF OpenFails
<1>4. CASE Publish
  BY <1>4 DEF Publish
<1>5. CASE HeartbeatLost
  BY <1>5 DEF HeartbeatLost
<1>6. CASE ReadFails
  BY <1>6 DEF ReadFails
<1>7. CASE HandshakeFails
  BY <1>7 DEF HandshakeFails
<1>8. ASSUME NEW l \in Lines, ResultAck(l) PROVE HandshakesGood /\ Terminal(snapshot) => snapshot' \in {snapshot, "QUEUED"}
  BY <1>8 DEF ResultAck
<1>9. CASE StartSending
  BY <1>9 DEF StartSending
<1>10. CASE Sent
  BY <1>10 DEF Sent
<1>11. CASE SendFails
  BY <1>11 DEF SendFails
<1>12. CASE Deadlines
  BY <1>12 DEF Deadlines
<1>13. CASE \/ RefreshUpload \/ ReopenPage \/ Stop \/ Top \/ Wait \/ OpenPort
          \/ UnlessTerminal \/ HeartbeatPasses \/ TakePending \/ Read
          \/ Handshake \/ Send \/ Plug \/ Unplug
          \/ (\E t \in Timers : Elapse(t))
          \/ (\E l \in Lines : DeviceHandshake(l))
          \/ (\E l \in Lines : DeviceAnswer(l))
  BY <1>13 DEF RefreshUpload, ReopenPage, Stop, Top, Wait, OpenPort,
     UnlessTerminal, HeartbeatPasses, TakePending, Read, Handshake, Send, Plug,
     Unplug, Elapse, DeviceHandshake, DeviceAnswer
<1> QED
  BY <1>1, <1>2, <1>3, <1>4, <1>5, <1>6, <1>7, <1>8, <1>9, <1>10, <1>11, <1>12,
     <1>13 DEF Next, Worker, Environment

(* Only an answer that is awaited gives success, and it is awaited for the *)
(* upload that was written last.                                           *)
LEMMA SuccessIsOfTheUpload ==
  ASSUME UInv, Next
  PROVE  HandshakesGood /\ Success => written = uploads
<1> USE DEF UInv, WorkerPlaced, RequestHeld, HandshakesGood, Success,
   SetSnapshot, FinishRequest, shared, local, page, device
<1>1. CASE StartUpload
  BY <1>1 DEF StartUpload
<1>2. CASE DiscoverNothing
  BY <1>2 DEF DiscoverNothing
<1>3. CASE OpenFails
  BY <1>3 DEF OpenFails
<1>4. CASE Publish
  BY <1>4 DEF Publish
<1>5. CASE HeartbeatLost
  BY <1>5 DEF HeartbeatLost
<1>6. CASE ReadFails
  BY <1>6 DEF ReadFails
<1>7. CASE HandshakeFails
  BY <1>7 DEF HandshakeFails
<1>8. ASSUME NEW l \in Lines, ResultAck(l) PROVE HandshakesGood /\ Success => written = uploads
  BY <1>8 DEF ResultAck
<1>9. CASE StartSending
  BY <1>9 DEF StartSending
<1>10. CASE Sent
  BY <1>10 DEF Sent
<1>11. CASE SendFails
  BY <1>11 DEF SendFails
<1>12. CASE Deadlines
  BY <1>12 DEF Deadlines
<1>13. CASE \/ RefreshUpload \/ ReopenPage \/ Stop \/ Top \/ Wait \/ OpenPort
          \/ UnlessTerminal \/ HeartbeatPasses \/ TakePending \/ Read
          \/ Handshake \/ Send \/ Plug \/ Unplug
          \/ (\E t \in Timers : Elapse(t))
          \/ (\E l \in Lines : DeviceHandshake(l))
          \/ (\E l \in Lines : DeviceAnswer(l))
  BY <1>13 DEF RefreshUpload, ReopenPage, Stop, Top, Wait, OpenPort,
     UnlessTerminal, HeartbeatPasses, TakePending, Read, Handshake, Send, Plug,
     Unplug, Elapse, DeviceHandshake, DeviceAnswer
<1> QED
  BY <1>1, <1>2, <1>3, <1>4, <1>5, <1>6, <1>7, <1>8, <1>9, <1>10, <1>11, <1>12,
     <1>13 DEF Next, Worker, Environment

(* A verdict stays until the next upload, and success is only told of an   *)
(* upload that was written to the device: VerdictsHold.                    *)
THEOREM VerdictsThm == Spec => VerdictsHold
<1>1. UInv /\ [Next]_vars =>
        [HandshakesGood /\ Terminal(snapshot) => snapshot' \in {snapshot, "QUEUED"}]_snapshot
  BY VerdictIsFinal DEF vars, shared
<1>2. UInv /\ [Next]_vars => [HandshakesGood /\ Success => written = uploads]_snapshot
  BY SuccessIsOfTheUpload DEF vars, shared
<1> QED
  BY <1>1, <1>2, InitEstablishes, NextPreserves, PTL
  DEF Spec, VerdictsHold, VerdictSticky, GoodSuccessWasSent

=============================================================================
