--------------------------- MODULE SessionProofs ---------------------------
(* Theorems about Session, for every choice of links, starts and retries.    *)
EXTENDS Session, NodeListTheorems

NotYetConnected == {"stopped", "dialog", "connect", "handshake", "retry"}
Handshake == {"ready", "ask", "sleep"}

(* What holds at each place of the host thread.                              *)
ThreadsOK ==
  /\ hostPc \in NotYetConnected \cup {"disconnect", "closing"} => threads = 0
  /\ hostPc \in Handshake \cup {"failed"} => threads = 1
  /\ threads \in {0, 1}

HandshakeOK ==
  /\ hostPc # "stopped" => session \in Sessions
  /\ hostPc \in Handshake \cup {"dialog", "connect", "handshake", "failed", "retry"} => ~emulation
  /\ hostPc = "ask" => attempts < ATTEMPTS
  /\ hostPc = "ready" => attempts = 0

ConnectionOK ==
  /\ hostPc \in Handshake =>
       IF link = "usb" THEN comPort = "open" ELSE ws # "nullptr"
  /\ comPort = "open" => link = "usb" /\ hostPc \notin NotYetConnected

Inductive == TypeOK /\ ThreadsOK /\ HandshakeOK /\ ConnectionOK /\ StartedMeansUsable

LEMMA InitInductive == Init => Inductive
<1> SUFFICES ASSUME Init PROVE Inductive
  OBVIOUS
<1>1. TypeOK
  <2>1. IsNodeList(cmdToParse, Sessions)
    BY EmptyIsNodeList DEF Init
  <2>2. session \in 0..MaxStarts /\ retries \in 0..MaxRetries /\ powers \in 0..MaxPowers
    BY SessionAssumption DEF Init
  <2>3. version \in 0..MaxStarts /\ attempts \in 0..ATTEMPTS /\ elapsed \in 0..READY_SECONDS
    BY SessionAssumption DEF Init, ATTEMPTS, READY_SECONDS
  <2>4. /\ link \in Links /\ saved \in Links /\ threads \in Nat
        /\ txbuf \in Seq({"s", "1", "0"}) /\ line \in Seq({READY} \cup Sessions)
    BY DEF Init
  <2>5. /\ emulation \in BOOLEAN /\ cmdStationReady \in BOOLEAN /\ started \in BOOLEAN
        /\ answers \in BOOLEAN /\ trackPower \in BOOLEAN
    BY DEF Init
  <2>6. /\ hostPc = "stopped" /\ comPort = "nullptr" /\ ws = "nullptr"
    BY DEF Init
  <2> QED BY <2>1, <2>2, <2>3, <2>4, <2>5, <2>6 DEF TypeOK
<1>2. ThreadsOK /\ HandshakeOK /\ ConnectionOK /\ StartedMeansUsable
  BY DEF Init, ThreadsOK, HandshakeOK, ConnectionOK, StartedMeansUsable, NotYetConnected, Handshake
<1> QED BY <1>1, <1>2 DEF Inductive

(* A command leaves the types alone, in a session.                           *)
LEMMA ReadsType ==
  ASSUME TypeOK, session \in Sessions, NEW c \in {"s", "1", "0"}, Reads(c)
  PROVE  answers' \in BOOLEAN /\ trackPower' \in BOOLEAN /\ line' \in Seq({READY} \cup Sessions)
<1>1. line' \in Seq({READY} \cup Sessions)
  <2>1. line \in Seq({READY} \cup Sessions)
    BY DEF TypeOK
  <2>2. Append(line, session) \in Seq({READY} \cup Sessions)
    BY <2>1
  <2>3. line' = line \/ line' = Append(line, session)
    BY DEF Reads
  <2> QED BY <2>1, <2>2, <2>3
<1>2. trackPower' \in BOOLEAN /\ answers' \in BOOLEAN
  BY DEF Reads, TypeOK
<1> QED BY <1>1, <1>2

LEMMA SendCommandType ==
  ASSUME TypeOK, session \in Sessions, NEW c \in {"s", "1", "0"}, sendCommand(c)
  PROVE  /\ IsNodeList(cmdToParse', Sessions) /\ txbuf' \in Seq({"s", "1", "0"})
         /\ answers' \in BOOLEAN /\ trackPower' \in BOOLEAN
         /\ line' \in Seq({READY} \cup Sessions)
<1>1. CASE emulation
  <2>1. IsNodeList(cmdToParse', Sessions)
    BY <1>1, PushBackValues DEF sendCommand, TypeOK
  <2> QED BY <1>1, <2>1 DEF sendCommand, TypeOK, station
<1>2. CASE ~emulation /\ link = "usb"
  <2>1. UNCHANGED <<cmdToParse, txbuf>> /\ (Reads(c) \/ UNCHANGED <<answers, line, trackPower>>)
    BY <1>2 DEF sendCommand, station
  <2> QED BY <2>1, ReadsType DEF TypeOK
<1>3. CASE ~emulation /\ link # "usb"
  <2>1. txbuf' \in Seq({"s", "1", "0"})
    <3>1. txbuf \in Seq({"s", "1", "0"})
      BY DEF TypeOK
    <3>2. Append(txbuf, c) \in Seq({"s", "1", "0"})
      BY <3>1
    <3>3. txbuf' = txbuf \/ txbuf' = Append(txbuf, c)
      BY <1>3 DEF sendCommand
    <3> QED BY <3>1, <3>2, <3>3
  <2> QED BY <1>3, <2>1 DEF sendCommand, TypeOK, station
<1> QED BY <1>1, <1>2, <1>3

LEMMA CloseType ==
  ASSUME TypeOK, closeAnyConnection
  PROVE  /\ comPort' \in {"nullptr", "invalid", "open", "closed"}
         /\ ws' \in {"nullptr", "OPEN", "CLOSED"} /\ txbuf' \in Seq({"s", "1", "0"})
         /\ version' \in 0..MaxStarts /\ cmdStationReady' \in BOOLEAN
<1>1. txbuf' \in Seq({"s", "1", "0"})
  <2>1. txbuf' = <<>> \/ txbuf' = txbuf
    BY DEF closeAnyConnection
  <2>2. <<>> \in Seq({"s", "1", "0"}) /\ txbuf \in Seq({"s", "1", "0"})
    BY DEF TypeOK
  <2> QED BY <2>1, <2>2
<1>2. version' \in 0..MaxStarts
  BY SessionAssumption DEF closeAnyConnection
<1> QED BY <1>1, <1>2 DEF closeAnyConnection, TypeOK

LEMMA ConnectReturnsType ==
  ASSUME TypeOK, NEW success \in BOOLEAN, NEW alive \in BOOLEAN, ConnectReturns(success, alive)
  PROVE  TypeOK'
<1> USE DEF bounds, settings
<1>1. /\ line' \in Seq({READY} \cup Sessions) /\ threads' \in Nat
      /\ attempts' \in 0..ATTEMPTS /\ elapsed' \in 0..READY_SECONDS
  <2>1. line' = <<READY>> \/ line' = <<>>
    BY DEF ConnectReturns
  <2>2. \A S : \A x \in S : <<x>> \in Seq(S) /\ <<>> \in Seq(S)
    OBVIOUS
  <2>3. line' \in Seq({READY} \cup Sessions)
    BY <2>1, <2>2
  <2>4. threads' = threads + 1 /\ attempts' = 0 /\ elapsed' = 0 /\ threads \in Nat
    BY DEF ConnectReturns, TypeOK
  <2> QED BY <2>3, <2>4 DEF ATTEMPTS, READY_SECONDS
<1>2. answers' \in BOOLEAN /\ trackPower' \in BOOLEAN
  BY DEF ConnectReturns, TypeOK
<1>3. /\ comPort' \in {"nullptr", "invalid", "open", "closed"}
      /\ ws' \in {"nullptr", "OPEN", "CLOSED"} /\ hostPc' \in {"failed", "ready", "ask"}
  BY DEF ConnectReturns, TypeOK
<1> QED BY <1>1, <1>2, <1>3 DEF ConnectReturns, TypeOK

(* Every step keeps the types.                                               *)
LEMMA StepType == TypeOK /\ ThreadsOK /\ HandshakeOK /\ [Next]_vars => TypeOK'
<1> SUFFICES ASSUME TypeOK, ThreadsOK, HandshakeOK, [Next]_vars PROVE TypeOK'
  OBVIOUS
<1> USE DEF bounds, settings, connection, starting, station
<1>1. CASE start
  <2>1. PICK emul \in Emulations :
          /\ session < MaxStarts /\ session' = session + 1
          /\ emulation' = emul /\ link' = saved
          /\ \/ cmdToParse' = PushBack(cmdToParse, session + 1)
             \/ cmdToParse' = cmdToParse
    BY <1>1 DEF start
  <2>2. session + 1 \in Sessions /\ session' = session + 1 /\ session' \in 0..MaxStarts
    <3>1. session \in 0..MaxStarts /\ session < MaxStarts /\ MaxStarts \in Nat
      BY <2>1, SessionAssumption DEF TypeOK
    <3> QED BY <2>1, <3>1 DEF Sessions
  <2>3. IsNodeList(cmdToParse', Sessions)
    <3>1. IsNodeList(cmdToParse, Sessions)
      BY DEF TypeOK
    <3> QED BY <2>1, <2>2, <3>1, PushBackValues
  <2>4. emulation' \in BOOLEAN /\ link' \in Links
    <3>1. Emulations \subseteq BOOLEAN /\ saved \in Links
      BY SessionAssumption DEF TypeOK
    <3> QED BY <2>1, <3>1
  <2>5. threads' \in Nat /\ started' \in BOOLEAN
    <3>1. threads' \in Nat
      BY <1>1 DEF start, TypeOK
    <3>2. started' \in BOOLEAN
      BY <1>1, Zenon DEF start, TypeOK
    <3> QED BY <3>1, <3>2
  <2>6. hostPc' \in {"served", "dialog"}
    BY <1>1 DEF start
  <2> QED BY <1>1, <2>2, <2>3, <2>4, <2>5, <2>6 DEF start, TypeOK
<1>2. CASE runParamDlg
  BY <1>2 DEF runParamDlg, TypeOK
<1>3. CASE cancelParamDlg
  BY <1>3 DEF cancelParamDlg, TypeOK
<1>4. CASE connect \/ from_url
  <2>1. CASE hostPc' = "handshake" /\ UNCHANGED <<bounds, settings, connection, threads, version,
               cmdStationReady, starting, cmdToParse, txbuf, station>>
    BY <2>1 DEF TypeOK
  <2>2. CASE \E success, alive \in BOOLEAN : ConnectReturns(success, alive)
    BY <2>2, ConnectReturnsType
  <2> QED BY <1>4, <2>1, <2>2, Zenon DEF connect, from_url
<1>5. CASE waitReady
  <2>1. elapsed' \in 0..READY_SECONDS
    <3>1. elapsed \in 0..16
      BY DEF TypeOK, READY_SECONDS
    <3>2. elapsed' = 0 \/ (elapsed # 16 /\ elapsed' = elapsed + 1)
      BY <1>5 DEF waitReady, READY_SECONDS
    <3> QED BY <3>1, <3>2 DEF READY_SECONDS
  <2>2. hostPc' \in {"ask", "ready"}
    BY <1>5 DEF waitReady
  <2> QED BY <1>5, <2>1, <2>2 DEF waitReady, TypeOK
<1>6. CASE askVersion
  <2>1. session \in Sessions
    BY <1>6 DEF askVersion, HandshakeOK
  <2>2. attempts' \in 0..ATTEMPTS
    BY <1>6 DEF askVersion, NextAttempt, HandshakeOK, TypeOK, ATTEMPTS
  <2>3. sendCommand("s") /\ hostPc' = "sleep"
    BY <1>6 DEF askVersion
  <2> QED BY <1>6, <2>1, <2>2, <2>3, SendCommandType DEF askVersion, TypeOK
<1>7. CASE askAgain
  BY <1>7 DEF askAgain, TypeOK
<1>8. CASE handshakeReturns
  <2>1. started' \in BOOLEAN /\ saved' \in Links /\ hostPc' \in {"failed", "served"}
    BY <1>8 DEF handshakeReturns, TypeOK
  <2>2. attempts' \in 0..ATTEMPTS
    BY <1>8 DEF handshakeReturns, ATTEMPTS
  <2> QED BY <1>8, <2>1, <2>2 DEF handshakeReturns, TypeOK
<1>9. CASE giveUp
  <2>1. CASE Crash
    BY <2>1 DEF Crash, TypeOK
  <2>2. CASE ~ClosesNull
    <3>1. threads' \in Nat
      BY <1>9, <2>2 DEF giveUp, TerminateThread, TypeOK
    <3>2. closeAnyConnection /\ hostPc' = "retry"
      BY <1>9, <2>2 DEF giveUp
    <3> QED BY <1>9, <2>2, <3>1, <3>2, CloseType DEF giveUp, TypeOK
  <2> QED BY <1>9, <2>1, <2>2 DEF giveUp
<1>10. CASE retry
  <2>1. retries' \in 0..MaxRetries
    BY <1>10, SessionAssumption DEF retry, TypeOK
  <2> QED BY <1>10, <2>1 DEF retry, TypeOK
<1>11. CASE cancelRetry
  BY <1>11 DEF cancelRetry, TypeOK
<1>12. CASE power \/ versionRequest
  <2>1. PICK c \in {"1", "0", "s"} : Call(c)
    BY <1>12, Zenon DEF power, versionRequest
  <2>2. CASE Crash
    BY <2>2 DEF Crash, TypeOK
  <2>3. CASE ~(NeedsSocket /\ ws = "nullptr")
    <3>1. sendCommand(c) /\ powers < MaxPowers /\ powers' = powers + 1
      BY <2>1, <2>3 DEF Call
    <3>2. session \in Sessions
      BY <2>1 DEF Call, HandshakeOK
    <3>3. powers' \in 0..MaxPowers
      BY <3>1, SessionAssumption DEF TypeOK
    <3> QED BY <2>1, <2>3, <3>1, <3>2, <3>3, SendCommandType DEF Call, TypeOK
  <2> QED BY <2>1, <2>2, <2>3 DEF Call
<1>13. CASE stop
  <2>1. threads' \in Nat
    BY <1>13 DEF stop, TerminateThread, TypeOK
  <2> QED BY <1>13, <2>1 DEF stop, TypeOK
<1>14. CASE disconnect
  <2>1. CASE Crash
    BY <2>1 DEF Crash, TypeOK
  <2>2. CASE ~(NeedsSocket /\ ws = "nullptr")
    <3>1. sendCommand("0") /\ hostPc' = "closing"
      BY <1>14, <2>2 DEF disconnect
    <3>2. session \in Sessions
      BY <1>14 DEF disconnect, HandshakeOK
    <3> QED BY <1>14, <2>2, <3>1, <3>2, SendCommandType DEF disconnect, TypeOK
  <2> QED BY <1>14, <2>1, <2>2 DEF disconnect
<1>15. CASE disconnectReturns
  <2>1. CASE Crash
    BY <2>1 DEF Crash, TypeOK
  <2>2. CASE ~ClosesNull
    <3>1. closeAnyConnection /\ hostPc' = "stopped"
      BY <1>15, <2>2 DEF disconnectReturns
    <3> QED BY <1>15, <2>2, <3>1, CloseType DEF disconnectReturns, TypeOK
  <2> QED BY <1>15, <2>1, <2>2 DEF disconnectReturns
<1>16. CASE receive
  <2>1. line \in Seq({READY} \cup Sessions) /\ line # <<>>
    BY <1>16 DEF receive, TypeOK
  <2>2. Head(line) \in {READY} \cup Sessions /\ line' \in Seq({READY} \cup Sessions)
    BY <1>16, <2>1 DEF receive
  <2>3. cmdStationReady' \in BOOLEAN
    BY <1>16 DEF receive, TypeOK
  <2>4. IsNodeList(cmdToParse', Sessions)
    BY <1>16, <2>2, PushBackValues DEF receive, TypeOK
  <2> QED BY <1>16, <2>2, <2>3, <2>4 DEF receive, TypeOK
<1>17. CASE pollSends
  <2>1. session \in Sessions
    BY <1>17 DEF pollSends, HandshakeOK, ThreadsOK, NotYetConnected
  <2>2. txbuf \in Seq({"s", "1", "0"}) /\ txbuf # <<>>
    BY <1>17 DEF pollSends, TypeOK
  <2>3. Head(txbuf) \in {"s", "1", "0"} /\ txbuf' \in Seq({"s", "1", "0"}) /\ Reads(Head(txbuf))
    BY <1>17, <2>2 DEF pollSends
  <2> QED BY <1>17, <2>1, <2>3, ReadsType DEF pollSends, TypeOK
<1>18. CASE pollLosesConnection
  <2>1. ws' \in {"nullptr", "OPEN", "CLOSED"} /\ answers' \in BOOLEAN
    BY <1>18 DEF pollLosesConnection
  <2>2. line' \in Seq({READY} \cup Sessions)
    BY <1>18 DEF pollLosesConnection
  <2> QED BY <1>18, <2>1, <2>2 DEF pollLosesConnection, TypeOK
<1>19. CASE handleCommandStationVersion
  <2>1. version' \in Sessions
    BY <1>19, FrontIsValue DEF handleCommandStationVersion, TypeOK
  <2>2. version' \in 0..MaxStarts
    BY <2>1 DEF Sessions
  <2>3. IsNodeList(cmdToParse', Sessions)
    BY <1>19, RemoveEqualValues DEF handleCommandStationVersion, TypeOK
  <2> QED BY <1>19, <2>2, <2>3 DEF handleCommandStationVersion, TypeOK
<1>20. CASE UNCHANGED vars
  BY <1>20 DEF vars, TypeOK
<1> QED BY <1>1, <1>2, <1>3, <1>4, <1>5, <1>6, <1>7, <1>8, <1>9, <1>10,
           <1>11, <1>12, <1>13, <1>14, <1>15, <1>16, <1>17, <1>18, <1>19,
           <1>20 DEF Next, Host, Loop

(* Every step keeps what holds at the places of the host thread.             *)
LEMMA StepPlaces ==
  Inductive /\ [Next]_vars => ThreadsOK' /\ HandshakeOK' /\ ConnectionOK' /\ StartedMeansUsable'
<1> SUFFICES ASSUME Inductive, [Next]_vars
             PROVE  ThreadsOK' /\ HandshakeOK' /\ ConnectionOK' /\ StartedMeansUsable'
  OBVIOUS
<1> USE DEF bounds, settings, connection, starting, station
<1>a. /\ session \in Nat /\ attempts \in 0..6 /\ threads \in {0, 1} /\ MaxStarts \in Nat
      /\ version \in Nat /\ session' \in 0..MaxStarts
  <2>1. TypeOK'
    BY StepType DEF Inductive
  <2> QED BY <2>1, SessionAssumption DEF Inductive, TypeOK, ThreadsOK, ATTEMPTS
<1>1. CASE start
  BY <1>a, <1>1 DEF Inductive, ThreadsOK, HandshakeOK, ConnectionOK, StartedMeansUsable, NotYetConnected,
     Handshake, start, Sessions
<1>2. CASE runParamDlg
  BY <1>a, <1>2 DEF Inductive, ThreadsOK, HandshakeOK, ConnectionOK, StartedMeansUsable, NotYetConnected,
     Handshake, runParamDlg
<1>3. CASE cancelParamDlg
  BY <1>a, <1>3 DEF Inductive, ThreadsOK, HandshakeOK, ConnectionOK, StartedMeansUsable, NotYetConnected,
     Handshake, cancelParamDlg
<1>4. CASE connect \/ from_url
  <2>1. CASE hostPc = "connect" /\ hostPc' = "handshake" /\ UNCHANGED <<bounds, settings, connection,
               threads, version, cmdStationReady, starting, cmdToParse, txbuf, station>>
    BY <1>a, <2>1 DEF Inductive, ThreadsOK, HandshakeOK, ConnectionOK, StartedMeansUsable,
       NotYetConnected, Handshake
  <2>2. CASE hostPc \in {"connect", "handshake"}
               /\ \E success, alive \in BOOLEAN : ConnectReturns(success, alive)
    BY <1>a, <2>2 DEF Inductive, ThreadsOK, HandshakeOK, ConnectionOK, StartedMeansUsable,
       NotYetConnected, Handshake, ConnectReturns, ATTEMPTS
  <2> QED BY <1>4, <2>1, <2>2, Zenon DEF connect, from_url
<1>5. CASE waitReady
  BY <1>a, <1>5 DEF Inductive, ThreadsOK, HandshakeOK, ConnectionOK, StartedMeansUsable, NotYetConnected,
     Handshake, waitReady, ATTEMPTS
<1>6. CASE askVersion
  BY <1>a, <1>6 DEF Inductive, ThreadsOK, HandshakeOK, ConnectionOK, StartedMeansUsable, NotYetConnected,
     Handshake, askVersion, NextAttempt
<1>7. CASE askAgain
  BY <1>a, <1>7 DEF Inductive, ThreadsOK, HandshakeOK, ConnectionOK, StartedMeansUsable, NotYetConnected,
     Handshake, askAgain, AskAgain
<1>8. CASE handshakeReturns
  BY <1>a, <1>8 DEF Inductive, ThreadsOK, HandshakeOK, ConnectionOK, StartedMeansUsable, NotYetConnected,
     Handshake, handshakeReturns, AskAgain, GivesUp, ATTEMPTS
<1>9. CASE giveUp
  <2>1. CASE ClosesNull
    BY <1>a, <1>9, <2>1 DEF Inductive, ThreadsOK, HandshakeOK, ConnectionOK, StartedMeansUsable, NotYetConnected,
       Handshake, giveUp, Crash
  <2>2. CASE ~ClosesNull
    BY <1>a, <1>9, <2>2 DEF Inductive, ThreadsOK, HandshakeOK, ConnectionOK, StartedMeansUsable, NotYetConnected,
       Handshake, giveUp, closeAnyConnection, TerminateThread
  <2> QED BY <2>1, <2>2
<1>10. CASE retry
  BY <1>a, <1>10 DEF Inductive, ThreadsOK, HandshakeOK, ConnectionOK, StartedMeansUsable, NotYetConnected,
     Handshake, retry
<1>11. CASE cancelRetry
  BY <1>a, <1>11 DEF Inductive, ThreadsOK, HandshakeOK, ConnectionOK, StartedMeansUsable, NotYetConnected,
     Handshake, cancelRetry
<1>12. CASE power \/ versionRequest
  BY <1>a, <1>12 DEF Inductive, ThreadsOK, HandshakeOK, ConnectionOK, StartedMeansUsable, NotYetConnected,
     Handshake, power, versionRequest, Call, Crash
<1>13. CASE stop
  BY <1>a, <1>13 DEF Inductive, ThreadsOK, HandshakeOK, ConnectionOK, StartedMeansUsable, NotYetConnected,
     Handshake, stop, TerminateThread
<1>14. CASE disconnect
  BY <1>a, <1>14 DEF Inductive, ThreadsOK, HandshakeOK, ConnectionOK, StartedMeansUsable, NotYetConnected,
     Handshake, disconnect, Crash
<1>15. CASE disconnectReturns
  <2>1. CASE ClosesNull
    BY <1>a, <1>15, <2>1 DEF Inductive, ThreadsOK, HandshakeOK, ConnectionOK, StartedMeansUsable, NotYetConnected,
       Handshake, disconnectReturns, Crash
  <2>2. CASE ~ClosesNull
    BY <1>a, <1>15, <2>2 DEF Inductive, ThreadsOK, HandshakeOK, ConnectionOK, StartedMeansUsable, NotYetConnected,
       Handshake, disconnectReturns, closeAnyConnection, TerminateThread
  <2> QED BY <2>1, <2>2
<1>16. CASE receive
  BY <1>a, <1>16 DEF Inductive, ThreadsOK, HandshakeOK, ConnectionOK, StartedMeansUsable, NotYetConnected,
     Handshake, receive
<1>17. CASE pollSends
  BY <1>a, <1>17 DEF Inductive, ThreadsOK, HandshakeOK, ConnectionOK, StartedMeansUsable, NotYetConnected,
     Handshake, pollSends
<1>18. CASE pollLosesConnection
  BY <1>a, <1>18 DEF Inductive, ThreadsOK, HandshakeOK, ConnectionOK, StartedMeansUsable, NotYetConnected,
     Handshake, pollLosesConnection
<1>19. CASE handleCommandStationVersion
  <2>1. version' \in Sessions
    BY <1>19, FrontIsValue DEF handleCommandStationVersion, Inductive, TypeOK
  <2>2. version' # 0
    BY <2>1 DEF Sessions
  <2> QED BY <1>a, <1>19, <2>2 DEF Inductive, ThreadsOK, HandshakeOK, ConnectionOK, StartedMeansUsable, NotYetConnected,
       Handshake, handleCommandStationVersion
<1>20. CASE UNCHANGED vars
  BY <1>20 DEF vars, Inductive, ThreadsOK, HandshakeOK, ConnectionOK, StartedMeansUsable
<1> QED BY <1>1, <1>2, <1>3, <1>4, <1>5, <1>6, <1>7, <1>8, <1>9, <1>10, <1>11, <1>12, <1>13,
           <1>14, <1>15, <1>16, <1>17, <1>18, <1>19, <1>20 DEF Next, Host, Loop

LEMMA InductiveHolds == Spec => []Inductive
<1>1. Init => Inductive
  BY InitInductive
<1>2. Inductive /\ [Next]_vars => Inductive'
  BY StepType, StepPlaces DEF Inductive
<1> QED BY <1>1, <1>2, PTL DEF Spec

(* Every variable keeps its type: the handshake never asks more than six     *)
(* times, nor waits more than sixteen seconds.                               *)
THEOREM SessionTypeCorrect == Spec => []TypeOK
<1>1. Inductive => TypeOK
  BY DEF Inductive
<1> QED BY <1>1, InductiveHolds, PTL

(* There is never more than one loop thread, and none while the connection   *)
(* is chosen or closed, whatever fails and however often it is retried.      *)
THEOREM LoopThreadIsAlone == Spec => []OneLoopThread
<1>1. Inductive => OneLoopThread
  BY DEF Inductive, ThreadsOK, OneLoopThread, NotYetConnected
<1> QED BY <1>1, InductiveHolds, PTL

(* A start that succeeds leaves a version, a loop thread, and a port that is *)
(* open or a websocket object that is not null; that the websocket is still  *)
(* open is not claimed, as the loop thread closes it when the connection is  *)
(* lost.                                                                     *)
THEOREM SuccessIsUsable == Spec => []StartedMeansUsable
<1>1. Inductive => StartedMeansUsable
  BY DEF Inductive
<1> QED BY <1>1, InductiveHolds, PTL

(* On a serial link alone: nothing waits in the websocket's buffer, and a    *)
(* track has power only where it can still be taken away.                    *)
PowerOK ==
  /\ txbuf = <<>>
  /\ trackPower => /\ answers /\ ~emulation /\ comPort = "open"
                   /\ hostPc \in {"served", "disconnect"}

LEMMA StepPower ==
  ASSUME Links = {"usb"}
  PROVE  Inductive /\ PowerOK /\ [Next]_vars => PowerOK'
<1> SUFFICES ASSUME Inductive, PowerOK, [Next]_vars PROVE PowerOK'
  OBVIOUS
<1> USE DEF bounds, settings, connection, starting, station
<1>a. link = "usb" /\ answers \in BOOLEAN /\ trackPower \in BOOLEAN
  BY DEF Inductive, TypeOK
<1>b. comPort = "open" => hostPc \notin NotYetConnected
  BY DEF Inductive, ConnectionOK
<1>1. CASE start
  BY <1>a, <1>b, <1>1 DEF PowerOK, NotYetConnected, start
<1>2. CASE runParamDlg
  BY <1>a, <1>b, <1>2 DEF PowerOK, NotYetConnected, runParamDlg
<1>3. CASE cancelParamDlg
  BY <1>a, <1>b, <1>3 DEF PowerOK, NotYetConnected, cancelParamDlg
<1>4. CASE connect \/ from_url
  BY <1>a, <1>b, <1>4 DEF PowerOK, NotYetConnected, connect, from_url, ConnectReturns
<1>5. CASE waitReady
  BY <1>a, <1>b, <1>5 DEF PowerOK, NotYetConnected, waitReady
<1>6. CASE askVersion
  BY <1>a, <1>b, <1>6 DEF PowerOK, NotYetConnected, askVersion, sendCommand, Reads
<1>7. CASE askAgain
  BY <1>a, <1>b, <1>7 DEF PowerOK, NotYetConnected, askAgain
<1>8. CASE handshakeReturns
  BY <1>a, <1>b, <1>8 DEF PowerOK, NotYetConnected, handshakeReturns
<1>9. CASE giveUp
  BY <1>a, <1>b, <1>9 DEF PowerOK, NotYetConnected, giveUp, closeAnyConnection, ClosesNull
<1>10. CASE retry
  BY <1>a, <1>b, <1>10 DEF PowerOK, NotYetConnected, retry
<1>11. CASE cancelRetry
  BY <1>a, <1>b, <1>11 DEF PowerOK, NotYetConnected, cancelRetry
<1>12. CASE power \/ versionRequest
  BY <1>a, <1>b, <1>12 DEF PowerOK, NotYetConnected, power, versionRequest, Call, sendCommand, Reads,
     NeedsSocket
<1>13. CASE stop
  BY <1>a, <1>b, <1>13 DEF PowerOK, NotYetConnected, stop
<1>14. CASE disconnect
  BY <1>a, <1>b, <1>14 DEF PowerOK, NotYetConnected, disconnect, sendCommand, Reads, NeedsSocket
<1>15. CASE disconnectReturns
  BY <1>a, <1>b, <1>15 DEF PowerOK, NotYetConnected, disconnectReturns, closeAnyConnection, ClosesNull
<1>16. CASE receive
  BY <1>a, <1>b, <1>16 DEF PowerOK, NotYetConnected, receive
<1>17. CASE pollSends
  BY <1>a, <1>b, <1>17 DEF PowerOK, NotYetConnected, pollSends
<1>18. CASE pollLosesConnection
  BY <1>a, <1>b, <1>18 DEF PowerOK, NotYetConnected, pollLosesConnection
<1>19. CASE handleCommandStationVersion
  BY <1>a, <1>b, <1>19 DEF PowerOK, NotYetConnected, handleCommandStationVersion
<1>20. CASE UNCHANGED vars
  BY <1>20 DEF vars, PowerOK
<1> QED BY <1>1, <1>2, <1>3, <1>4, <1>5, <1>6, <1>7, <1>8, <1>9, <1>10, <1>11, <1>12, <1>13,
           <1>14, <1>15, <1>16, <1>17, <1>18, <1>19, <1>20 DEF Next, Host, Loop

(* On a serial link, stopping leaves the track without power, whatever came  *)
(* before.  Over Wi-Fi it does not.                                          *)
THEOREM StoppedMeansTrackOff ==
  ASSUME Links = {"usb"}
  PROVE  Spec => []TrackOffWhenStopped
<1>1. Init => PowerOK
  BY DEF Init, PowerOK
<1>2. Inductive /\ PowerOK /\ [Next]_vars => PowerOK'
  BY StepPower
<1>3. PowerOK => TrackOffWhenStopped
  BY DEF PowerOK, TrackOffWhenStopped
<1> QED BY <1>1, <1>2, <1>3, InductiveHolds, PTL DEF Spec
=============================================================================
