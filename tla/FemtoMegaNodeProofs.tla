------------------------- MODULE FemtoMegaNodeProofs -------------------------
(***************************************************************************)
(* Proofs about the ROS 2 bridge: what the exceptions of its constructor   *)
(* leave to the frames it publishes.                                       *)
(***************************************************************************)
EXTENDS FemtoMegaNode, TLAPS

\* What the constructor has read and sent by the time frames are published.
Calibrated ==
    "calibration" \notin raised =>
        /\ infos = streams \cap Video
        /\ "camera_color_frame" \in transforms
        /\ "color" \in streams =>
             /\ "ir" \in streams /\ "ir" \notin raised => "camera_ir_frame" \in transforms
             /\ "accel" \in streams /\ "imu" \notin raised => "camera_imu_frame" \in transforms

NodeInv ==
    /\ NodeTypeOK
    /\ nPc \in {"idle", "streams", "imu", "infos", "transforms"} => published = {}
    /\ nPc = "transforms" => infos = streams \cap Video
    /\ nPc = "spin" => Calibrated
    /\ PublishedFramesAreKnown

LEMMA InitNodeInv == NodeInit => NodeInv
  BY DEF NodeInit, NodeInv, NodeTypeOK, PublishedFramesAreKnown

\* The constructor: nothing is published yet.
LEMMA ConstructorKeepsInv ==
  ASSUME NodeInv, EnableStreams \/ EnableImu \/ ReadCalibration \/ PublishStaticTransforms
  PROVE  NodeInv'
  <1>1. published' = {}
    BY DEF NodeInv, EnableStreams, EnableImu, ReadCalibration, PublishStaticTransforms
  <1>2. PublishedFramesAreKnown'
    BY <1>1 DEF PublishedFramesAreKnown
  <1> USE DEF NodeInv, NodeTypeOK
  <1>3. CASE EnableStreams
    BY <1>1, <1>2, <1>3 DEF EnableStreams
  <1>4. CASE EnableImu
    BY <1>1, <1>2, <1>4 DEF EnableImu
  <1>5. CASE ReadCalibration
    <2>1. CASE infos' = streams \cap Video /\ nPc' = "transforms" /\ UNCHANGED raised
      BY <1>1, <1>2, <1>5, <2>1 DEF ReadCalibration
    <2>2. CASE /\ \/ \E s \in streams \cap Video : infos' = streams \cap Before(s)
                  \/ "depth" \in streams /\ infos' = streams \cap {"color", "depth"}
               /\ raised' = raised \cup {"calibration"} /\ nPc' = "spin"
      <3>1. infos' \in SUBSET Video
        BY <2>2 DEF Before, Video
      <3>2. Calibrated'
        BY <2>2 DEF Calibrated
      <3> QED BY <1>1, <1>2, <1>5, <2>2, <3>1, <3>2 DEF ReadCalibration
    <2> QED BY <1>5, <2>1, <2>2 DEF ReadCalibration
  <1>6. CASE PublishStaticTransforms
    <2>1. transforms' \in SUBSET Frames
      BY <1>6 DEF PublishStaticTransforms, Frames
    <2>2. raised' \in SUBSET {"calibration", "ir", "imu"} /\ raised \subseteq raised'
      BY <1>6 DEF PublishStaticTransforms
    <2>3. Calibrated'
      BY <1>6 DEF PublishStaticTransforms, Calibrated
    <2> QED BY <1>1, <1>2, <1>6, <2>1, <2>2, <2>3 DEF PublishStaticTransforms
  <1> QED BY <1>3, <1>4, <1>5, <1>6

\* A frameset of the streams enabled.
LEMMA ProcessKeepsInv ==
  ASSUME NodeInv, NEW F \in SUBSET streams, NEW bad \in SUBSET F, ProcessFramesOf(F, bad)
  PROVE  NodeInv'
  <1>1. \A m \in published' :
          \/ m \in published
          \/ /\ m[1] \in F \cap Video
             /\ m = <<m[1], IF m[1] = "ir" THEN "camera_ir_frame" ELSE "camera_color_frame">>
          \/ m = <<"points", "camera_color_frame">>
          \/ m = <<"imu", "camera_imu_frame">> /\ {"accel", "gyro"} \subseteq F
    <2> TAKE m \in published'
    <2>1. CASE m \in published
      BY <2>1
    <2>2. ASSUME NEW s \in (F \cap Video) \ bad,
                 m = <<s, IF s = "ir" THEN "camera_ir_frame" ELSE "camera_color_frame">>
          PROVE  /\ m[1] \in F \cap Video
                 /\ m = <<m[1], IF m[1] = "ir" THEN "camera_ir_frame" ELSE "camera_color_frame">>
      BY <2>2
    <2>3. ASSUME NEW x \in {y \in {"points"} : "depth" \in (F \cap Video) \ bad /\ "color" \in F},
                 m = <<x, "camera_color_frame">>
          PROVE  m = <<"points", "camera_color_frame">>
      BY <2>3
    <2>4. ASSUME NEW x \in {y \in {"imu"} : {"accel", "gyro"} \subseteq F},
                 m = <<x, "camera_imu_frame">>
          PROVE  m = <<"imu", "camera_imu_frame">> /\ {"accel", "gyro"} \subseteq F
      BY <2>4
    <2> QED BY <2>1, <2>2, <2>3, <2>4 DEF ProcessFramesOf
  <1>2. NodeTypeOK'
    <2>1. published' \in SUBSET ((Video \cup {"imu", "points"}) \X Frames)
      BY <1>1 DEF NodeInv, NodeTypeOK, Video, Frames
    <2> QED BY <2>1 DEF ProcessFramesOf, NodeInv, NodeTypeOK
  <1>3. PublishedFramesAreKnown'
    <2> SUFFICES ASSUME "calibration" \notin raised, NEW m \in published'
                 PROVE  /\ m[2] \notin transforms =>
                             m[1] \in {"ir", "imu"} /\ (m[1] \in raised \/ "color" \notin streams)
                        /\ m[1] \in Video => m[1] \in infos
      BY DEF ProcessFramesOf, PublishedFramesAreKnown
    <2>1. Calibrated /\ nPc = "spin"
      BY DEF ProcessFramesOf, NodeInv
    <2>2. CASE m \in published
      BY <2>2, Zenon DEF NodeInv, PublishedFramesAreKnown
    <2>3. CASE /\ m[1] \in F \cap Video
               /\ m = <<m[1], IF m[1] = "ir" THEN "camera_ir_frame" ELSE "camera_color_frame">>
      BY <2>1, <2>3 DEF Calibrated, Video
    <2>4. CASE m = <<"points", "camera_color_frame">>
      BY <2>1, <2>4 DEF Calibrated, Video
    <2>5. CASE m = <<"imu", "camera_imu_frame">> /\ {"accel", "gyro"} \subseteq F
      BY <2>1, <2>5 DEF Calibrated, Video
    <2> QED BY <1>1, <2>2, <2>3, <2>4, <2>5
  <1> QED BY <1>2, <1>3 DEF ProcessFramesOf, NodeInv, Calibrated

LEMMA NextNodeInv == NodeInv /\ [NodeNext]_nodeVars => NodeInv'
  <1> SUFFICES ASSUME NodeInv, [NodeNext]_nodeVars PROVE NodeInv'
    OBVIOUS
  <1>1. CASE ConnectCamera
    BY <1>1 DEF ConnectCamera, NodeInv, NodeTypeOK, PublishedFramesAreKnown
  <1>2. ASSUME NEW pc \in {"streams", "imu", "spin"}, NodeEnds(pc) PROVE NodeInv'
    BY <1>2 DEF NodeEnds, NodeInv, NodeTypeOK, PublishedFramesAreKnown
  <1>3. CASE UNCHANGED nodeVars
    BY <1>3 DEF nodeVars, NodeInv, NodeTypeOK, Calibrated, PublishedFramesAreKnown
  <1> QED BY <1>1, <1>2, <1>3, ConstructorKeepsInv, ProcessKeepsInv DEF NodeNext

\* The node's inductive invariant: which steps of the constructor have run, and
\* with them which publishers and transforms exist (femto_mega_node.cpp).
THEOREM NodeInvariance == NodeSpec => []NodeInv
  BY InitNodeInv, NextNodeInv, PTL DEF NodeSpec

\* Every message is in a frame that was sent and every image has its info,
\* except for what an exception skipped or a camera without color lacks.
THEOREM PublishedTheorem == NodeSpec => []PublishedFramesAreKnown
  <1>1. NodeInv => PublishedFramesAreKnown
    BY DEF NodeInv
  <1> QED BY <1>1, NodeInvariance, PTL
=============================================================================
