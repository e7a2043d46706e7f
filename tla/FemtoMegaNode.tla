---------------------------- MODULE FemtoMegaNode ----------------------------
(***************************************************************************)
(* The ROS 2 bridge (ros2_bridge/src/femto_mega_node.cpp): the constructor *)
(* enables the streams that the camera has, reads their calibration and    *)
(* sends the static transforms once; a timer then publishes what each      *)
(* frameset holds.  Every SDK call may throw an ob::Error, and what it     *)
(* skips decides what the subscribers can make of the images.              *)
(***************************************************************************)
EXTENDS Integers

Video == {"color", "depth", "ir"}

VARIABLES
    nPc,        \* where the node is
    streams,    \* the streams enabled in the config
    infos,      \* the camera infos read from the profiles
    transforms, \* the child frames of the static transforms sent
    published,  \* <<topic, frame_id>> of the messages published
    raised      \* the calls that have thrown (a history variable)

nodeVars == <<nPc, streams, infos, transforms, published, raised>>

Frames == {"camera_color_frame", "camera_depth_frame", "camera_ir_frame", "camera_imu_frame"}

NodeTypeOK ==
    /\ nPc \in {"idle", "streams", "imu", "infos", "transforms", "spin", "end"}
    /\ streams \in SUBSET (Video \cup {"accel", "gyro"})
    /\ infos \in SUBSET Video
    /\ transforms \in SUBSET Frames
    /\ published \in SUBSET ((Video \cup {"imu", "points"}) \X Frames)
    /\ raised \in SUBSET {"calibration", "ir", "imu"}

NodeInit ==
    /\ nPc = "idle"
    /\ streams = {} /\ infos = {} /\ transforms = {} /\ published = {} /\ raised = {}

\* main's catch(...): the node shuts down with exit code 0.
NodeEnds(pc) ==
    /\ nPc = pc
    /\ nPc' = "end"
    /\ UNCHANGED <<streams, infos, transforms, published, raised>>

\* The device by address or as the first of the list, and the pipeline.
ConnectCamera ==
    /\ nPc = "idle"
    /\ nPc' = "streams"
    /\ UNCHANGED <<streams, infos, transforms, published, raised>>

\* The video streams whose profiles the camera has.
EnableStreams ==
    /\ nPc = "streams"
    /\ streams' \in SUBSET Video
    /\ nPc' = "imu"
    /\ UNCHANGED <<infos, transforms, published, raised>>

\* Both IMU streams, none, or only the first when the second throws; then
\* pipe_->start(config) and the publishers.
EnableImu ==
    /\ nPc = "imu"
    /\ \E S \in {{}, {"accel"}, {"accel", "gyro"}} : streams' = streams \cup S
    /\ nPc' = "infos"
    /\ UNCHANGED <<infos, transforms, published, raised>>

\* The streams whose infos are read before that of s.
Before(s) == CASE s = "color" -> {} [] s = "depth" -> {"color"} [] OTHER -> {"color", "depth"}

\* Wrong variant of ReadCalibration: the IMU streams have infos as well.
ReadCalibrationOfAll ==
    /\ nPc = "infos"
    /\ infos' = streams
    /\ nPc' = "transforms"
    /\ UNCHANGED <<streams, transforms, published, raised>>

\* The infos of color, depth and ir, in this order, up to the first that throws,
\* or up to the point cloud's filter, which is set after the info of depth; then
\* no transform is sent.
ReadCalibration ==
    /\ nPc = "infos"
    /\ \/ /\ infos' = streams \cap Video
          /\ nPc' = "transforms"
          /\ UNCHANGED raised
       \/ /\ \/ \E s \in streams \cap Video : infos' = streams \cap Before(s)
             \/ "depth" \in streams /\ infos' = streams \cap {"color", "depth"}
          /\ raised' = raised \cup {"calibration"}
          /\ nPc' = "spin"
    /\ UNCHANGED <<streams, transforms, published>>

\* Wrong variant of PublishStaticTransforms: base to color only with color.
PublishTransformsOfColor ==
    /\ nPc = "transforms"
    /\ transforms' = IF "color" \in streams THEN {"camera_color_frame"} ELSE {}
    /\ nPc' = "spin"
    /\ UNCHANGED <<streams, infos, published, raised>>

\* publish_static_transforms: base to color always, color to depth, and color to
\* ir and to imu when color is there and nothing throws on the way.  Whether the
\* camera has an accelerometer is asked again, whatever the config enables.
PublishStaticTransforms ==
    /\ nPc = "transforms"
    /\ \E threw \in SUBSET {"ir", "imu"}, accel \in BOOLEAN :
         LET ir == {"color", "ir"} \subseteq streams
             imu == "color" \in streams /\ accel
         IN
         /\ "accel" \in streams => accel
         /\ "ir" \in threw => ir
         /\ raised' = raised \cup threw
         /\ transforms' =
              {"camera_color_frame"}
                \cup {f \in {"camera_depth_frame"} : "depth" \in streams}
                \cup {f \in {"camera_ir_frame"} : ir /\ "ir" \notin threw}
                \cup {f \in {"camera_imu_frame"} : imu /\ "imu" \notin threw}
    /\ nPc' = "spin"
    /\ UNCHANGED <<streams, infos, published>>

\* process_frames, with a frameset that holds F: an image that cannot be decoded
\* or is empty is not published; depth is aligned to color, and a point cloud
\* needs both.
ProcessFramesOf(F, bad) ==
    LET images == (F \cap Video) \ bad IN
    /\ nPc = "spin"
    /\ published' = published
         \cup {<<s, IF s = "ir" THEN "camera_ir_frame" ELSE "camera_color_frame">> : s \in images}
         \cup {<<x, "camera_color_frame">> :
                 x \in {y \in {"points"} : "depth" \in images /\ "color" \in F}}
         \cup {<<x, "camera_imu_frame">> :
                 x \in {y \in {"imu"} : {"accel", "gyro"} \subseteq F}}
    /\ UNCHANGED <<nPc, streams, infos, transforms, raised>>

NodeNext ==
    \/ ConnectCamera \/ EnableStreams \/ EnableImu \/ ReadCalibration
    \/ PublishStaticTransforms
    \/ \E F \in SUBSET streams : \E bad \in SUBSET F : ProcessFramesOf(F, bad)
    \/ \E pc \in {"streams", "imu", "spin"} : NodeEnds(pc)

NodeSpec == NodeInit /\ [][NodeNext]_nodeVars

-----------------------------------------------------------------------------
(* Properties *)

\* Every message is in a frame whose transform was sent, and every image comes
\* with the info of its own stream, except for what an exception skipped: the
\* calibration all of it, and getExtrinsicTo (or a camera without color) the
\* frame of its own (lines 123, 184 and 194).
PublishedFramesAreKnown ==
    "calibration" \notin raised =>
        \A m \in published :
            /\ m[2] \notin transforms =>
                 m[1] \in {"ir", "imu"} /\ (m[1] \in raised \/ "color" \notin streams)
            /\ m[1] \in Video => m[1] \in infos
=============================================================================
