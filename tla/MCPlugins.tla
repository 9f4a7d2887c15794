----------------------------- MODULE MCPlugins -----------------------------
(* The input and the output plugins share no state: the run goes through   *)
(* each while the other has not been started.                              *)
EXTENDS Input, Output

Audio == [kind |-> "audio"]
Title == [kind |-> "title"]
Bytes(n) == [kind |-> "len", size |-> n]

MCNetwork == << Audio, Audio, Audio, Bytes(0), Audio, Audio, Audio, Bytes(2), Title, Title,
                Audio, Audio, Audio, Bytes(1), Title, Audio >>
MCLists == {<< "alsa", "waveout" >>, << "oss", "ao" >>, << "sun", "arts" >>}

Init == IpInit /\ OutInit
Next ==
    \/ out = NoOutput(out.list) /\ IpNext /\ UNCHANGED out
    \/ ip = NoInput /\ OutNext /\ UNCHANGED ip
Spec == Init /\ [][Next]_<< ip, out >>
=============================================================================
