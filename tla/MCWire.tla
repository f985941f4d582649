------------------------------- MODULE MCWire -------------------------------
(* Formats, codecs and sizes for which batches fill up, and one setup in    *)
(* which the response arrives in small pieces.                              *)
EXTENDS Wire

All == 1000

short == [key |-> None, value |-> <<1>>, headers |-> << >>, timestamp |-> 610]
long == [key |-> << >>, value |-> <<0, 0, 0, 0, 0, 0, 0>>, headers |-> << >>,
         timestamp |-> 10]
tagged == [key |-> <<2>>, value |-> None, timestamp |-> 12,
           headers |-> << << <<3>>, None >>, << << >>, <<4, 4>> >> >>]

Setup(magic, codec, size, appendTime) ==
    [magic |-> magic, codec |-> codec, batch_size |-> size,
     append_time |-> appendTime, transactional |-> FALSE,
     sequence |-> MaxInt - 1, correlation_id |-> 0,
     values |-> {short, long, tagged}, records |-> 3, refusals |-> 1,
     kinds |-> {"fetch"}, requests |-> 1,
     cuts |-> {0, 1}, chunks |-> {All}, faults |-> {}]

MCSetups ==
    {Setup(2, codec, size, FALSE) : codec \in {0, 1}, size \in {84, 90}}
    \cup {Setup(magic, codec, 85, magic = 1) : magic \in {0, 1},
                                               codec \in {0, 1}}
    \cup {[Setup(magic, codec, 90, FALSE) EXCEPT
             !.values = {short, long}, !.records = 2, !.refusals = 0,
             !.transactional = magic = 2, !.cuts = {0},
             !.faults = {"corrupt"}] : magic \in {1, 2}, codec \in {0, 1}}
    \cup {[Setup(2, 0, 90, TRUE) EXCEPT
             !.records = 1, !.refusals = 0, !.requests = 2,
             !.kinds = {"fetch", "coordinator"}, !.correlation_id = MaxInt - 1,
             !.chunks = {1, 3, All}, !.cuts = {0, 50},
             !.faults = {"undecodable", "misnumbered"}]}
=============================================================================
