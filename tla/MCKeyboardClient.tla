-------------------------- MODULE MCKeyboardClient --------------------------
EXTENDS KeyboardClient

Reports(kinds, size, len, good, on) ==
    [kind : kinds, size : size, len : len, sum : {TRUE}, good : good, on : on]

\* Reports of just the size and length a parser wants, and of one too little.
MCFrames ==
    Reports({"status"}, {20}, {13}, BOOLEAN, BOOLEAN)
    \cup Reports({"status"}, {19}, {13}, {TRUE}, {TRUE})
    \cup Reports({"status"}, {20}, {12}, {TRUE}, {TRUE})
    \cup Reports({"sleep"}, {8}, {1, 2}, BOOLEAN, BOOLEAN)
    \cup Reports({"effect", "ack"}, {8}, {1}, BOOLEAN, BOOLEAN)
    \cup Reports({"keyboardVersion"}, {12, 19}, {4, 5, 12}, {TRUE}, {TRUE})
    \cup Reports({"mcuVersion"}, {24}, {16, 17}, {TRUE}, {TRUE})
    \cup Reports({"identity"}, {25, 26}, {18, 19}, {TRUE}, {TRUE})
    \cup Reports({"gsensor"}, {13}, {5, 6}, {TRUE}, {TRUE})
    \cup Reports({"hall"}, {6, 7}, {1}, {TRUE}, {TRUE})
    \cup Reports({"debug"}, {3, 4}, {0}, {TRUE}, {TRUE})
    \cup Reports({"other"}, {128}, {0}, {TRUE}, {TRUE})

MCRawCommands ==
    [size : {1, 3, 66, 67, 68, 69}, d0 : {kTransportReport, kBinderFrame},
     d1 : {0, 1, 66, 67}, d2 : {kTransportReport}]
=============================================================================
