------------------------ MODULE MCKeyboardController ------------------------
\* Instances of the input gate for TLC: which reports arrive.
EXTENDS KeyboardController

\* Everything: status, sleep, gpio-keys and the fallback Hall reply.
MCEverything == AllInputs
\* A tablet whose gpio-keys device is found.
MCGpioKeys == {"status", "input"}
\* The same with a keyboard that falls asleep.
MCSleepy == {"status", "input", "sleep"}
\* A tablet without gpio-keys: the Hall reply is the only Hall source.
MCFallback == {"status", "proto"}
=============================================================================
