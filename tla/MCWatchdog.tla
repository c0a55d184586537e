----------------------------- MODULE MCWatchdog -----------------------------
EXTENDS Watchdog
MCWatchdogInputs == {"waiting", "activity", "buffering", "verification", "esc", "requestError", "limit"}
MCLate == {"lateAnswer"}
=============================================================================
