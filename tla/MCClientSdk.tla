----------------------------- MODULE MCClientSdk -----------------------------
EXTENDS ClientSdk

AllSdks == {"js", "python", "async"}
Repeats == [o \in {"otp.send", "otp.verify", "magic.send", "magic.verify"} |->
          IF o = "otp.verify" THEN 3 ELSE 2]
=============================================================================
