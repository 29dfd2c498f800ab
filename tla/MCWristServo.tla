---------------------------- MODULE MCWristServo ----------------------------
EXTENDS WristServo

LowLimit == -3
TwoSlopes == {-1, 1}

\* A calibration of a linear feature that nothing disturbed.
Exact ==
  /\ ~angular /\ calibration.spread = 0
  /\ calibration.fit.num = calibration.slope * calibration.fit.den

\* What is between the arm and its frames, and between the carabiner and the tracker, is the
\* same under every calibration: it is looked into under the exact ones.
Apart ==
  \/ told.blob = "other" \/ told.lag > 0
  \/ Abs(pose - told.frame) > MaxStep

Explored == line = "servo" /\ Apart => Exact
=============================================================================
