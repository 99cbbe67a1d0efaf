\* epoll/run.sh with a program of four labels: -l names the first, ckpt_op_num
\* is the last.
SPECIFICATION EpollSpec
CONSTANTS
  IMAX = 3
  CkptOpNum = 3
  CkptLabel = 0
  NumTests = 2
PROPERTY
  OriginalEnds
CHECK_DEADLOCK FALSE
